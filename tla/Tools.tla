------------------------------- MODULE Tools -------------------------------
(***************************************************************************)
(* The programs a job runs, one after the other: formatters and djLint on   *)
(* the planned contents before anything is written (preflight), djLint on   *)
(* the changed templates, the checks of the job, isort and Black on the     *)
(* changed files, the checks again.  A verification runs its checks only.   *)
(* The actions of an audit are reads and git commands in any order; it goes *)
(* on when it cannot tell the version of git.  Each tool has a process with *)
(* a time limit (_process.run_process): asked to end, given a second,       *)
(* killed, given another.  A tool may exit with any code at any time or never,      *)
(* ignore the request, even outlive the kill; the user may press Ctrl-C.    *)
(* What a job does before, between and after them: module Observation.      *)
(***************************************************************************)
EXTENDS Naturals, FiniteSets, SequencesExt

CONSTANTS
  Path,            \* paths below the root
  Python,          \* changed .py files that remain, in the order of the plan
  Html,            \* changed .html files that remain
  New,             \* the changed files that did not exist
  Excluded,        \* files local policy keeps from isort and from black
  Checks,          \* the checks of the job, in order
  RerunChecks,     \* local policy: check again what was formatted
  Audit,           \* the actions of the audit, in the order of the plan
  MaxInterrupts    \* bound: KeyboardInterrupts

Formatters == {"isort", "black"}

Listing(s) == s \in Seq(Range(s)) /\ IsInjective(s)

Command(stage, tool, on, input) ==
  [stage |-> stage, tool |-> tool, on |-> on, input |-> input]

(* What the actions of an audit come down to here: `environment` asks for   *)
(* the version of git, `git_status` for the status, the others read files.  *)
GitVersion == Command("audit", "git", {}, "version")
GitStatus == Command("audit", "git", {}, "status")
Reading(path) == Command("audit", "read", {path}, "file")

ASSUME ToolsAssumption ==
  /\ Listing(Python) /\ Listing(Html) /\ Listing(Checks)
  /\ Excluded \in [Formatters -> SUBSET Range(Python)]
  /\ RerunChecks \in BOOLEAN
  /\ Audit \in Seq({GitVersion, GitStatus} \cup {Reading(path) : path \in Path})
  /\ MaxInterrupts \in Nat

-----------------------------------------------------------------------------
(* The commands, in order *)

(* run_quality_preflight: what each active formatter makes of the file as   *)
(* it is and as it is planned, then djLint on each planned template.        *)
Attempts(path, tool) ==
  IF path \in Excluded[tool] THEN <<>>
  ELSE (IF path \in New THEN <<>> ELSE <<Command("preflight", tool, {path}, "baseline")>>)
         \o <<Command("preflight", tool, {path}, "planned")>>
PreflightFormatting ==
  FlattenSeq([k \in DOMAIN Python |->
                Attempts(Python[k], "isort") \o Attempts(Python[k], "black")])
PreflightLinting == [k \in DOMAIN Html |-> Command("preflight", "djlint", {Html[k]}, "planned")]
Preflight == PreflightFormatting \o PreflightLinting

(* prepare_formatters: each formatter once, on the files it is not kept     *)
(* from, or not at all.                                                     *)
FormatterPaths(tool) == Range(Python) \ Excluded[tool]
FormatterRun(tool) ==
  IF FormatterPaths(tool) = {} THEN <<>>
  ELSE <<Command("format", tool, FormatterPaths(tool), "file")>>
Formatting == FormatterRun("isort") \o FormatterRun("black")

(* prepare_html_linter and prepare_checks. *)
Linting == [k \in DOMAIN Html |-> Command("lint", "djlint", {Html[k]}, "planned")]
Checking == [k \in DOMAIN Checks |-> Command("check", Checks[k], {}, "file")]

(* What _execute_locked runs once it has the lock. *)
AfterPreflight ==
  Linting \o Checking \o Formatting
    \o (IF RerunChecks /\ Formatting # <<>> THEN Checking ELSE <<>>)

(* The order of a patch, of a verification and of an audit. *)
Kind == {"patch", "verify", "audit"}
CommandsOf ==
  [job \in Kind |->
     CASE job = "patch"  -> Preflight \o AfterPreflight
       [] job = "verify" -> Checking
       [] job = "audit"  -> Audit]

-----------------------------------------------------------------------------
VARIABLES
  kind,         \* of the job
  pc,
  position,     \* command that is next or runs
  results,      \* status and exit code of the commands that ended
  leader,       \* the process of each command
  exit,         \* exit codes
  raising,      \* run_process handles a KeyboardInterrupt
  interrupts

tools == <<kind, pc, position, results, leader, exit, raising, interrupts>>

Commands == CommandsOf[kind]

Codes == {0, 1, 2}

ToolsInit ==
  /\ kind \in Kind
  /\ pc = "next" /\ position = 1
  /\ results = <<>>
  /\ leader = [k \in DOMAIN Commands |-> "none"]
  /\ exit = [k \in DOMAIN Commands |-> 0]
  /\ raising = FALSE
  /\ interrupts = 0

(* A formatter that refuses the file as it was, and a git that does not     *)
(* tell its version, only make a note.                                      *)
OnlyNoted(command) ==
  \/ command.stage = "preflight" /\ command.input = "baseline"
  \/ command = GitVersion

(* Mutant: any exit code of black --check will do. *)
MutAccepted(command, status, code) ==
  \/ status = "PASSED"
  \/ OnlyNoted(command)
  \/ command.stage = "audit" /\ status = "NOT_AVAILABLE"
  \/ /\ command.stage = "preflight" /\ command.tool = "black"
     /\ status \in {"FAILED", "ERROR"}

(* An audit does without git when there is none, and black --check exits    *)
(* with 1 when there is something to format.                                *)
Accepted(command, status, code) ==
  \/ status = "PASSED"
  \/ OnlyNoted(command)
  \/ command.stage = "audit" /\ status = "NOT_AVAILABLE"
  \/ /\ command.stage = "preflight" /\ command.tool = "black"
     /\ status = "FAILED" /\ code = 1

Running == leader[position] = "running"

(* Mutant: a sequence stops at an exit code, not at a timeout. *)
MutStops(status, code) ==
  status # "TIMED_OUT" /\ ~Accepted(Commands[position], status, code)

(* The loops over commands stop at the first one that is not accepted. *)
Stops(status, code) == ~Accepted(Commands[position], status, code)

Conclude(status, code) ==
  /\ results' = Append(results, [status |-> status, code |-> code])
  /\ IF Stops(status, code)
       THEN pc' = "failed" /\ UNCHANGED position
       ELSE pc' = "next" /\ position' = position + 1

(* The next command, one of a stage and a tool. *)
IsNext(stage, tool) ==
  /\ pc = "next" /\ position <= Len(Commands)
  /\ Commands[position].stage = stage /\ Commands[position].tool = tool

(* isort's preflight and the reads of an audit are calls in this process. *)
InProcess == IsNext("preflight", "isort") \/ IsNext("audit", "read")

CallIsort ==
  /\ IsNext("preflight", "isort")
  /\ \E status \in {"PASSED", "ERROR"} : Conclude(status, 0)
  /\ UNCHANGED <<kind, leader, exit, raising, interrupts>>

Launch ==
  /\ pc = "next" /\ position <= Len(Commands) /\ ~InProcess
  /\ leader' = [leader EXCEPT ![position] = "running"]
  /\ pc' = "waiting"
  /\ UNCHANGED <<kind, position, results, exit, raising, interrupts>>

LaunchFails ==
  /\ pc = "next" /\ position <= Len(Commands) /\ ~InProcess
  /\ Conclude("ERROR", 0)
  /\ UNCHANGED <<kind, leader, exit, raising, interrupts>>

(* There is no git, or no repository. *)
NoGit ==
  /\ IsNext("audit", "git")
  /\ Conclude("NOT_AVAILABLE", 0)
  /\ UNCHANGED <<kind, leader, exit, raising, interrupts>>

(* A file of an audit has been read (module Observation). *)
ReadEnds ==
  /\ IsNext("audit", "read")
  /\ Conclude("PASSED", 0)
  /\ UNCHANGED <<kind, leader, exit, raising, interrupts>>

(* process.wait or communicate returns. *)
Collect ==
  /\ pc = "waiting" /\ ~Running
  /\ Conclude(IF exit[position] = 0 THEN "PASSED" ELSE "FAILED", exit[position])
  /\ UNCHANGED <<kind, leader, exit, raising, interrupts>>

(* Mutant: a tool that has ended by now is taken at its exit code. *)
MutFinish ==
  IF raising
    THEN pc' = "raised" /\ UNCHANGED <<position, results>>
    ELSE IF Running THEN Conclude("TIMED_OUT", 0)
    ELSE Conclude(IF exit[position] = 0 THEN "PASSED" ELSE "FAILED", exit[position])

(* After _terminate_process: the timeout is the result, or the interrupt    *)
(* goes on.                                                                 *)
Finish ==
  IF raising
    THEN pc' = "raised" /\ UNCHANGED <<position, results>>
    ELSE Conclude("TIMED_OUT", 0)

(* The time is up; a process that has ended by now is not signalled. *)
Timeout ==
  /\ pc = "waiting"
  /\ \/ /\ Running
        /\ pc' = "asked"
        /\ UNCHANGED <<position, results>>
     \/ ~Running /\ Finish
  /\ UNCHANGED <<kind, leader, exit, raising, interrupts>>

(* A second after SIGTERM: the process has ended, or SIGKILL follows. *)
AfterTerm ==
  /\ pc = "asked"
  /\ \/ ~Running /\ Finish
     \/ /\ Running
        /\ pc' = "killed"
        /\ UNCHANGED <<position, results>>
  /\ UNCHANGED <<kind, leader, exit, raising, interrupts>>

(* Mutant: the killed process is waited for without a limit. *)
MutAfterKill ==
  /\ pc = "killed"
  /\ ~Running
  /\ Finish
  /\ UNCHANGED <<kind, leader, exit, raising, interrupts>>

(* A second after SIGKILL the call ends, whether the process has or not. *)
AfterKill ==
  /\ pc = "killed"
  /\ Finish
  /\ UNCHANGED <<kind, leader, exit, raising, interrupts>>

Complete ==
  /\ pc = "next" /\ position > Len(Commands)
  /\ pc' = "done"
  /\ UNCHANGED <<kind, position, results, leader, exit, raising, interrupts>>

(* Ctrl-C while waiting is handled by ending the process; anywhere else it  *)
(* goes straight through.                                                   *)
Interrupt ==
  /\ interrupts < MaxInterrupts
  /\ pc \in {"next", "waiting", "asked", "killed"}
  /\ interrupts' = interrupts + 1
  /\ IF pc = "waiting" /\ Running
       THEN pc' = "asked" /\ raising' = TRUE
       ELSE pc' = "raised" /\ UNCHANGED raising
  /\ UNCHANGED <<kind, position, results, leader, exit>>

(* A tool ends, by itself or by a signal. *)
Exit ==
  \E k \in DOMAIN Commands, code \in Codes :
    /\ leader[k] = "running"
    /\ leader' = [leader EXCEPT ![k] = "ended"]
    /\ exit' = [exit EXCEPT ![k] = code]
    /\ UNCHANGED <<kind, pc, position, results, raising, interrupts>>

Run ==
  \/ CallIsort \/ Launch \/ LaunchFails \/ NoGit \/ Collect
  \/ Timeout \/ AfterTerm \/ AfterKill \/ Complete

-----------------------------------------------------------------------------
(* Properties *)

(* No tool runs beside another: a process that outlives its kill, or a      *)
(* second Ctrl-C, leaves one behind only when nothing is started any more.  *)
(* The exceptions are a formatter that tried the old contents of a file and *)
(* the git an audit asked for its version.                                  *)
OneToolAtATime ==
  \A k \in DOMAIN Commands :
    leader[k] = "running" =>
      \/ k = position /\ pc \in {"waiting", "asked", "killed", "failed", "raised"}
      \/ OnlyNoted(Commands[k]) /\ results[k].status = "TIMED_OUT"

(* Whatever a tool answers once it was asked to end, it has not passed, and *)
(* the sequence ends there unless its answer is only noted.                 *)
LateAnswerIsNoSuccess ==
  [][(pc \in {"asked", "killed"} /\ results' # results) =>
       LET command == Commands[position] IN
       /\ Last(results').status = "TIMED_OUT"
       /\ ~OnlyNoted(command) => pc' = "failed"]_tools

(* A formatter or linter touches or judges a file of the workspace only     *)
(* after it accepted the planned content of that file in the preflight, and *)
(* a check runs only after every tool before it passed.                     *)
Later == {"lint", "check", "format"}
ToolsRunOnAcceptedInput ==
  \A k \in DOMAIN Commands :
    (Commands[k].stage \in Later /\ leader[k] # "none") =>
      /\ \A path \in Commands[k].on : \E i \in DOMAIN results :
           /\ Commands[i].stage = "preflight" /\ Commands[i].tool = Commands[k].tool
           /\ Commands[i].on = {path} /\ Commands[i].input = "planned"
           /\ results[i].status \in {"PASSED", "FAILED"}
      /\ \A i \in 1..(k - 1) :
           Commands[i].stage \in Later => results[i].status = "PASSED"
=============================================================================
