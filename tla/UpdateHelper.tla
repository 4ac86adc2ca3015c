---------------------------- MODULE UpdateHelper ----------------------------
(***************************************************************************)
(* The last step of an update on Windows (internal/updater/                *)
(* launch_windows.go): the verified new executable runs as a helper, waits *)
(* for the old process, and replaces the executable that process ran from, *)
(* with a copy of it to go back to.  A step may fail, a copy may be cut    *)
(* short, and a helper may be killed at any step.                          *)
(*                                                                         *)
(* InstallUpdate (app.go) clears a.updating when it returns, a second      *)
(* before it quits: by then the user may have started a second helper.     *)
(***************************************************************************)
EXTENDS Integers, FiniteSets

CONSTANTS Helpers,
          MaxStarts      \* bound of the model: helpers started in all

UpdateHelperAssumption == MaxStarts \in Nat

Contents == {"none", "old", "new", "part"}

VARIABLES target,        \* the executable the application runs from
          backup,        \* its .update-backup
          staged,        \* the staged copy of each helper
          pc,            \* the step of each helper
          running,       \* the application that runs: "none", "old" or "new"
          quitting,      \* it quits within a second
          starts,
          overlapped     \* history: two helpers were at work at once

vars == <<target, backup, staged, pc, running, quitting, starts, overlapped>>

TypeOK ==
    /\ target \in Contents \ {"none"} /\ backup \in Contents /\ staged \in [Helpers -> Contents]
    /\ pc \in [Helpers -> {"none", "wait", "stage", "unback", "copy", "replace", "check", "launch",
                           "unbackup", "rollback"}]
    /\ running \in Contents /\ quitting \in BOOLEAN /\ starts \in 0..MaxStarts
    /\ overlapped \in BOOLEAN

Init ==
    /\ target = "old" /\ backup = "none"
    /\ staged = [h \in Helpers |-> "none"] /\ pc = [h \in Helpers |-> "none"]
    /\ running = "old" /\ quitting = FALSE /\ starts = 0
    /\ overlapped = FALSE

\* LaunchInstaller, then Quit a second later.
LaunchInstaller(h) ==
    /\ running = "old" /\ pc[h] = "none" /\ starts < MaxStarts
    /\ starts' = starts + 1
    /\ pc' = [pc EXCEPT ![h] = "wait"]
    /\ quitting' = TRUE
    /\ UNCHANGED <<target, backup, staged, running>>

\* waitForProcess of its helpers returns.
Quit ==
    /\ quitting
    /\ running' = "none" /\ quitting' = FALSE
    /\ pc' = [h \in Helpers |-> IF pc[h] = "wait" THEN "stage" ELSE pc[h]]
    /\ UNCHANGED <<target, backup, staged, starts>>

\* The user starts the executable again; a damaged one does not start.
UserStarts ==
    /\ running = "none" /\ target \in {"old", "new"}
    /\ running' = target
    /\ UNCHANGED <<target, backup, staged, pc, quitting, starts>>

\* The helper ends; the staged copy goes with it.
Ends(h) == pc' = [pc EXCEPT ![h] = "none"] /\ staged' = [staged EXCEPT ![h] = "none"]
Step(h, next) == pc' = [pc EXCEPT ![h] = next]

\* copyExecutable and both hashes.
Stage(h) ==
    /\ pc[h] = "stage"
    /\ staged' = [staged EXCEPT ![h] = "new"]
    /\ Step(h, "unback")
    /\ UNCHANGED <<target, backup, running, quitting, starts>>

\* An earlier backup goes, or stays where it cannot be removed.
RemoveBackup(h) ==
    /\ pc[h] = "unback"
    /\ backup' \in {"none", backup}
    /\ Step(h, "copy")
    /\ UNCHANGED <<target, staged, running, quitting, starts>>

\* Mutant: the result of the copy is not looked at.
BackUpUnchecked(h, ok) ==
    /\ pc[h] = "copy"
    /\ backup' = IF ok THEN target ELSE "part"
    /\ Step(h, "replace")
    /\ UNCHANGED <<target, staged, running, quitting, starts>>

BackUp(h, ok) ==
    /\ pc[h] = "copy"
    /\ backup' = IF ok THEN target ELSE "none"
    /\ IF ok THEN Step(h, "replace") /\ UNCHANGED staged ELSE Ends(h)
    /\ UNCHANGED <<target, running, quitting, starts>>

\* MoveFileEx replaces the file in one step, but not one that is running.
Movable == running = "none"

\* Installed as it was staged, or damaged, which the hash afterwards tells.
Replace(h, ok) ==
    /\ pc[h] = "replace" /\ (ok => Movable)
    /\ IF ok
       THEN target' \in {"new", "part"} /\ staged' = [staged EXCEPT ![h] = "none"] /\ Step(h, "check")
       ELSE Step(h, "rollback") /\ UNCHANGED <<target, staged>>
    /\ UNCHANGED <<backup, running, quitting, starts>>

Check(h) ==
    /\ pc[h] = "check"
    /\ Step(h, IF target = "new" THEN "launch" ELSE "rollback")
    /\ UNCHANGED <<target, backup, staged, running, quitting, starts>>

Launch(h, ok) ==
    /\ pc[h] = "launch"
    /\ running' = IF ok THEN target ELSE running
    /\ Step(h, IF ok THEN "unbackup" ELSE "rollback")
    /\ UNCHANGED <<target, backup, staged, quitting, starts>>

DropBackup(h) ==
    /\ pc[h] = "unbackup"
    /\ backup' \in {"none", backup}
    /\ Ends(h)
    /\ UNCHANGED <<target, running, quitting, starts>>

\* rollbackWindowsUpdate, or the backup is preserved for the user.
Rollback(h, ok) ==
    /\ pc[h] = "rollback" /\ (ok => Movable /\ backup # "none")
    /\ target' = IF ok THEN backup ELSE target
    /\ backup' = IF ok THEN "none" ELSE backup
    /\ Ends(h)
    /\ UNCHANGED <<running, quitting, starts>>

\* The old process cannot be waited for, or the copy or its hash fails.
GivesUp(h) ==
    /\ pc[h] \in {"wait", "stage"}
    /\ Ends(h)
    /\ UNCHANGED <<target, backup, running, quitting, starts>>

\* The machine goes down; what is half written stays.
Killed(h) ==
    /\ pc[h] # "none"
    /\ pc' = [pc EXCEPT ![h] = "none"]
    /\ UNCHANGED staged
    /\ backup' = IF pc[h] = "copy" THEN "part" ELSE backup
    /\ UNCHANGED <<target, running, quitting, starts>>

\* The old process is gone for it, and the helper is at its files.
AtWork(h) == pc[h] \notin {"none", "wait"}

Remember == overlapped' = (overlapped \/ \E g, h \in Helpers : g # h /\ AtWork(g)' /\ AtWork(h)')

Act ==
    \/ Quit \/ UserStarts
    \/ \E h \in Helpers : \/ LaunchInstaller(h) \/ Stage(h) \/ RemoveBackup(h)
                          \/ Check(h) \/ DropBackup(h) \/ GivesUp(h) \/ Killed(h)
                          \/ \E ok \in BOOLEAN : BackUp(h, ok) \/ Replace(h, ok) \/ Launch(h, ok) \/ Rollback(h, ok)

Next == Act /\ Remember

Spec == Init /\ [][Next]_vars
-----------------------------------------------------------------------------
\* Whatever fails or is killed, the executable is whole or its backup is, unless two helpers
\* were at work at once: the second takes for the old executable what the first has put there.
SomethingStarts == ~overlapped => target \in {"old", "new"} \/ backup \in {"old", "new"}

\* The application that is relaunched is the one that was verified, with the same exception:
\* the file a helper has checked may be replaced by the other before it is launched.
RunsWhole == ~overlapped /\ running # "none" => target \in {"old", "new"}
=============================================================================
