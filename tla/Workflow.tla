------------------------------ MODULE Workflow ------------------------------
(***************************************************************************)
(* The path every package-changing command of hallfix takes:               *)
(*                                                                         *)
(*   Planner -> SafetyPolicy -> confirmation -> Executor -> StateStore     *)
(*           -> HistoryStore                                               *)
(*                                                                         *)
(* for `tool install/remove`, `profile install/remove`, `update tools` and *)
(* `rollback`. Several hallfix processes may run at once, each may be      *)
(* killed between any two steps, and the packages also change behind       *)
(* their backs (the user's own apt/dnf/pacman/zypper).                     *)
(*                                                                         *)
(* Abstractions. A tool stands for its one native package; its version is  *)
(* "old" or "new". The tools of a command and the actions of a plan are    *)
(* sets, taken in any order. A history record is known by its position     *)
(* (HistoryLog models the ids), reading or writing state.json is one step  *)
(* (StateFile models the file). One action of a plan is one step on its    *)
(* package (PackageManager models the command behind it).                  *)
(***************************************************************************)
EXTENDS Naturals, Sequences, Packages

CONSTANTS
  Proc,           \* hallfix processes
  Root,           \* those among them that run as root; the others put sudo before each command
  Tool,           \* tool ids of the registry
  Profile,        \* profile ids, "custom" included
  Hallfix,        \* the mark of a tracked tool; also the profile of a command without one
  Supported,      \* tools with a native installation strategy on this system
  Versioned,      \* tools that declare a minimum_version, which "old" does not meet
  RiskOf,         \* risk_level of each tool
  Commands,       \* the commands users give
  MaxCommands,    \* bound: commands started
  MaxOutside      \* bound: package changes made outside hallfix

Low == 1
Medium == 2
High == 3
Critical == 4

Kind == {"none", "toolInstall", "toolRemove", "profileInstall", "profileRemove",
         "updateTools", "rollback"}

Command == [kind : Kind, profile : Profile \cup {Hallfix}, tools : SUBSET Tool,
            yes : BOOLEAN, dry : BOOLEAN]

Op      == {"install", "remove"}
Action  == [op : Op, tool : Tool]
Outcome == [op : Op, tool : Tool, ok : BOOLEAN, already : BOOLEAN]
Entry   == SUBSET (Profile \cup {Hallfix})
Record  == [kind : Kind, dry : BOOLEAN, outcomes : SUBSET Outcome]

ASSUME ConstantsAssumption ==
  /\ Hallfix \notin Profile
  /\ Root \subseteq Proc
  /\ Supported \subseteq Tool
  /\ Versioned \subseteq Tool
  /\ RiskOf \in [Tool -> Low .. Critical]
  /\ Commands \subseteq Command
  /\ EnglishOutput \in BOOLEAN
  /\ MaxCommands \in Nat
  /\ MaxOutside \in Nat

VARIABLES
  pkg,      \* what the native package manager has of each tool
  store,    \* state.json: {} is "no entry", otherwise {Hallfix} \cup installed_for
  history,  \* history.jsonl: the operation records
  pc,       \* where each process is
  cmd,      \* its command and flags
  todo,     \* tools the planner still has to look at
  plan,     \* the execution plan
  answer,   \* how the plan was allowed to proceed
  res,      \* results of the actions executed so far
  due,      \* results whose ownership record is still to be written
  copy,     \* the state.json it has loaded
  begun, outside,  \* counters of the two bounds
  changed,  \* history variable: tools a successful install command put or upgraded
  lost      \* history variable: tools freshly installed by a process that was killed

procVars == <<cmd, todo, plan, answer, res, due, copy>>
sysVars  == <<pkg, store, history>>
ghosts   == <<changed, lost>>
bounds   == <<begun, outside>>
vars     == <<sysVars, pc, procVars, bounds, ghosts>>

Idle == [kind |-> "none", profile |-> Hallfix, tools |-> {}, yes |-> FALSE, dry |-> FALSE]
NoEntries == [t \in Tool |-> {}]

TypeOK ==
  /\ pkg \in [Tool -> Version]
  /\ store \in [Tool -> Entry]
  /\ history \in Seq(Record)
  /\ pc \in [Proc -> {"idle", "plan", "confirm", "run", "own", "save", "log"}]
  /\ cmd \in [Proc -> Command]
  /\ todo \in [Proc -> SUBSET Tool]
  /\ plan \in [Proc -> SUBSET Action]
  /\ answer \in [Proc -> {"none", "flag", "prompt"}]
  /\ res \in [Proc -> SUBSET Outcome]
  /\ due \in [Proc -> SUBSET Outcome]
  /\ copy \in [Proc -> [Tool -> Entry]]
  /\ begun \in 0 .. MaxCommands
  /\ outside \in 0 .. MaxOutside
  /\ changed \subseteq Tool
  /\ lost \subseteq Tool

-----------------------------------------------------------------------------
(* Records and ownership entries.                                          *)

\* Names with an underscore are plausible mistakes in the definition that
\* follows them; they show that a property can fail and are used nowhere.

Undoes_AlreadyToo(o) == o.op = "install" /\ o.ok

\* ActionOutcome.rollback_eligible: only an install is reversible (RiskEvaluator).
Undoes(o) == o.op = "install" /\ o.ok /\ ~o.already

\* OperationRecord.is_rollback_eligible and rollback_eligible_outcomes.
UndoneBy(rec) == IF rec.dry THEN {} ELSE {o.tool : o \in {x \in rec.outcomes : Undoes(x)}}

\* ToolState.installed_by_hallfix of an entry (no caller ever writes FALSE).
Owned(entries, t) == Hallfix \in entries[t]

RecordInstalled_ToolAsProfile(entries, t, prof) == [entries EXCEPT ![t] = @ \cup {Hallfix, t}]

\* StateStore.record_installed / record_removed on a loaded state.
RecordInstalled(entries, t, prof) == [entries EXCEPT ![t] = @ \cup {Hallfix, prof}]
RecordRemoved(entries, t) == [entries EXCEPT ![t] = {}]

-----------------------------------------------------------------------------
(* Planner: what it plans for one tool, from the packages and state it     *)
(* sees when it looks.                                                     *)

Installed(t) == pkg[t] # "absent"
MeetsMinimum(t) == pkg[t] = "new" \/ t \notin Versioned

PlanToolInstall(t) == t \in Supported /\ ~(Installed(t) /\ MeetsMinimum(t))
PlanToolRemove(t)  == t \in Supported /\ Installed(t)
PlanToolUpdate(t)  == t \in Supported /\ Installed(t)

OtherOwners(t, prof) == store[t] \ {Hallfix, prof}

PlanProfileRemove_NoOwnerCheck(t, prof) == Owned(store, t) /\ PlanToolRemove(t)

PlanProfileRemove(t, prof) ==
  /\ Owned(store, t)
  /\ OtherOwners(t, prof) = {}
  /\ PlanToolRemove(t)

InstallWanted(c, t) ==
  \/ c.kind \in {"toolInstall", "profileInstall"} /\ PlanToolInstall(t)
  \/ c.kind = "updateTools" /\ PlanToolUpdate(t)

RemoveWanted(c, t) ==
  \/ c.kind = "toolRemove" /\ PlanToolRemove(t)
  \/ c.kind = "profileRemove" /\ PlanProfileRemove(t, c.profile)

-----------------------------------------------------------------------------
(* SafetyPolicy. ExecutionPlan.risk_level is the greatest risk of the      *)
(* plan's actions, so it reaches a level iff some action does.             *)

RiskAtLeast(actions, level) == \E a \in actions : RiskOf[a.tool] >= level

RequiresConfirmation(actions) == RiskAtLeast(actions, Medium)
AllowsAutoConfirm_SomeAction(actions) == \E a \in actions : RiskOf[a.tool] < High

AllowsAutoConfirm(actions) == ~RiskAtLeast(actions, High)

-----------------------------------------------------------------------------
Init ==
  /\ pkg \in [Tool -> Version]
  /\ store = NoEntries
  /\ history = << >>
  /\ pc = [p \in Proc |-> "idle"]
  /\ cmd = [p \in Proc |-> Idle]
  /\ todo = [p \in Proc |-> {}]
  /\ plan = [p \in Proc |-> {}]
  /\ answer = [p \in Proc |-> "none"]
  /\ res = [p \in Proc |-> {}]
  /\ due = [p \in Proc |-> {}]
  /\ copy = [p \in Proc |-> NoEntries]
  /\ begun = 0
  /\ outside = 0
  /\ changed = {}
  /\ lost = {}

Goto(p, from, to) == pc[p] = from /\ pc' = [pc EXCEPT ![p] = to]

\* The process ends: nothing of it survives but what it wrote to disk.
Exit(p) ==
  /\ pc' = [pc EXCEPT ![p] = "idle"]
  /\ cmd' = [cmd EXCEPT ![p] = Idle]
  /\ todo' = [todo EXCEPT ![p] = {}]
  /\ plan' = [plan EXCEPT ![p] = {}]
  /\ answer' = [answer EXCEPT ![p] = "none"]
  /\ res' = [res EXCEPT ![p] = {}]
  /\ due' = [due EXCEPT ![p] = {}]
  /\ copy' = [copy EXCEPT ![p] = NoEntries]

\* A command starts: `update tools` takes its tools from one load of the
\* state, every other command from its arguments.
Begin(p, c) ==
  /\ Goto(p, "idle", "plan")
  /\ begun < MaxCommands
  /\ c.kind \notin {"none", "rollback"}
  /\ begun' = begun + 1
  /\ cmd' = [cmd EXCEPT ![p] = c]
  /\ todo' = [todo EXCEPT ![p] = IF c.kind = "updateTools"
                                 THEN {t \in Tool : Owned(store, t)}
                                 ELSE c.tools]
  /\ UNCHANGED <<sysVars, plan, answer, res, due, copy, outside, ghosts>>

\* `hallfix rollback [id]` reads the history once and plans from record i
\* alone: an id names any eligible record, the default is the last eligible
\* one. With no such record the command ends without a trace.
BeginRollback(p, c, i) ==
  /\ Goto(p, "idle", "plan")
  /\ begun < MaxCommands
  /\ c.kind = "rollback"
  /\ UndoneBy(history[i]) # {}
  /\ begun' = begun + 1
  /\ cmd' = [cmd EXCEPT ![p] = c]
  /\ plan' = [plan EXCEPT ![p] = {[op |-> "remove", tool |-> t] : t \in UndoneBy(history[i])}]
  /\ UNCHANGED <<sysVars, todo, answer, res, due, copy, outside, ghosts>>

Planned(p, t, actions) ==
  /\ pc[p] = "plan"
  /\ t \in todo[p]
  /\ todo' = [todo EXCEPT ![p] = @ \ {t}]
  /\ plan' = [plan EXCEPT ![p] = @ \cup actions]
  /\ UNCHANGED <<sysVars, pc, cmd, answer, res, due, copy, bounds, ghosts>>

PlanTool(p, t) ==
  \/ InstallWanted(cmd[p], t) /\ Planned(p, t, {[op |-> "install", tool |-> t]})
  \/ RemoveWanted(cmd[p], t) /\ Planned(p, t, {[op |-> "remove", tool |-> t]})
  \/ ~InstallWanted(cmd[p], t) /\ ~RemoveWanted(cmd[p], t) /\ Planned(p, t, {})

\* A no-op plan, or a dry run, goes straight to the history; a dry-run
\* rollback is only shown.
EndPlan(p) ==
  /\ pc[p] = "plan"
  /\ todo[p] = {}
  /\ \/ /\ plan[p] # {} /\ ~cmd[p].dry
        /\ Goto(p, "plan", "confirm")
        /\ UNCHANGED procVars
     \/ /\ plan[p] = {} \/ cmd[p].dry
        /\ cmd[p].kind # "rollback"
        /\ Goto(p, "plan", "log")
        /\ UNCHANGED procVars
     \/ /\ plan[p] = {} \/ cmd[p].dry
        /\ cmd[p].kind = "rollback"
        /\ Exit(p)
  /\ UNCHANGED <<sysVars, bounds, ghosts>>

\* resolve_confirmation lets the plan proceed: nothing to ask, --yes, or the
\* user says yes at the prompt.
Proceed(p) ==
  /\ Goto(p, "confirm", "run")
  /\ \/ /\ ~RequiresConfirmation(plan[p])
        /\ answer' = answer
     \/ /\ RequiresConfirmation(plan[p]) /\ cmd[p].yes /\ AllowsAutoConfirm(plan[p])
        /\ answer' = [answer EXCEPT ![p] = "flag"]
     \/ /\ RequiresConfirmation(plan[p]) /\ ~cmd[p].yes
        /\ answer' = [answer EXCEPT ![p] = "prompt"]
  /\ UNCHANGED <<sysVars, cmd, todo, plan, res, due, copy, bounds, ghosts>>

\* --yes on a plan it cannot confirm, or a "no" at the prompt: exit 1.
Decline(p) ==
  /\ pc[p] = "confirm"
  /\ RequiresConfirmation(plan[p])
  /\ cmd[p].yes => ~AllowsAutoConfirm(plan[p])
  /\ Exit(p)
  /\ UNCHANGED <<sysVars, bounds, ghosts>>

Pending(p) == {a \in plan[p] : \A r \in res[p] : <<r.op, r.tool>> # <<a.op, a.tool>>}

\* One action of the plan; its failure does not stop the others.
Finished(p, a, report) ==
  /\ pc[p] = "run"
  /\ pkg' = [pkg EXCEPT ![a.tool] = report.now]
  /\ res' = [res EXCEPT ![p] = @ \cup {[op |-> a.op, tool |-> a.tool, ok |-> report.ok,
                                        already |-> report.already]}]
  /\ UNCHANGED <<store, history, pc, cmd, todo, plan, answer, due, copy, bounds, lost>>

ExecuteInstall(p, a, report) ==
  /\ a \in Pending(p) /\ a.op = "install"
  /\ report \in InstallReports(pkg[a.tool])
  /\ Finished(p, a, report)
  /\ changed' = IF report.ok /\ report.now # pkg[a.tool] THEN changed \cup {a.tool} ELSE changed

ExecuteRemove(p, a, report) ==
  /\ a \in Pending(p) /\ a.op = "remove"
  /\ report \in RemoveReports(pkg[a.tool])
  /\ Finished(p, a, report)
  /\ UNCHANGED changed

RecordsOwnership_AlreadyToo(r) == r.ok

\* _record_ownership looks only at results that succeeded, and at installs
\* that were not already satisfied.
RecordsOwnership(r) == r.ok /\ (r.op = "install" => ~r.already)

DueOf_AllOrNothing(results) ==
  {r \in results : RecordsOwnership(r) /\ \A x \in results : x.ok}

DueOf(results) == {r \in results : RecordsOwnership(r)}

AllExecuted_StopOnFailure(p) == Pending(p) = {} /\ \A r \in res[p] : r.ok

AllExecuted(p) == Pending(p) = {}

EndRun(p) ==
  /\ Goto(p, "run", "own")
  /\ AllExecuted(p)
  /\ due' = [due EXCEPT ![p] = DueOf(res[p])]
  /\ UNCHANGED <<sysVars, cmd, todo, plan, answer, res, copy, bounds, ghosts>>

\* record_installed / record_removed: load the state ...
LoadState(p) ==
  /\ Goto(p, "own", "save")
  /\ due[p] # {}
  /\ copy' = [copy EXCEPT ![p] = store]
  /\ UNCHANGED <<sysVars, cmd, todo, plan, answer, res, due, bounds, ghosts>>

\* ... and save it changed: the whole file, whatever others wrote since.
SaveState(p, r) ==
  /\ Goto(p, "save", "own")
  /\ r \in due[p]
  /\ store' = IF r.op = "install" THEN RecordInstalled(copy[p], r.tool, cmd[p].profile)
                                  ELSE RecordRemoved(copy[p], r.tool)
  /\ due' = [due EXCEPT ![p] = @ \ {r}]
  /\ copy' = [copy EXCEPT ![p] = NoEntries]
  /\ UNCHANGED <<pkg, history, cmd, todo, plan, answer, res, bounds, ghosts>>

EndOwnership(p) ==
  /\ Goto(p, "own", "log")
  /\ due[p] = {}
  /\ UNCHANGED <<sysVars, procVars, bounds, ghosts>>

RecordOf_SuccessOnly(p) ==
  [kind |-> cmd[p].kind, dry |-> cmd[p].dry /\ plan[p] # {},
   outcomes |-> {r \in res[p] : \A x \in res[p] : x.ok}]

RecordOf(p) ==
  [kind |-> cmd[p].kind, dry |-> cmd[p].dry /\ plan[p] # {}, outcomes |-> res[p]]

AppendHistory_Rewrites(p) ==
  /\ pc[p] = "log"
  /\ history' = <<RecordOf(p)>>
  /\ Exit(p)
  /\ UNCHANGED <<pkg, store, bounds, ghosts>>

\* history.append, after a run, a dry run or a no-op (never marked dry_run).
AppendHistory(p) ==
  /\ pc[p] = "log"
  /\ history' = Append(history, RecordOf(p))
  /\ Exit(p)
  /\ UNCHANGED <<pkg, store, bounds, ghosts>>

\* The process is killed, or an exception ends it.
Crash(p) ==
  /\ pc[p] # "idle"
  /\ lost' = lost \cup {r.tool : r \in {x \in res[p] : Undoes(x)}}
  /\ Exit(p)
  /\ UNCHANGED <<sysVars, bounds, changed>>

\* The user installs, upgrades or removes a package without hallfix.
Outside(t, v) ==
  /\ outside < MaxOutside
  /\ v # pkg[t]
  /\ pkg' = [pkg EXCEPT ![t] = v]
  /\ outside' = outside + 1
  /\ UNCHANGED <<store, history, pc, procVars, begun, ghosts>>

\* What a process does on its own once it has been started and allowed.
Execute(p) ==
  \/ \E a \in plan[p] : \E report \in InstallReports(pkg[a.tool]) : ExecuteInstall(p, a, report)
  \/ \E a \in plan[p] : \E report \in RemoveReports(pkg[a.tool]) : ExecuteRemove(p, a, report)
  \/ EndRun(p)
  \/ LoadState(p)
  \/ \E r \in due[p] : SaveState(p, r)
  \/ EndOwnership(p)
  \/ AppendHistory(p)

Step(p) ==
  \/ \E c \in Commands : Begin(p, c)
  \/ \E c \in Commands, i \in DOMAIN history : BeginRollback(p, c, i)
  \/ \E t \in todo[p] : PlanTool(p, t)
  \/ EndPlan(p)
  \/ Proceed(p)
  \/ Decline(p)
  \/ Execute(p)
  \/ Crash(p)

Next == (\E p \in Proc : Step(p)) \/ (\E t \in Tool, v \in Version : Outside(t, v))

Spec == Init /\ [][Next]_vars

\* A native command is killed at its timeout when hallfix runs as root, and
\* nothing else it does in Execute waits for anyone. Behind sudo the kill is
\* refused and hallfix waits for the command, which may never end: nothing is
\* fair for those processes, nor are the user and the kill.
Fairness == \A p \in Root : WF_vars(Execute(p))

FairSpec == Spec /\ Fairness

-----------------------------------------------------------------------------
(* Properties.                                                             *)

\* "Hallfix tracks what it changed - never assumes an installed package was
\* installed by Hallfix": whatever the interleaving, the crashes and the
\* stale copies, state.json only ever claims a tool after an install command
\* of hallfix put or upgraded it - when the package manager speaks English,
\* because "already installed" is recognised by its wording.
NeverAssumed == EnglishOutput => \A t \in Tool : Owned(store, t) => t \in changed

\* Every fresh install can be traced: it is in a history record that
\* rollback can undo, or its process has not come to write it yet, or the
\* process was killed in between. No abort, dry run or failure of another
\* action of the plan drops it.
InstallsAccounted ==
  \A t \in changed :
    \/ \E i \in DOMAIN history : t \in UndoneBy(history[i])
    \/ \E p \in Proc : \E r \in res[p] : Undoes(r) /\ r.tool = t
    \/ t \in lost

\* The process that executes an action for tool t in this step.
Acts(p, t) == \E r \in res'[p] \ res[p] : r.tool = t

\* The two commands that choose what to remove by themselves, profile remove
\* and rollback, never remove the package of a tool no install of hallfix
\* ever put or upgraded, however stale the records they planned from.
RemovalsAreOurs ==
  [][EnglishOutput =>
       \A p \in Proc, t \in Tool :
         /\ Acts(p, t)
         /\ cmd[p].kind \in {"profileRemove", "rollback"}
         /\ pkg[t] # pkg'[t]
         => t \in changed]_vars

\* A package changes at the hand of hallfix only for an action of the plan
\* the user was shown, in no dry run, and with the consent its risk asks
\* for: --yes or the prompt from MEDIUM on, the prompt alone from HIGH on -
\* for the risk of the whole plan, not of the action at hand.
ConsentedChange ==
  [][\A p \in Proc, t \in Tool :
       Acts(p, t) =>
         /\ ~cmd[p].dry
         /\ \E a \in plan[p] : a.tool = t
         /\ \A a \in plan[p] :
              /\ RiskOf[a.tool] >= Medium => answer[p] # "none"
              /\ RiskOf[a.tool] >= High => answer[p] = "prompt"]_vars

\* Profile remove never removes a tool while state.json says another profile
\* has claimed it. (One process: a claim made by another process between the
\* plan and the removal is not seen.)
ClaimsRespected ==
  [][\A p \in Proc, t \in Tool :
       Acts(p, t) /\ cmd[p].kind = "profileRemove" => OtherOwners(t, cmd[p].profile) = {}]_vars

\* A plan that was allowed to run as root is run, recorded and left: failures,
\* locks and timeouts of its actions never keep the command going for ever,
\* whatever other processes do, even if one of them never comes back.
RunsEnd == \A p \in Root : pc[p] = "run" ~> pc[p] = "idle"
=============================================================================
