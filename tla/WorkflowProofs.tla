--------------------------- MODULE WorkflowProofs ---------------------------
(***************************************************************************)
(* Proofs about Workflow, for any number of processes, tools, profiles,    *)
(* commands and crashes.                                                   *)
(***************************************************************************)
EXTENDS Workflow, FiniteSetTheorems, TLAPS

(***************************************************************************)
(* Exactly what each kind of step leaves alone, as facts about Next: every *)
(* proof below splits a step along these disjuncts.                        *)
(***************************************************************************)
LEMMA StepCases ==
  ASSUME NEW p \in Proc, Step(p)
  PROVE  \/ \E c \in Commands : Begin(p, c)
         \/ \E c \in Commands, i \in DOMAIN history : BeginRollback(p, c, i)
         \/ \E t \in todo[p] : PlanTool(p, t)
         \/ EndPlan(p) \/ Proceed(p) \/ Decline(p)
         \/ \E a \in plan[p] : \E report \in InstallReports(pkg[a.tool]) :
              ExecuteInstall(p, a, report)
         \/ \E a \in plan[p] : \E report \in RemoveReports(pkg[a.tool]) :
              ExecuteRemove(p, a, report)
         \/ EndRun(p) \/ LoadState(p)
         \/ \E r \in due[p] : SaveState(p, r)
         \/ EndOwnership(p) \/ AppendHistory(p) \/ Crash(p)
BY DEF Step, Execute

-----------------------------------------------------------------------------
(* Type correctness.                                                       *)

LEMMA ExitType ==
  ASSUME TypeOK, NEW p \in Proc, Exit(p)
  PROVE  /\ pc' \in [Proc -> {"idle", "plan", "confirm", "run", "own", "save", "log"}]
         /\ cmd' \in [Proc -> Command]
         /\ todo' \in [Proc -> SUBSET Tool]
         /\ plan' \in [Proc -> SUBSET Action]
         /\ answer' \in [Proc -> {"none", "flag", "prompt"}]
         /\ res' \in [Proc -> SUBSET Outcome]
         /\ due' \in [Proc -> SUBSET Outcome]
         /\ copy' \in [Proc -> [Tool -> Entry]]
BY DEF TypeOK, Exit, Idle, Command, Kind, NoEntries, Entry

LEMMA ReportType ==
  ASSUME NEW v \in Version, NEW report \in InstallReports(v) \cup RemoveReports(v)
  PROVE  report.ok \in BOOLEAN /\ report.already \in BOOLEAN /\ report.now \in Version
<1>1. Installs(v) \subseteq Version
  BY DEF Installs, Version
<1>2. \A w \in Version, ok \in BOOLEAN, already \in BOOLEAN :
         /\ Report(ok, already, w).ok \in BOOLEAN
         /\ Report(ok, already, w).already \in BOOLEAN
         /\ Report(ok, already, w).now \in Version
  BY DEF Report
<1>3. CASE report \in InstallReports(v)
  <2>1. \E w \in Version, ok \in BOOLEAN, already \in BOOLEAN : report = Report(ok, already, w)
    BY <1>1, <1>3 DEF InstallReports
  <2>2. QED BY <1>2, <2>1
<1>4. CASE report \in RemoveReports(v)
  <2>1. "absent" \in Version /\ (v = "absent") \in BOOLEAN
    BY DEF Version
  <2>2. \E w \in Version, ok \in BOOLEAN, already \in BOOLEAN : report = Report(ok, already, w)
    BY <1>4, <2>1 DEF RemoveReports
  <2>3. QED BY <1>2, <2>2
<1>5. QED BY <1>3, <1>4

LEMMA UndoneByType ==
  ASSUME NEW rec \in Record
  PROVE  UndoneBy(rec) \subseteq Tool
BY DEF UndoneBy, Record, Outcome

LEMMA StepType ==
  ASSUME TypeOK, NEW p \in Proc, Step(p)
  PROVE  TypeOK'
<1> USE ConstantsAssumption
<1>1. CASE \E c \in Commands : Begin(p, c)
  <2>1. PICK c \in Commands : Begin(p, c) BY <1>1
  <2>2. c \in Command /\ c.tools \subseteq Tool BY DEF Command
  <2>3. QED BY <2>1, <2>2 DEF TypeOK, Begin, Goto, sysVars, ghosts
<1>2. CASE \E c \in Commands, i \in DOMAIN history : BeginRollback(p, c, i)
  <2>1. PICK c \in Commands, i \in DOMAIN history : BeginRollback(p, c, i) BY <1>2
  <2>2. c \in Command BY DEF Command
  <2>3. history[i] \in Record BY DEF TypeOK
  <2>4. {[op |-> "remove", tool |-> t] : t \in UndoneBy(history[i])} \subseteq Action
    BY <2>3, UndoneByType DEF Action, Op
  <2>5. QED BY <2>1, <2>2, <2>4 DEF TypeOK, BeginRollback, Goto, sysVars, ghosts
<1>3. CASE \E t \in todo[p] : PlanTool(p, t)
  <2>1. PICK t \in todo[p] : PlanTool(p, t) BY <1>3
  <2>2. t \in Tool BY DEF TypeOK
  <2>3. PICK actions \in SUBSET Action : Planned(p, t, actions)
    BY <2>1, <2>2 DEF PlanTool, Action, Op
  <2>4. QED BY <2>2, <2>3 DEF TypeOK, Planned, sysVars, ghosts, bounds
<1>4. CASE EndPlan(p)
  BY <1>4, ExitType DEF TypeOK, EndPlan, Goto, sysVars, ghosts, bounds, procVars
<1>5. CASE Proceed(p)
  BY <1>5 DEF TypeOK, Proceed, Goto, sysVars, ghosts, bounds
<1>6. CASE Decline(p)
  BY <1>6, ExitType DEF TypeOK, Decline, sysVars, ghosts, bounds
<1>7. ASSUME NEW a \in plan[p], NEW report \in InstallReports(pkg[a.tool]) \cup
               RemoveReports(pkg[a.tool]), Finished(p, a, report), changed' \subseteq Tool
      PROVE  TypeOK'
  <2>1. a \in Action /\ pkg[a.tool] \in Version BY DEF TypeOK, Action
  <2>2. report.ok \in BOOLEAN /\ report.already \in BOOLEAN /\ report.now \in Version
    BY <2>1, ReportType
  <2>3. [op |-> a.op, tool |-> a.tool, ok |-> report.ok, already |-> report.already] \in Outcome
    BY <2>1, <2>2 DEF Action, Outcome
  <2>4. QED BY <1>7, <2>1, <2>2, <2>3 DEF TypeOK, Finished, bounds
<1>8. CASE \E a \in plan[p] : \E report \in InstallReports(pkg[a.tool]) :
             ExecuteInstall(p, a, report)
  <2>1. PICK a \in plan[p] : \E report \in InstallReports(pkg[a.tool]) :
               ExecuteInstall(p, a, report) BY <1>8
  <2>2. PICK report \in InstallReports(pkg[a.tool]) : ExecuteInstall(p, a, report) BY <2>1
  <2>3. a.tool \in Tool BY DEF TypeOK, Action
  <2>4. changed' \subseteq Tool BY <2>2, <2>3 DEF TypeOK, ExecuteInstall
  <2>5. QED BY <1>7, <2>2, <2>4 DEF ExecuteInstall
<1>9. CASE \E a \in plan[p] : \E report \in RemoveReports(pkg[a.tool]) :
             ExecuteRemove(p, a, report)
  <2>1. PICK a \in plan[p] : \E report \in RemoveReports(pkg[a.tool]) :
               ExecuteRemove(p, a, report) BY <1>9
  <2>2. PICK report \in RemoveReports(pkg[a.tool]) : ExecuteRemove(p, a, report) BY <2>1
  <2>3. changed' \subseteq Tool BY <2>2 DEF TypeOK, ExecuteRemove
  <2>4. QED BY <1>7, <2>2, <2>3 DEF ExecuteRemove
<1>10. CASE EndRun(p)
  BY <1>10 DEF TypeOK, EndRun, DueOf, Goto, sysVars, ghosts, bounds
<1>11. CASE LoadState(p)
  BY <1>11 DEF TypeOK, LoadState, Goto, sysVars, ghosts, bounds
<1>12. CASE \E r \in due[p] : SaveState(p, r)
  <2>1. PICK r \in due[p] : SaveState(p, r) BY <1>12
  <2>2. r.tool \in Tool /\ copy[p] \in [Tool -> Entry] /\ cmd[p].profile \in Profile \cup {Hallfix}
    BY DEF TypeOK, Outcome, Command
  <2>3. store' \in [Tool -> Entry]
    BY <2>1, <2>2 DEF SaveState, RecordInstalled, RecordRemoved, Entry
  <2>4. copy' \in [Proc -> [Tool -> Entry]]
    BY <2>1 DEF TypeOK, SaveState, NoEntries, Entry
  <2>5. QED BY <2>1, <2>3, <2>4 DEF TypeOK, SaveState, Goto, ghosts, bounds
<1>13. CASE EndOwnership(p)
  BY <1>13 DEF TypeOK, EndOwnership, Goto, sysVars, procVars, ghosts, bounds
<1>14. CASE AppendHistory(p)
  <2>1. RecordOf(p) \in Record
    BY DEF TypeOK, RecordOf, Record, Command
  <2>2. history' \in Seq(Record) BY <1>14, <2>1 DEF TypeOK, AppendHistory
  <2>3. QED BY <1>14, <2>2, ExitType DEF TypeOK, AppendHistory, ghosts, bounds
<1>15. CASE Crash(p)
  <2>1. lost' \subseteq Tool BY <1>15 DEF TypeOK, Crash, Outcome
  <2>2. QED BY <1>15, <2>1, ExitType DEF TypeOK, Crash, sysVars, bounds
<1>16. QED BY StepCases, <1>1, <1>2, <1>3, <1>4, <1>5, <1>6, <1>8, <1>9, <1>10, <1>11, <1>12,
              <1>13, <1>14, <1>15

\* Every reachable state of any number of processes has its type.
THEOREM TypeCorrect == Spec => []TypeOK
<1>1. Init => TypeOK
  BY ConstantsAssumption DEF Init, TypeOK, NoEntries, Entry, Idle, Command, Kind
<1>2. TypeOK /\ [Next]_vars => TypeOK'
  <2> SUFFICES ASSUME TypeOK, [Next]_vars PROVE TypeOK'
    OBVIOUS
  <2>1. CASE \E p \in Proc : Step(p)
    BY <2>1, StepType
  <2>2. CASE \E t \in Tool, v \in Version : Outside(t, v)
    <3>1. PICK t \in Tool, v \in Version : Outside(t, v) BY <2>2
    <3>2. QED BY <3>1, ConstantsAssumption DEF TypeOK, Outside, procVars, ghosts
  <2>3. CASE UNCHANGED vars
    BY <2>3 DEF TypeOK, vars, sysVars, procVars, bounds, ghosts
  <2>4. QED BY <2>1, <2>2, <2>3 DEF Next
<1>3. QED BY <1>1, <1>2, PTL DEF Spec

-----------------------------------------------------------------------------
(* A process has a plan only once it has planned, and results only of      *)
(* actions that were neither a dry run nor still waiting for consent.      *)

Quiet ==
  \A p \in Proc :
    /\ pc[p] = "idle" => plan[p] = {}
    /\ pc[p] \in {"idle", "plan", "confirm"} => res[p] = {}
    /\ pc[p] \in {"confirm", "run"} \/ res[p] # {} => ~cmd[p].dry

LEMMA ExitQuiet ==
  ASSUME TypeOK, Quiet, NEW p \in Proc, Exit(p)
  PROVE  Quiet'
BY DEF TypeOK, Quiet, Exit, Idle

LEMMA StepQuiet ==
  ASSUME TypeOK, Quiet, NEW p \in Proc, Step(p)
  PROVE  Quiet'
<1>1. CASE \E c \in Commands : Begin(p, c)
  BY <1>1 DEF TypeOK, Quiet, Begin, Goto
<1>2. CASE \E c \in Commands, i \in DOMAIN history : BeginRollback(p, c, i)
  BY <1>2 DEF TypeOK, Quiet, BeginRollback, Goto
<1>3. CASE \E t \in todo[p] : PlanTool(p, t)
  <2>1. PICK t \in todo[p] : \E actions : Planned(p, t, actions)
    BY <1>3 DEF PlanTool
  <2>2. QED BY <2>1 DEF TypeOK, Quiet, Planned
<1>4. CASE EndPlan(p)
  <2>1. CASE Exit(p)
    BY <2>1, ExitQuiet
  <2>2. CASE ~Exit(p)
    BY <1>4, <2>2 DEF TypeOK, Quiet, EndPlan, Goto, procVars
  <2>3. QED BY <2>1, <2>2
<1>5. CASE Proceed(p)
  BY <1>5 DEF TypeOK, Quiet, Proceed, Goto
<1>6. CASE Decline(p) \/ AppendHistory(p) \/ Crash(p)
  BY <1>6, ExitQuiet DEF Decline, AppendHistory, Crash
<1>7. ASSUME NEW a, NEW report, Finished(p, a, report)
      PROVE  Quiet'
  BY <1>7 DEF TypeOK, Quiet, Finished
<1>8. CASE \E a \in plan[p] : \E report \in InstallReports(pkg[a.tool]) :
             ExecuteInstall(p, a, report)
  BY <1>7, <1>8 DEF ExecuteInstall
<1>9. CASE \E a \in plan[p] : \E report \in RemoveReports(pkg[a.tool]) :
             ExecuteRemove(p, a, report)
  BY <1>7, <1>9 DEF ExecuteRemove
<1>10. CASE EndRun(p)
  BY <1>10 DEF TypeOK, Quiet, EndRun, Goto
<1>11. CASE LoadState(p)
  BY <1>11 DEF TypeOK, Quiet, LoadState, Goto
<1>12. CASE \E r \in due[p] : SaveState(p, r)
  BY <1>12 DEF TypeOK, Quiet, SaveState, Goto
<1>13. CASE EndOwnership(p)
  BY <1>13 DEF TypeOK, Quiet, EndOwnership, Goto, procVars
<1>14. QED BY StepCases, <1>1, <1>2, <1>3, <1>4, <1>5, <1>6, <1>8, <1>9, <1>10, <1>11, <1>12,
              <1>13

LEMMA QuietInvariant == Spec => []Quiet
<1>1. Init => Quiet
  BY DEF Init, Quiet
<1>2. TypeOK /\ Quiet /\ [Next]_vars => Quiet'
  <2> SUFFICES ASSUME TypeOK, Quiet, [Next]_vars PROVE Quiet'
    OBVIOUS
  <2>1. CASE \E p \in Proc : Step(p)
    BY <2>1, StepQuiet
  <2>2. CASE \E t \in Tool, v \in Version : Outside(t, v)
    BY <2>2 DEF Quiet, Outside, procVars
  <2>3. CASE UNCHANGED vars
    BY <2>3 DEF Quiet, vars, procVars
  <2>4. QED BY <2>1, <2>2, <2>3 DEF Next
<1>3. QED BY <1>1, <1>2, TypeCorrect, PTL DEF Spec

-----------------------------------------------------------------------------
(* What hallfix claims, it has changed. The properties NeverAssumed and    *)
(* RemovalsAreOurs are not inductive: a claim travels from a result, to    *)
(* the results still to be recorded, to a loaded copy of the state, to     *)
(* state.json, to a plan; and from a result to the history, to a plan. The *)
(* invariant follows it through all of them.                               *)

ResultsOurs == \A p \in Proc : \A r \in res[p] : Undoes(r) => r.tool \in changed
DueFromResults == \A p \in Proc : due[p] \subseteq DueOf(res[p])
StoreOurs == \A t \in Tool : Owned(store, t) => t \in changed
CopiesOurs == \A p \in Proc, t \in Tool : Owned(copy[p], t) => t \in changed
HistoryOurs == \A i \in DOMAIN history : UndoneBy(history[i]) \subseteq changed
PlansOurs ==
  \A p \in Proc : cmd[p].kind \in {"profileRemove", "rollback"} =>
    \A a \in plan[p] : a.tool \in changed

Ours ==
  /\ ResultsOurs
  /\ DueFromResults
  /\ StoreOurs
  /\ CopiesOurs
  /\ HistoryOurs
  /\ PlansOurs

\* A process that ends takes nothing away from the invariant.
LEMMA ExitOurs ==
  ASSUME TypeOK, Ours, NEW p \in Proc, Exit(p), changed' = changed
  PROVE  ResultsOurs' /\ DueFromResults' /\ CopiesOurs' /\ PlansOurs'
<1>1. ResultsOurs' BY DEF Ours, ResultsOurs, Exit, TypeOK
<1>2. DueFromResults' BY DEF Ours, DueFromResults, DueOf, Exit, TypeOK
<1>3. CopiesOurs' BY DEF Ours, CopiesOurs, Owned, NoEntries, Exit, TypeOK
<1>4. PlansOurs' BY DEF Ours, PlansOurs, Exit, TypeOK
<1>5. QED BY <1>1, <1>2, <1>3, <1>4

\* In English, an install that reports a fresh success changed the package.
LEMMA FreshInstallChanges ==
  ASSUME EnglishOutput, NEW v \in Version, NEW report \in InstallReports(v),
         report.ok, ~report.already
  PROVE  report.now # v
<1>1. \A w \in Installs(v) : w # v
  BY DEF Installs
<1>2. CASE \E w \in Installs(v) : report = Report(TRUE, FALSE, w)
  BY <1>1, <1>2 DEF Report
<1>3. CASE \E w \in Installs(v) \cup {v} : report = Report(FALSE, FALSE, w)
  BY <1>3 DEF Report
<1>4. CASE \E b \in {x \in BOOLEAN : v # "absent" /\ (EnglishOutput => x)} :
             report = Report(TRUE, b, v)
  BY <1>4 DEF Report
<1>5. CASE \E w \in {v} \ {"absent"} : report = Report(FALSE, TRUE, v)
  BY <1>5 DEF Report
<1>6. QED BY <1>2, <1>3, <1>4, <1>5 DEF InstallReports

\* Executing an action keeps the invariant when its tool counts as changed.
LEMMA FinishedOurs ==
  ASSUME TypeOK, Ours, NEW p \in Proc, NEW a, NEW report, Finished(p, a, report),
         changed \subseteq changed',
         a.op = "install" /\ report.ok /\ ~report.already => a.tool \in changed'
  PROVE  Ours'
<1>1. ResultsOurs' BY DEF Ours, ResultsOurs, Undoes, Finished, TypeOK
<1>2. DueFromResults' BY DEF Ours, DueFromResults, DueOf, Finished, TypeOK
<1>3. StoreOurs' BY DEF Ours, StoreOurs, Owned, Finished
<1>4. CopiesOurs' BY DEF Ours, CopiesOurs, Owned, Finished
<1>5. HistoryOurs' BY DEF Ours, HistoryOurs, UndoneBy, Finished
<1>6. PlansOurs' BY DEF Ours, PlansOurs, Finished
<1>7. QED BY <1>1, <1>2, <1>3, <1>4, <1>5, <1>6 DEF Ours

LEMMA StepOurs ==
  ASSUME TypeOK, Quiet, Ours, EnglishOutput, NEW p \in Proc, Step(p)
  PROVE  Ours'
<1>1. CASE \E c \in Commands : Begin(p, c)
  <2>1. PICK c \in Commands : Begin(p, c) BY <1>1
  <2>2. plan[p] = {} BY <2>1 DEF Begin, Goto, Quiet
  <2>3. PlansOurs' BY <2>1, <2>2 DEF Ours, PlansOurs, Begin, TypeOK, ghosts
  <2>4. UNCHANGED <<res, due, store, copy, history, changed>> BY <2>1 DEF Begin, sysVars, ghosts
  <2>5. QED BY <2>3, <2>4 DEF Ours, ResultsOurs, DueFromResults, DueOf, StoreOurs, CopiesOurs,
                              HistoryOurs, UndoneBy, Owned
<1>2. CASE \E c \in Commands, i \in DOMAIN history : BeginRollback(p, c, i)
  <2>1. PICK c \in Commands, i \in DOMAIN history : BeginRollback(p, c, i) BY <1>2
  <2>2. \A a \in plan'[p] : a.tool \in changed
    BY <2>1 DEF Ours, HistoryOurs, BeginRollback, TypeOK
  <2>3. PlansOurs' BY <2>1, <2>2 DEF Ours, PlansOurs, BeginRollback, TypeOK, ghosts
  <2>4. UNCHANGED <<res, due, store, copy, history, changed>>
    BY <2>1 DEF BeginRollback, sysVars, ghosts
  <2>5. QED BY <2>3, <2>4 DEF Ours, ResultsOurs, DueFromResults, DueOf, StoreOurs, CopiesOurs,
                              HistoryOurs, UndoneBy, Owned
<1>3. CASE \E t \in todo[p] : PlanTool(p, t)
  <2>1. PICK t \in todo[p] : PlanTool(p, t) BY <1>3
  <2>2. t \in Tool BY DEF TypeOK
  <2>3. PICK actions : /\ Planned(p, t, actions)
                       /\ \A a \in actions : a.tool = t
                       /\ actions # {} /\ cmd[p].kind \in {"profileRemove", "rollback"}
                            => Owned(store, t)
    BY <2>1 DEF PlanTool, InstallWanted, RemoveWanted, PlanProfileRemove
  <2>4. cmd[p].kind \in {"profileRemove", "rollback"} => \A a \in actions : a.tool \in changed
    BY <2>2, <2>3 DEF Ours, StoreOurs
  <2>5. PlansOurs' BY <2>3, <2>4 DEF Ours, PlansOurs, Planned, TypeOK, ghosts
  <2>6. UNCHANGED <<res, due, store, copy, history, changed>>
    BY <2>3 DEF Planned, sysVars, ghosts
  <2>7. QED BY <2>5, <2>6 DEF Ours, ResultsOurs, DueFromResults, DueOf, StoreOurs, CopiesOurs,
                              HistoryOurs, UndoneBy, Owned
<1>4. CASE EndPlan(p) \/ Decline(p) \/ Crash(p) \/ Proceed(p) \/ EndOwnership(p)
  <2>1. UNCHANGED <<store, history, changed>>
    BY <1>4 DEF EndPlan, Decline, Crash, Proceed, EndOwnership, sysVars, ghosts
  <2>2. CASE Exit(p)
    BY <2>1, <2>2, ExitOurs DEF Ours, StoreOurs, HistoryOurs, UndoneBy, Owned
  <2>3. CASE ~Exit(p)
    <3>1. UNCHANGED <<cmd, plan, res, due, copy>>
      BY <1>4, <2>3 DEF EndPlan, Decline, Crash, Proceed, EndOwnership, procVars
    <3>2. QED BY <2>1, <3>1 DEF Ours, ResultsOurs, DueFromResults, DueOf, StoreOurs, CopiesOurs,
                                HistoryOurs, PlansOurs, UndoneBy, Owned
  <2>4. QED BY <2>2, <2>3
<1>5. CASE \E a \in plan[p] : \E report \in InstallReports(pkg[a.tool]) :
             ExecuteInstall(p, a, report)
  <2>1. PICK a \in plan[p] : \E report \in InstallReports(pkg[a.tool]) :
               ExecuteInstall(p, a, report) BY <1>5
  <2>2. PICK report \in InstallReports(pkg[a.tool]) : ExecuteInstall(p, a, report) BY <2>1
  <2>3. pkg[a.tool] \in Version BY DEF TypeOK, Action
  <2>4. report.ok /\ ~report.already => report.now # pkg[a.tool]
    BY <2>2, <2>3, FreshInstallChanges
  <2>5. QED BY <2>2, <2>4, FinishedOurs DEF ExecuteInstall
<1>6. CASE \E a \in plan[p] : \E report \in RemoveReports(pkg[a.tool]) :
             ExecuteRemove(p, a, report)
  BY <1>6, FinishedOurs DEF ExecuteRemove
<1>7. CASE EndRun(p)
  <2>1. DueFromResults' BY <1>7 DEF Ours, DueFromResults, DueOf, EndRun, TypeOK
  <2>2. UNCHANGED <<cmd, plan, res, store, copy, history, changed>>
    BY <1>7 DEF EndRun, sysVars, ghosts
  <2>3. QED BY <2>1, <2>2 DEF Ours, ResultsOurs, StoreOurs, CopiesOurs, HistoryOurs, PlansOurs,
                              UndoneBy, Owned
<1>8. CASE LoadState(p)
  <2>1. CopiesOurs' BY <1>8 DEF Ours, StoreOurs, CopiesOurs, Owned, LoadState, TypeOK, ghosts
  <2>2. UNCHANGED <<cmd, plan, res, due, store, history, changed>>
    BY <1>8 DEF LoadState, sysVars, ghosts
  <2>3. QED BY <2>1, <2>2 DEF Ours, ResultsOurs, DueFromResults, DueOf, StoreOurs, HistoryOurs,
                              PlansOurs, UndoneBy, Owned
<1>9. CASE \E r \in due[p] : SaveState(p, r)
  <2>1. PICK r \in due[p] : SaveState(p, r) BY <1>9
  <2>2. r \in res[p] /\ RecordsOwnership(r) BY DEF Ours, DueFromResults, DueOf
  <2>3. r.op = "install" => r.tool \in changed
    BY <2>2 DEF Ours, ResultsOurs, Undoes, RecordsOwnership
  <2>4. \A t \in Tool : Owned(copy[p], t) => t \in changed BY DEF Ours, CopiesOurs
  <2>5. copy[p] \in [Tool -> Entry] BY DEF TypeOK
  <2>6. UNCHANGED <<cmd, plan, res, history, changed>> BY <2>1 DEF SaveState, ghosts
  <2>7. StoreOurs'
    <3>1. CASE r.op = "install"
      BY <2>1, <2>3, <2>4, <2>5, <2>6, <3>1 DEF SaveState, StoreOurs, Owned, RecordInstalled
    <3>2. CASE r.op # "install"
      BY <2>1, <2>4, <2>5, <2>6, <3>2 DEF SaveState, StoreOurs, Owned, RecordRemoved
    <3>3. QED BY <3>1, <3>2
  <2>8. CopiesOurs' BY <2>1, <2>6 DEF Ours, CopiesOurs, Owned, SaveState, NoEntries, TypeOK
  <2>9. DueFromResults' BY <2>1, <2>6 DEF Ours, DueFromResults, DueOf, SaveState, TypeOK
  <2>10. QED BY <2>6, <2>7, <2>8, <2>9 DEF Ours, ResultsOurs, HistoryOurs, PlansOurs, UndoneBy
<1>10. CASE AppendHistory(p)
  <2>1. UndoneBy(RecordOf(p)) \subseteq changed
    BY DEF Ours, ResultsOurs, UndoneBy, RecordOf
  <2>2. HistoryOurs'
    BY <1>10, <2>1 DEF Ours, HistoryOurs, AppendHistory, UndoneBy, ghosts, TypeOK
  <2>3. StoreOurs' BY <1>10 DEF Ours, StoreOurs, Owned, AppendHistory, ghosts
  <2>4. QED BY <1>10, <2>2, <2>3, ExitOurs DEF AppendHistory, Ours, ghosts
<1>11. QED BY StepCases, <1>1, <1>2, <1>3, <1>4, <1>5, <1>6, <1>7, <1>8, <1>9, <1>10

LEMMA OursInvariant == Spec => [](EnglishOutput => Ours)
<1>1. Init => (EnglishOutput => Ours)
  BY DEF Init, Ours, ResultsOurs, DueFromResults, StoreOurs, CopiesOurs, HistoryOurs, PlansOurs,
         Owned, NoEntries
<1>2. TypeOK /\ Quiet /\ (EnglishOutput => Ours) /\ [Next]_vars => (EnglishOutput => Ours)'
  <2> SUFFICES ASSUME TypeOK, Quiet, Ours, EnglishOutput, [Next]_vars PROVE Ours'
    BY ConstantsAssumption
  <2>1. CASE \E p \in Proc : Step(p)
    BY <2>1, StepOurs
  <2>2. CASE UNCHANGED <<store, history, cmd, plan, res, due, copy, changed>>
    BY <2>2 DEF Ours, ResultsOurs, DueFromResults, DueOf, StoreOurs, CopiesOurs, HistoryOurs,
                PlansOurs, UndoneBy, Owned
  <2>3. CASE \E t \in Tool, v \in Version : Outside(t, v)
    BY <2>2, <2>3 DEF Outside, procVars, ghosts
  <2>4. CASE UNCHANGED vars
    BY <2>2, <2>4 DEF vars, sysVars, procVars, ghosts
  <2>5. QED BY <2>1, <2>3, <2>4 DEF Next
<1>3. QED BY <1>1, <1>2, TypeCorrect, QuietInvariant, PTL DEF Spec

\* However processes interleave, crash and overwrite each other's state.json,
\* the ownership file claims only tools hallfix has installed or upgraded
\* (StateStore.record_installed is reached by fresh successes alone).
THEOREM OwnershipSound == Spec => []NeverAssumed
<1>1. (EnglishOutput => Ours) => NeverAssumed
  BY DEF Ours, StoreOurs, NeverAssumed
<1>2. QED BY <1>1, OursInvariant, PTL

\* A step acts on a tool only by executing an action of the process's plan.
LEMMA OnlyExecutionActs ==
  ASSUME TypeOK, Next, NEW p \in Proc, NEW t \in Tool, Acts(p, t)
  PROVE  \E a \in plan[p] : a.tool = t /\ \E report : Finished(p, a, report)
<1>1. PICK r \in res'[p] \ res[p] : r.tool = t
  BY DEF Acts
<1>2. CASE \E q \in Proc : Step(q)
  <2>1. PICK q \in Proc : Step(q) BY <1>2
  <2>2. PICK a \in plan[q] : \E report : Finished(q, a, report)
    <3>1. CASE \E a \in plan[q] : \E report : Finished(q, a, report)
      BY <3>1
    <3>2. CASE Exit(q)
      BY <1>1, <3>2 DEF Exit, TypeOK
    <3>3. CASE res' = res
      BY <1>1, <3>3
    <3>4. QED
      BY <2>1, <3>1, <3>2, <3>3, StepCases
         DEF Begin, BeginRollback, PlanTool, Planned, EndPlan, procVars, Proceed, Decline,
             ExecuteInstall, ExecuteRemove, EndRun, LoadState, SaveState, EndOwnership,
             AppendHistory, Crash
  <2>3. p = q /\ a.tool = t
    BY <1>1, <2>2 DEF Finished, TypeOK
  <2>4. QED BY <2>2, <2>3
<1>3. CASE \E s \in Tool, v \in Version : Outside(s, v)
  BY <1>1, <1>3 DEF Outside, procVars
<1>4. QED BY <1>2, <1>3 DEF Next

\* Profile remove and rollback touch the package of a tool only if hallfix
\* has installed or upgraded it, however old the plan they execute.
THEOREM AutomaticRemovalsSound == Spec => RemovalsAreOurs
<1> DEFINE A == EnglishOutput =>
                  \A p \in Proc, t \in Tool :
                    /\ Acts(p, t)
                    /\ cmd[p].kind \in {"profileRemove", "rollback"}
                    /\ pkg[t] # pkg'[t]
                    => t \in changed
<1>1. TypeOK /\ (EnglishOutput => Ours) /\ [Next]_vars => [A]_vars
  <2> SUFFICES ASSUME TypeOK, Ours, Next, NEW p \in Proc, NEW t \in Tool, Acts(p, t),
                      cmd[p].kind \in {"profileRemove", "rollback"}
               PROVE  t \in changed
    BY ConstantsAssumption
  <2>1. QED BY OnlyExecutionActs DEF Ours, PlansOurs
<1>2. QED BY <1>1, TypeCorrect, OursInvariant, PTL DEF Spec, RemovalsAreOurs

-----------------------------------------------------------------------------
(* Consent. Once a plan runs, nothing but the end of its process touches   *)
(* the plan or the way it was allowed.                                     *)

Consented ==
  \A p \in Proc : pc[p] = "run" =>
    \A a \in plan[p] :
      /\ RiskOf[a.tool] >= Medium => answer[p] # "none"
      /\ RiskOf[a.tool] >= High => answer[p] = "prompt"

LEMMA StepConsented ==
  ASSUME TypeOK, Consented, NEW p \in Proc, Step(p)
  PROVE  Consented'
<1>1. CASE pc'[p] # "run" /\ \A q \in Proc \ {p} : /\ pc'[q] = pc[q] /\ plan'[q] = plan[q]
                                                   /\ answer'[q] = answer[q]
  BY <1>1 DEF Consented
<1>2. CASE UNCHANGED <<pc, plan, answer>>
  BY <1>2 DEF Consented
<1>3. CASE Exit(p)
  BY <1>1, <1>3 DEF Exit, TypeOK
<1>4. CASE \E c \in Commands : Begin(p, c)
  BY <1>1, <1>4 DEF Begin, Goto, TypeOK
<1>5. CASE \E c \in Commands, i \in DOMAIN history : BeginRollback(p, c, i)
  BY <1>1, <1>5 DEF BeginRollback, Goto, TypeOK
<1>6. CASE \E t \in todo[p] : PlanTool(p, t)
  BY <1>1, <1>6 DEF PlanTool, Planned, TypeOK
<1>7. CASE EndPlan(p)
  BY <1>1, <1>3, <1>7 DEF EndPlan, Goto, TypeOK, procVars
<1>8. CASE Proceed(p)
  <2>1. \A a \in plan[p] : RiskOf[a.tool] \in Nat
    <3>1. \A a \in plan[p] : a.tool \in Tool BY DEF TypeOK, Action
    <3>2. \A t \in Tool : RiskOf[t] \in 1 .. 4 BY ConstantsAssumption DEF Low, Critical
    <3>3. QED BY <3>1, <3>2
  <2>2. \A a \in plan[p] : /\ RiskOf[a.tool] >= Medium => answer'[p] # "none"
                           /\ RiskOf[a.tool] >= High => answer'[p] = "prompt"
    BY <1>8, <2>1 DEF Proceed, RequiresConfirmation, AllowsAutoConfirm, RiskAtLeast, Medium,
                      High, TypeOK
  <2>3. QED BY <1>8, <2>2 DEF Consented, Proceed, Goto, TypeOK
<1>9. CASE \E a \in plan[p] : \E report \in InstallReports(pkg[a.tool]) :
             ExecuteInstall(p, a, report)
  BY <1>2, <1>9 DEF ExecuteInstall, Finished
<1>10. CASE \E a \in plan[p] : \E report \in RemoveReports(pkg[a.tool]) :
              ExecuteRemove(p, a, report)
  BY <1>2, <1>10 DEF ExecuteRemove, Finished
<1>11. CASE EndRun(p)
  BY <1>1, <1>11 DEF EndRun, Goto, TypeOK
<1>12. CASE LoadState(p) \/ (\E r \in due[p] : SaveState(p, r)) \/ EndOwnership(p)
  BY <1>1, <1>12 DEF LoadState, SaveState, EndOwnership, Goto, TypeOK, procVars
<1>13. QED BY StepCases, <1>3, <1>4, <1>5, <1>6, <1>7, <1>8, <1>9, <1>10, <1>11, <1>12
              DEF Decline, AppendHistory, Crash

LEMMA ConsentInvariant == Spec => []Consented
<1>1. Init => Consented
  BY DEF Init, Consented
<1>2. TypeOK /\ Consented /\ [Next]_vars => Consented'
  <2> SUFFICES ASSUME TypeOK, Consented, [Next]_vars PROVE Consented'
    OBVIOUS
  <2>1. CASE \E p \in Proc : Step(p)
    BY <2>1, StepConsented
  <2>2. CASE UNCHANGED <<pc, plan, answer>>
    BY <2>2 DEF Consented
  <2>3. QED BY <2>1, <2>2 DEF Next, Outside, vars, procVars
<1>3. QED BY <1>1, <1>2, TypeCorrect, PTL DEF Spec

\* SafetyPolicy and resolve_confirmation guard every package change: --yes
\* is never enough for a plan with one HIGH action, a dry run executes none.
THEOREM ConsentSound == Spec => ConsentedChange
<1> DEFINE A == \A p \in Proc, t \in Tool :
                  Acts(p, t) =>
                    /\ ~cmd[p].dry
                    /\ \E a \in plan[p] : a.tool = t
                    /\ \A a \in plan[p] :
                         /\ RiskOf[a.tool] >= Medium => answer[p] # "none"
                         /\ RiskOf[a.tool] >= High => answer[p] = "prompt"
<1>1. TypeOK /\ Quiet /\ Consented /\ [Next]_vars => [A]_vars
  <2> SUFFICES ASSUME TypeOK, Quiet, Consented, Next, NEW p \in Proc, NEW t \in Tool, Acts(p, t)
               PROVE  /\ ~cmd[p].dry
                      /\ \E a \in plan[p] : a.tool = t
                      /\ \A a \in plan[p] :
                           /\ RiskOf[a.tool] >= Medium => answer[p] # "none"
                           /\ RiskOf[a.tool] >= High => answer[p] = "prompt"
    OBVIOUS
  <2>1. pc[p] = "run" /\ \E a \in plan[p] : a.tool = t
    BY OnlyExecutionActs DEF Finished
  <2>2. QED BY <2>1 DEF Quiet, Consented
<1>2. QED BY <1>1, TypeCorrect, QuietInvariant, ConsentInvariant, PTL DEF Spec, ConsentedChange

-----------------------------------------------------------------------------
(* Accounting. A fresh install leaves res[p] only into the history, or     *)
(* into "lost" when its process is killed: a process that has results is   *)
(* past planning and confirming, and its record is not a dry run's.        *)

InHistory(t) == \E i \in DOMAIN history : t \in UndoneBy(history[i])
InHand(t) == \E p \in Proc : \E r \in res[p] : Undoes(r) /\ r.tool = t

LEMMA ExitAccounted ==
  ASSUME TypeOK, InstallsAccounted, NEW p \in Proc, Exit(p), UNCHANGED <<history, changed>>,
         lost \subseteq lost',
         \A r \in res[p] : Undoes(r) => r.tool \in lost'
  PROVE  InstallsAccounted'
<1> SUFFICES ASSUME NEW t \in changed
             PROVE  InHistory(t)' \/ InHand(t)' \/ t \in lost'
  BY DEF InstallsAccounted, InHistory, InHand
<1>1. CASE InHistory(t)
  BY <1>1 DEF InHistory, UndoneBy
<1>2. CASE InHand(t)
  <2>1. PICK q \in Proc : \E r \in res[q] : Undoes(r) /\ r.tool = t
    BY <1>2 DEF InHand
  <2>2. CASE q = p BY <2>1, <2>2
  <2>3. CASE q # p BY <2>1, <2>3 DEF InHand, Undoes, Exit, TypeOK
  <2>4. QED BY <2>2, <2>3
<1>3. QED BY <1>1, <1>2 DEF InstallsAccounted, InHistory, InHand

LEMMA FinishedAccounted ==
  ASSUME TypeOK, InstallsAccounted, NEW p \in Proc, NEW a, NEW report, Finished(p, a, report),
         changed' \subseteq changed \cup {a.tool},
         a.tool \in changed' \ changed => a.op = "install" /\ report.ok /\ ~report.already
  PROVE  InstallsAccounted'
<1>1. UNCHANGED <<history, lost>> /\ \A q \in Proc : res[q] \subseteq res'[q]
  BY DEF Finished, TypeOK
<1>2. ASSUME a.tool \in changed' \ changed
      PROVE  \E r \in res'[p] : Undoes(r) /\ r.tool = a.tool
  <2> DEFINE r == [op |-> a.op, tool |-> a.tool, ok |-> report.ok, already |-> report.already]
  <2>1. r \in res'[p] BY DEF Finished, TypeOK
  <2>2. Undoes(r) BY <1>2 DEF Undoes
  <2>3. QED BY <2>1, <2>2
<1>3. QED BY <1>1, <1>2 DEF InstallsAccounted, UndoneBy, Undoes

\* An install that changed the package and succeeded is a fresh one.
LEMMA ChangeIsFresh ==
  ASSUME NEW v \in Version, NEW report \in InstallReports(v), report.ok, report.now # v
  PROVE  ~report.already
BY DEF InstallReports, Report

LEMMA StepAccounted ==
  ASSUME TypeOK, Quiet, InstallsAccounted, NEW p \in Proc, Step(p)
  PROVE  InstallsAccounted'
<1>1. CASE UNCHANGED <<res, history, changed, lost>>
  BY <1>1 DEF InstallsAccounted, UndoneBy
<1>2. CASE (EndPlan(p) \/ Decline(p)) /\ Exit(p)
  <2>1. res[p] = {}
    BY <1>2 DEF EndPlan, Decline, Quiet
  <2>2. QED BY <1>2, <2>1, ExitAccounted DEF EndPlan, Decline, sysVars, ghosts
<1>3. CASE Crash(p)
  <2>1. \A r \in res[p] : Undoes(r) => r.tool \in lost' BY <1>3 DEF Crash
  <2>2. QED BY <1>3, <2>1, ExitAccounted DEF Crash, sysVars
<1>4. CASE AppendHistory(p)
  <2>1. \A r \in res[p] : Undoes(r) => r.tool \in UndoneBy(RecordOf(p))
    BY DEF Quiet, RecordOf, UndoneBy
  <2>2. /\ Len(history) + 1 \in DOMAIN history'
        /\ history'[Len(history) + 1] = RecordOf(p)
        /\ \A i \in DOMAIN history : i \in DOMAIN history' /\ history'[i] = history[i]
    BY <1>4 DEF AppendHistory, TypeOK
  <2>3. \A r \in res[p] : Undoes(r) => InHistory(r.tool)'
    BY <2>1, <2>2 DEF InHistory, UndoneBy
  <2>4. \A t \in changed : InHistory(t) => InHistory(t)'
    BY <2>2 DEF InHistory, UndoneBy
  <2>5. \A t \in changed : InHand(t) => InHand(t)' \/ InHistory(t)'
    BY <1>4, <2>3 DEF InHand, Undoes, AppendHistory, Exit, TypeOK
  <2>6. QED BY <1>4, <2>4, <2>5 DEF InstallsAccounted, InHistory, InHand, AppendHistory, ghosts
<1>5. CASE \E a \in plan[p] : \E report \in InstallReports(pkg[a.tool]) :
             ExecuteInstall(p, a, report)
  <2>1. PICK a \in plan[p] : \E report \in InstallReports(pkg[a.tool]) :
               ExecuteInstall(p, a, report) BY <1>5
  <2>2. PICK report \in InstallReports(pkg[a.tool]) : ExecuteInstall(p, a, report) BY <2>1
  <2>3. pkg[a.tool] \in Version BY DEF TypeOK, Action
  <2>4. QED BY <2>2, <2>3, ChangeIsFresh, FinishedAccounted DEF ExecuteInstall
<1>6. CASE \E a \in plan[p] : \E report \in RemoveReports(pkg[a.tool]) :
             ExecuteRemove(p, a, report)
  BY <1>6, FinishedAccounted DEF ExecuteRemove
<1>7. QED
  BY StepCases, <1>1, <1>2, <1>3, <1>4, <1>5, <1>6
     DEF Begin, BeginRollback, PlanTool, Planned, EndPlan, Proceed, Decline, EndRun, LoadState,
         SaveState, EndOwnership, sysVars, procVars, ghosts

\* Whatever interleaves, aborts or fails, a fresh install is undoable from
\* the history, or still in the hands of its process, or lost to a kill.
THEOREM AccountingSound == Spec => []InstallsAccounted
<1>1. Init => InstallsAccounted
  BY DEF Init, InstallsAccounted
<1>2. TypeOK /\ Quiet /\ InstallsAccounted /\ [Next]_vars => InstallsAccounted'
  <2> SUFFICES ASSUME TypeOK, Quiet, InstallsAccounted, [Next]_vars PROVE InstallsAccounted'
    OBVIOUS
  <2>1. CASE \E p \in Proc : Step(p)
    BY <2>1, StepAccounted
  <2>2. CASE UNCHANGED <<res, history, changed, lost>>
    BY <2>2 DEF InstallsAccounted, UndoneBy
  <2>3. QED BY <2>1, <2>2 DEF Next, Outside, vars, sysVars, procVars, ghosts
<1>3. QED BY <1>1, <1>2, TypeCorrect, QuietInvariant, PTL DEF Spec
-----------------------------------------------------------------------------
(* Claims. With a single process nobody else writes state.json between the *)
(* planner's look at it and the removal.                                   *)

ClaimsSeen ==
  \A p \in Proc :
    pc[p] \in {"idle", "plan", "confirm", "run"} /\ cmd[p].kind = "profileRemove" =>
      \A a \in plan[p] : OtherOwners(a.tool, cmd[p].profile) = {}

LEMMA StepClaims ==
  ASSUME TypeOK, Quiet, ClaimsSeen, NEW p \in Proc, Proc = {p}, Step(p)
  PROVE  ClaimsSeen'
<1>1. CASE UNCHANGED <<store, cmd, plan>> /\ pc[p] \in {"plan", "confirm", "run"}
  BY <1>1 DEF ClaimsSeen, OtherOwners
<1>2. CASE pc'[p] \notin {"idle", "plan", "confirm", "run"}
  BY <1>2 DEF ClaimsSeen
<1>3. CASE Exit(p)
  BY <1>3 DEF ClaimsSeen, Exit, Idle, TypeOK
<1>4. CASE \E c \in Commands : Begin(p, c)
  BY <1>4 DEF ClaimsSeen, Quiet, Begin, Goto, TypeOK
<1>5. CASE \E c \in Commands, i \in DOMAIN history : BeginRollback(p, c, i)
  BY <1>5 DEF ClaimsSeen, BeginRollback, TypeOK
<1>6. CASE \E t \in todo[p] : PlanTool(p, t)
  <2>1. PICK t \in todo[p] : PlanTool(p, t) BY <1>6
  <2>2. PICK actions : /\ Planned(p, t, actions)
                       /\ \A a \in actions : a.tool = t
                       /\ actions # {} /\ cmd[p].kind = "profileRemove"
                            => OtherOwners(t, cmd[p].profile) = {}
    BY <2>1 DEF PlanTool, InstallWanted, RemoveWanted, PlanProfileRemove
  <2>3. QED BY <2>2 DEF ClaimsSeen, OtherOwners, Planned, TypeOK, sysVars
<1>7. CASE EndPlan(p) \/ Proceed(p)
  BY <1>1, <1>3, <1>7 DEF EndPlan, Proceed, Goto, procVars, sysVars
<1>8. CASE \E a \in plan[p] : \E report \in InstallReports(pkg[a.tool]) :
             ExecuteInstall(p, a, report)
  BY <1>1, <1>8 DEF ExecuteInstall, Finished
<1>9. CASE \E a \in plan[p] : \E report \in RemoveReports(pkg[a.tool]) :
             ExecuteRemove(p, a, report)
  BY <1>1, <1>9 DEF ExecuteRemove, Finished
<1>10. CASE EndRun(p) \/ LoadState(p) \/ (\E r \in due[p] : SaveState(p, r)) \/ EndOwnership(p)
  BY <1>2, <1>10 DEF EndRun, LoadState, SaveState, EndOwnership, Goto, TypeOK
<1>11. QED BY StepCases, <1>3, <1>4, <1>5, <1>6, <1>7, <1>8, <1>9, <1>10
              DEF Decline, AppendHistory, Crash

\* One hallfix process alone never removes, for a profile, a tool that
\* state.json says another profile has claimed.
THEOREM ClaimsSound ==
  ASSUME NEW h, Proc = {h}
  PROVE  Spec => ClaimsRespected
<1> DEFINE A == \A p \in Proc, t \in Tool :
                  Acts(p, t) /\ cmd[p].kind = "profileRemove"
                    => OtherOwners(t, cmd[p].profile) = {}
<1>1. Init => ClaimsSeen
  BY DEF Init, ClaimsSeen
<1>2. TypeOK /\ Quiet /\ ClaimsSeen /\ [Next]_vars => ClaimsSeen'
  <2> SUFFICES ASSUME TypeOK, Quiet, ClaimsSeen, [Next]_vars PROVE ClaimsSeen'
    OBVIOUS
  <2>1. CASE \E p \in Proc : Step(p)
    BY <2>1, StepClaims
  <2>2. CASE UNCHANGED <<store, pc, cmd, plan>>
    BY <2>2 DEF ClaimsSeen, OtherOwners
  <2>3. QED BY <2>1, <2>2 DEF Next, Outside, vars, sysVars, procVars
<1>3. TypeOK /\ ClaimsSeen /\ [Next]_vars => [A]_vars
  <2> SUFFICES ASSUME TypeOK, ClaimsSeen, Next, NEW p \in Proc, NEW t \in Tool, Acts(p, t),
                      cmd[p].kind = "profileRemove"
               PROVE  OtherOwners(t, cmd[p].profile) = {}
    OBVIOUS
  <2>1. QED BY OnlyExecutionActs DEF ClaimsSeen, Finished
<1>4. QED BY <1>1, <1>2, <1>3, TypeCorrect, QuietInvariant, PTL DEF Spec, ClaimsRespected

-----------------------------------------------------------------------------
(* Runs are bounded. What RunsEnd needs besides the fairness of Execute:   *)
(* each step of a run brings its process nearer to the end, no step of     *)
(* another process takes it back, and it always has a step to take.        *)

Running(p) == pc[p] \in {"run", "own", "save", "log"}

\* Actions still to execute, results to record (a load and a save each), the
\* end of the run and of the records, and the history.
StepsLeft(p) ==
  CASE pc[p] = "run"  -> Cardinality(Pending(p)) + 2 * Cardinality(plan[p]) + 3
    [] pc[p] = "own"  -> 2 * Cardinality(due[p]) + 2
    [] pc[p] = "save" -> 2 * Cardinality(due[p]) + 1
    [] pc[p] = "log"  -> 1
    [] OTHER          -> 0

\* A run is bounded by its plan because each action has one result.
OneResultEach ==
  \A p \in Proc :
    /\ \A r \in res[p] : [op |-> r.op, tool |-> r.tool] \in plan[p]
    /\ \A r, s \in res[p] : r.op = s.op /\ r.tool = s.tool => r = s
    /\ due[p] \subseteq res[p]
    /\ pc[p] = "save" => due[p] # {}

\* It is about one process at a time.
LEMMA OneResultOf ==
  ASSUME OneResultEach, NEW p \in Proc,
         \A q \in Proc \ {p} : plan'[q] = plan[q] /\ res'[q] = res[q] /\ due'[q] = due[q] /\ pc'[q] = pc[q],
         \A r \in res'[p] : [op |-> r.op, tool |-> r.tool] \in plan'[p],
         \A r, s \in res'[p] : r.op = s.op /\ r.tool = s.tool => r = s,
         due'[p] \subseteq res'[p],
         pc'[p] = "save" => due'[p] # {}
  PROVE  OneResultEach'
BY DEF OneResultEach

LEMMA ExitOneResult ==
  ASSUME TypeOK, OneResultEach, NEW p \in Proc, Exit(p)
  PROVE  OneResultEach'
<1>1. /\ plan'[p] = {} /\ res'[p] = {} /\ due'[p] = {} /\ pc'[p] = "idle"
      /\ \A q \in Proc \ {p} : plan'[q] = plan[q] /\ res'[q] = res[q] /\ due'[q] = due[q] /\ pc'[q] = pc[q]
  BY DEF TypeOK, Exit
<1>2. QED BY <1>1, OneResultOf

LEMMA StepOneResult ==
  ASSUME TypeOK, Quiet, OneResultEach, NEW p \in Proc, Step(p)
  PROVE  OneResultEach'
<1>1. CASE (\E c \in Commands : Begin(p, c)) \/ \E c \in Commands, i \in DOMAIN history : BeginRollback(p, c, i)
  <2>1. /\ pc[p] = "idle" /\ pc'[p] = "plan" /\ res' = res /\ due' = due
        /\ \A q \in Proc \ {p} : plan'[q] = plan[q] /\ pc'[q] = pc[q]
    BY <1>1 DEF TypeOK, Begin, BeginRollback, Goto
  <2>2. res[p] = {}
    BY <2>1 DEF Quiet
  <2>3. QED BY <2>1, <2>2, OneResultOf DEF OneResultEach
<1>2. CASE \E t \in todo[p] : PlanTool(p, t)
  <2>1. PICK t \in todo[p] : \E actions : Planned(p, t, actions)
    BY <1>2 DEF PlanTool
  <2>2. /\ pc' = pc /\ res' = res /\ due' = due /\ plan[p] \subseteq plan'[p]
        /\ \A q \in Proc \ {p} : plan'[q] = plan[q]
    BY <2>1 DEF TypeOK, Planned
  <2>3. QED BY <2>2, OneResultOf DEF OneResultEach
<1>3. CASE EndPlan(p)
  <2>1. CASE Exit(p)
    BY <2>1, ExitOneResult
  <2>2. CASE ~Exit(p)
    <3>1. /\ plan' = plan /\ res' = res /\ due' = due /\ pc'[p] # "save"
          /\ \A q \in Proc \ {p} : pc'[q] = pc[q]
      BY <1>3, <2>2 DEF TypeOK, EndPlan, Goto, procVars
    <3>2. QED BY <3>1, OneResultOf DEF OneResultEach
  <2>3. QED BY <2>1, <2>2
<1>4. CASE Proceed(p) \/ EndOwnership(p)
  <2>1. /\ plan' = plan /\ res' = res /\ due' = due /\ pc'[p] # "save"
        /\ \A q \in Proc \ {p} : pc'[q] = pc[q]
    BY <1>4 DEF TypeOK, Proceed, EndOwnership, Goto, procVars
  <2>2. QED BY <2>1, OneResultOf DEF OneResultEach
<1>5. CASE Decline(p) \/ AppendHistory(p) \/ Crash(p)
  BY <1>5, ExitOneResult DEF Decline, AppendHistory, Crash
<1>6. ASSUME NEW a \in Pending(p), NEW report, Finished(p, a, report)
      PROVE  OneResultEach'
  <2> DEFINE new == [op |-> a.op, tool |-> a.tool, ok |-> report.ok, already |-> report.already]
  <2>1. /\ plan' = plan /\ due' = due /\ pc' = pc /\ res'[p] = res[p] \cup {new}
        /\ \A q \in Proc \ {p} : res'[q] = res[q]
    BY <1>6 DEF TypeOK, Finished
  <2>2. a \in plan[p] /\ \A r \in res[p] : ~(r.op = a.op /\ r.tool = a.tool)
    BY DEF Pending
  <2>3. [op |-> new.op, tool |-> new.tool] = a
    BY <2>2 DEF TypeOK, Action
  <2>4. new.op = a.op /\ new.tool = a.tool
    OBVIOUS
  <2> HIDE DEF new
  <2>5. \A r, s \in res'[p] : r.op = s.op /\ r.tool = s.tool => r = s
    BY <2>1, <2>2, <2>4 DEF OneResultEach
  <2>6. QED BY <2>1, <2>2, <2>3, <2>5, OneResultOf DEF OneResultEach
<1>7. CASE \E a \in plan[p] : \E report \in InstallReports(pkg[a.tool]) :
             ExecuteInstall(p, a, report)
  BY <1>6, <1>7 DEF ExecuteInstall
<1>8. CASE \E a \in plan[p] : \E report \in RemoveReports(pkg[a.tool]) :
             ExecuteRemove(p, a, report)
  BY <1>6, <1>8 DEF ExecuteRemove
<1>9. CASE EndRun(p)
  <2>1. /\ plan' = plan /\ res' = res /\ due'[p] = DueOf(res[p]) /\ pc'[p] = "own"
        /\ \A q \in Proc \ {p} : pc'[q] = pc[q] /\ due'[q] = due[q]
    BY <1>9 DEF TypeOK, EndRun, Goto
  <2>2. DueOf(res[p]) \subseteq res[p]
    BY DEF DueOf
  <2>3. QED BY <2>1, <2>2, OneResultOf DEF OneResultEach
<1>10. CASE LoadState(p)
  <2>1. /\ plan' = plan /\ res' = res /\ due' = due /\ due[p] # {}
        /\ \A q \in Proc \ {p} : pc'[q] = pc[q]
    BY <1>10 DEF TypeOK, LoadState, Goto
  <2>2. QED BY <2>1, OneResultOf DEF OneResultEach
<1>11. CASE \E r \in due[p] : SaveState(p, r)
  <2>1. /\ plan' = plan /\ res' = res /\ due'[p] \subseteq due[p] /\ pc'[p] = "own"
        /\ \A q \in Proc \ {p} : pc'[q] = pc[q] /\ due'[q] = due[q]
    BY <1>11 DEF TypeOK, SaveState, Goto
  <2>2. QED BY <2>1, OneResultOf DEF OneResultEach
<1>12. QED BY StepCases, <1>1, <1>2, <1>3, <1>4, <1>5, <1>7, <1>8, <1>9, <1>10, <1>11

LEMMA OneResultInvariant == Spec => []OneResultEach
<1>1. Init => OneResultEach
  BY DEF Init, OneResultEach
<1>2. TypeOK /\ Quiet /\ OneResultEach /\ [Next]_vars => OneResultEach'
  <2> SUFFICES ASSUME TypeOK, Quiet, OneResultEach, [Next]_vars PROVE OneResultEach'
    OBVIOUS
  <2>1. CASE \E p \in Proc : Step(p)
    BY <2>1, StepOneResult
  <2>2. CASE \E t \in Tool, v \in Version : Outside(t, v)
    BY <2>2 DEF OneResultEach, Outside, procVars
  <2>3. CASE UNCHANGED vars
    BY <2>3 DEF OneResultEach, vars, procVars
  <2>4. QED BY <2>1, <2>2, <2>3 DEF Next
<1>3. QED BY <1>1, <1>2, TypeCorrect, QuietInvariant, PTL DEF Spec

\* Plans are finite if there are finitely many tools, and no more is recorded
\* than was planned.
LEMMA Counted ==
  ASSUME IsFiniteSet(Tool), TypeOK, OneResultEach, NEW p \in Proc
  PROVE  /\ IsFiniteSet(plan[p]) /\ IsFiniteSet(Pending(p)) /\ IsFiniteSet(due[p])
         /\ IsFiniteSet(DueOf(res[p]))
         /\ Cardinality(plan[p]) \in Nat
         /\ Cardinality(Pending(p)) \in 0 .. Cardinality(plan[p])
         /\ Cardinality(due[p]) \in 0 .. Cardinality(plan[p])
         /\ Cardinality(DueOf(res[p])) \in 0 .. Cardinality(plan[p])
<1>1. IsFiniteSet(Action)
  <2>1. IsFiniteSet(Op)
    <3>1. IsFiniteSet({}) /\ Op = ({} \cup {"install"}) \cup {"remove"}
      BY FS_EmptySet DEF Op
    <3>2. QED BY <3>1, FS_AddElement
  <2>2. IsFiniteSet(Op \X Tool)
    BY <2>1, FS_Product
  <2> DEFINE f == [x \in Op \X Tool |-> [op |-> x[1], tool |-> x[2]]]
  <2>3. f \in [Op \X Tool -> Action]
    BY DEF Action
  <2>4. \A a \in Action : \E x \in Op \X Tool : f[x] = a
    <3>1. ASSUME NEW a \in Action PROVE <<a.op, a.tool>> \in Op \X Tool /\ f[<<a.op, a.tool>>] = a
      BY DEF Action
    <3>2. QED BY <3>1
  <2> HIDE DEF f
  <2>5. f \in Surjection(Op \X Tool, Action)
    BY <2>3, <2>4 DEF Surjection
  <2>6. QED BY <2>2, <2>5, FS_Surjection
<1>2. /\ IsFiniteSet(plan[p]) /\ IsFiniteSet(Pending(p))
      /\ Cardinality(Pending(p)) <= Cardinality(plan[p])
  <2>1. plan[p] \in SUBSET Action /\ Pending(p) \in SUBSET plan[p]
    BY DEF TypeOK, Pending
  <2>2. QED BY <1>1, <2>1, FS_Subset
<1>3. IsFiniteSet(res[p]) /\ Cardinality(res[p]) <= Cardinality(plan[p])
  <2> DEFINE f == [r \in res[p] |-> [op |-> r.op, tool |-> r.tool]]
  <2>1. f \in [res[p] -> plan[p]]
    BY DEF OneResultEach
  <2>2. \A r, s \in res[p] : f[r] = f[s] => r = s
    <3>1. \A r, s \in res[p] : f[r] = f[s] => r.op = s.op /\ r.tool = s.tool
      OBVIOUS
    <3>2. QED BY <3>1 DEF OneResultEach
  <2> HIDE DEF f
  <2>3. f \in Injection(res[p], plan[p])
    BY <2>1, <2>2 DEF Injection, IsInjective
  <2>4. QED BY <1>2, <2>3, FS_Injection
<1>4. due[p] \in SUBSET res[p] /\ DueOf(res[p]) \in SUBSET res[p]
  BY DEF OneResultEach, DueOf
<1>5. /\ IsFiniteSet(due[p]) /\ IsFiniteSet(DueOf(res[p]))
      /\ Cardinality(DueOf(res[p])) <= Cardinality(res[p])
      /\ Cardinality(due[p]) <= Cardinality(res[p])
  BY <1>3, <1>4, FS_Subset
<1>6. /\ Cardinality(plan[p]) \in Nat /\ Cardinality(Pending(p)) \in Nat
      /\ Cardinality(due[p]) \in Nat /\ Cardinality(res[p]) \in Nat
      /\ Cardinality(DueOf(res[p])) \in Nat
  BY <1>2, <1>3, <1>5, FS_CardinalityType
<1>7. QED BY <1>2, <1>3, <1>5, <1>6

\* A step of a run, kills included, leads nearer to its end.
LEMMA RunStep ==
  ASSUME IsFiniteSet(Tool), TypeOK, OneResultEach, NEW p \in Proc, Running(p), Step(p)
  PROVE  StepsLeft(p)' \in 0 .. StepsLeft(p) - 1
<1> DEFINE planned == Cardinality(plan[p])
           pending == Cardinality(Pending(p))
           owed    == Cardinality(due[p])
<1>1. /\ IsFiniteSet(plan[p]) /\ IsFiniteSet(Pending(p)) /\ IsFiniteSet(due[p])
      /\ planned \in Nat /\ pending \in Nat /\ owed \in Nat
      /\ Cardinality(DueOf(res[p])) \in 0 .. planned
  BY Counted
<1> HIDE DEF planned, pending, owed
<1>2. /\ pc[p] = "run" => StepsLeft(p) = pending + 2 * planned + 3
      /\ pc[p] = "own" => StepsLeft(p) = 2 * owed + 2
      /\ pc[p] = "save" => StepsLeft(p) = 2 * owed + 1
      /\ pc[p] = "log" => StepsLeft(p) = 1
      /\ StepsLeft(p) \in Nat \ {0}
  BY <1>1 DEF StepsLeft, Running, planned, pending, owed
<1>3. CASE \/ \E c \in Commands : Begin(p, c)
           \/ \E c \in Commands, i \in DOMAIN history : BeginRollback(p, c, i)
           \/ \E t \in todo[p] : PlanTool(p, t)
           \/ EndPlan(p) \/ Proceed(p) \/ Decline(p)
  BY <1>3 DEF Running, Begin, BeginRollback, PlanTool, Planned, EndPlan, Proceed, Decline, Goto
<1>4. CASE Exit(p)
  <2>1. pc'[p] = "idle"
    BY <1>4 DEF TypeOK, Exit
  <2>2. StepsLeft(p)' = 0
    BY <2>1 DEF StepsLeft
  <2>3. QED BY <1>2, <2>2
<1>5. ASSUME NEW a \in Pending(p), NEW report, Finished(p, a, report)
      PROVE  StepsLeft(p)' \in 0 .. StepsLeft(p) - 1
  <2> DEFINE new == [op |-> a.op, tool |-> a.tool, ok |-> report.ok, already |-> report.already]
  <2>1. pc[p] = "run" /\ pc'[p] = "run" /\ plan'[p] = plan[p] /\ res'[p] = res[p] \cup {new}
    BY <1>5 DEF TypeOK, Finished
  <2>2. \A b \in plan[p] : b.op = a.op /\ b.tool = a.tool => b = a
    BY DEF TypeOK, Action, Pending
  <2>3. new.op = a.op /\ new.tool = a.tool
    OBVIOUS
  <2> HIDE DEF new
  <2>4. Pending(p)' = Pending(p) \ {a}
    BY <2>1, <2>2, <2>3 DEF Pending
  <2>5. Cardinality(Pending(p) \ {a}) = pending - 1
    BY <1>1, FS_RemoveElement DEF pending
  <2>6. StepsLeft(p)' = Cardinality(Pending(p) \ {a}) + 2 * planned + 3
    BY <2>1, <2>4 DEF StepsLeft, planned
  <2>7. QED BY <1>1, <1>2, <2>1, <2>5, <2>6
<1>6. CASE \/ \E a \in plan[p] : \E report \in InstallReports(pkg[a.tool]) : ExecuteInstall(p, a, report)
           \/ \E a \in plan[p] : \E report \in RemoveReports(pkg[a.tool]) : ExecuteRemove(p, a, report)
  BY <1>5, <1>6 DEF ExecuteInstall, ExecuteRemove
<1>7. CASE EndRun(p)
  <2>1. pc[p] = "run" /\ pc'[p] = "own" /\ due'[p] = DueOf(res[p])
    BY <1>7 DEF TypeOK, EndRun, Goto
  <2>2. StepsLeft(p)' = 2 * Cardinality(DueOf(res[p])) + 2
    BY <2>1 DEF StepsLeft
  <2>3. QED BY <1>1, <1>2, <2>1, <2>2
<1>8. CASE LoadState(p)
  <2>1. pc[p] = "own" /\ pc'[p] = "save" /\ due'[p] = due[p]
    BY <1>8 DEF TypeOK, LoadState, Goto
  <2>2. StepsLeft(p)' = 2 * owed + 1
    BY <2>1 DEF StepsLeft, owed
  <2>3. QED BY <1>1, <1>2, <2>1, <2>2
<1>9. CASE \E r \in due[p] : SaveState(p, r)
  <2>1. PICK r \in due[p] : pc[p] = "save" /\ pc'[p] = "own" /\ due'[p] = due[p] \ {r}
    BY <1>9 DEF TypeOK, SaveState, Goto
  <2>2. Cardinality(due[p] \ {r}) = owed - 1
    BY <1>1, FS_RemoveElement DEF owed
  <2>3. StepsLeft(p)' = 2 * Cardinality(due[p] \ {r}) + 2
    BY <2>1 DEF StepsLeft
  <2>4. QED BY <1>1, <1>2, <2>1, <2>2, <2>3
<1>10. CASE EndOwnership(p)
  <2>1. pc[p] = "own" /\ pc'[p] = "log"
    BY <1>10 DEF TypeOK, EndOwnership, Goto
  <2>2. StepsLeft(p)' = 1
    BY <2>1 DEF StepsLeft
  <2>3. QED BY <1>1, <1>2, <2>1, <2>2
<1>11. QED BY StepCases, <1>3, <1>4, <1>6, <1>7, <1>8, <1>9, <1>10 DEF AppendHistory, Crash

\* No step of another process, or of another manager, reaches into a process.
LEMMA OthersLeaveIt ==
  ASSUME TypeOK, [Next]_vars, NEW p \in Proc, ~Step(p)
  PROVE  pc'[p] = pc[p] /\ plan'[p] = plan[p] /\ res'[p] = res[p] /\ due'[p] = due[p]
<1>1. CASE UNCHANGED <<pc, procVars>>
  BY <1>1 DEF procVars
<1>2. ASSUME NEW q \in Proc, Step(q)
      PROVE  pc'[p] = pc[p] /\ plan'[p] = plan[p] /\ res'[p] = res[p] /\ due'[p] = due[p]
  <2>1. q # p
    BY <1>2
  <2>2. CASE \/ \E c \in Commands : Begin(q, c)
             \/ \E c \in Commands, i \in DOMAIN history : BeginRollback(q, c, i)
    BY <2>1, <2>2 DEF TypeOK, Begin, BeginRollback, Goto
  <2>3. CASE \E t \in todo[q] : PlanTool(q, t)
    BY <2>1, <2>3 DEF TypeOK, PlanTool, Planned
  <2>4. CASE Exit(q)
    BY <2>1, <2>4 DEF TypeOK, Exit
  <2>5. CASE EndPlan(q) \/ Proceed(q) \/ EndOwnership(q)
    BY <2>1, <2>4, <2>5 DEF TypeOK, EndPlan, Proceed, EndOwnership, Goto, procVars
  <2>6. CASE \/ \E a \in plan[q] : \E report \in InstallReports(pkg[a.tool]) : ExecuteInstall(q, a, report)
             \/ \E a \in plan[q] : \E report \in RemoveReports(pkg[a.tool]) : ExecuteRemove(q, a, report)
    BY <2>1, <2>6 DEF TypeOK, ExecuteInstall, ExecuteRemove, Finished
  <2>7. CASE EndRun(q) \/ LoadState(q) \/ (\E r \in due[q] : SaveState(q, r))
    BY <2>1, <2>7 DEF TypeOK, EndRun, LoadState, SaveState, Goto
  <2>8. QED BY <1>2, StepCases, <2>2, <2>3, <2>4, <2>5, <2>6, <2>7 DEF Decline, AppendHistory, Crash
<1>3. QED BY <1>1, <1>2 DEF Next, Outside, vars

\* Whatever other processes and other users of the package manager do, each
\* step of a process in its run leads nearer to the end, and no step of others
\* leads it away from it.
RunsAreBounded ==
  [][\A p \in Proc : Running(p) =>
       /\ StepsLeft(p)' <= StepsLeft(p)
       /\ Execute(p) => StepsLeft(p)' < StepsLeft(p)]_vars

\* Where a process is in its run, some action of Execute has its guard: none
\* of them waits for what another process does. (How long a native command
\* takes is another matter: Fairness.)
CanExecute(p) ==
  \/ pc[p] = "run" /\ AllExecuted(p)
  \/ pc[p] = "run" /\ \E a \in Pending(p) : a.op = "install" /\ InstallReports(pkg[a.tool]) # {}
  \/ pc[p] = "run" /\ \E a \in Pending(p) : a.op = "remove" /\ RemoveReports(pkg[a.tool]) # {}
  \/ pc[p] = "own"
  \/ pc[p] = "save" /\ due[p] # {}
  \/ pc[p] = "log"

NeverStuck ==
  \A p \in Proc : Running(p) =>
    CanExecute(p) /\ StepsLeft(p) \in 1 .. 3 * Cardinality(plan[p]) + 3

LEMMA RunningIsNotStuck ==
  ASSUME IsFiniteSet(Tool), TypeOK, OneResultEach, NEW p \in Proc, Running(p)
  PROVE  CanExecute(p) /\ StepsLeft(p) \in 1 .. 3 * Cardinality(plan[p]) + 3
<1>1. CanExecute(p)
  <2>1. CASE pc[p] = "run" /\ ~AllExecuted(p)
    <3>1. PICK a \in Pending(p) : TRUE
      BY <2>1 DEF AllExecuted
    <3>2. a.op = "install" \/ a.op = "remove"
      BY DEF TypeOK, Action, Op, Pending
    <3>3. InstallReports(pkg[a.tool]) # {} /\ RemoveReports(pkg[a.tool]) # {}
      BY DEF InstallReports, RemoveReports
    <3>4. QED BY <2>1, <3>2, <3>3 DEF CanExecute
  <2>2. CASE ~(pc[p] = "run" /\ ~AllExecuted(p))
    BY <2>2 DEF CanExecute, Running, OneResultEach
  <2>3. QED BY <2>1, <2>2
<1>2. /\ Cardinality(plan[p]) \in Nat /\ Cardinality(Pending(p)) \in 0 .. Cardinality(plan[p])
      /\ Cardinality(due[p]) \in 0 .. Cardinality(plan[p])
  BY Counted
<1>3. QED BY <1>1, <1>2 DEF StepsLeft, Running

\* What RunsEnd needs besides the fairness of Execute: a plan that was allowed
\* to run takes, whatever fails and whoever else is at work, at most three
\* steps for each of its actions and three more, and is never stuck. (The
\* registry has finitely many tools.)
THEOREM RunsAreBoundedSound ==
  ASSUME IsFiniteSet(Tool)
  PROVE  Spec => []NeverStuck /\ RunsAreBounded
<1>1. TypeOK /\ OneResultEach /\ [Next]_vars => [\A p \in Proc : Running(p) =>
         /\ StepsLeft(p)' <= StepsLeft(p)
         /\ Execute(p) => StepsLeft(p)' < StepsLeft(p)]_vars
  <2> SUFFICES ASSUME TypeOK, OneResultEach, [Next]_vars, NEW p \in Proc, Running(p)
               PROVE  /\ StepsLeft(p)' <= StepsLeft(p)
                      /\ Execute(p) => StepsLeft(p)' < StepsLeft(p)
    OBVIOUS
  <2>1. StepsLeft(p) \in Nat
    <3>1. /\ Cardinality(plan[p]) \in Nat /\ Cardinality(Pending(p)) \in Nat
          /\ Cardinality(due[p]) \in Nat
      BY Counted
    <3>2. QED BY <3>1 DEF StepsLeft
  <2>2. CASE Step(p)
    <3>1. StepsLeft(p)' \in 0 .. StepsLeft(p) - 1
      BY <2>2, RunStep
    <3>2. StepsLeft(p)' <= StepsLeft(p) /\ StepsLeft(p)' < StepsLeft(p)
      BY <2>1, <3>1
    <3>3. QED BY <3>2, Zenon
  <2>3. CASE ~Step(p)
    <3>1. pc'[p] = pc[p] /\ plan'[p] = plan[p] /\ res'[p] = res[p] /\ due'[p] = due[p]
      BY <2>3, OthersLeaveIt
    <3>2. StepsLeft(p)' = StepsLeft(p)
      BY <3>1 DEF StepsLeft, Pending
    <3>3. ~Execute(p)
      BY <2>3 DEF Step
    <3>4. StepsLeft(p)' <= StepsLeft(p)
      BY <2>1, <3>2
    <3>5. QED BY <3>3, <3>4, Zenon
  <2>4. QED BY <2>2, <2>3
<1>2. TypeOK /\ OneResultEach => NeverStuck
  BY RunningIsNotStuck DEF NeverStuck
<1>3. QED BY <1>1, <1>2, TypeCorrect, OneResultInvariant, PTL DEF Spec, RunsAreBounded
=============================================================================
