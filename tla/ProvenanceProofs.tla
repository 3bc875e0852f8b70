-------------------------- MODULE ProvenanceProofs --------------------------
(***************************************************************************)
(* Hallfix tracks what it changed, when one process runs at a time: for    *)
(* any tools, profiles and commands, any sequence of them, and any crash.  *)
(* And it leaves what was there before to the user, for any number of      *)
(* processes, where it needed no upgrade.                                  *)
(***************************************************************************)
EXTENDS Provenance, WorkflowProofs

\* The history variables constrain nothing.
LEMMA ProvIsWorkflow == ProvSpec => Spec
<1>1. ProvInit => Init
  BY DEF ProvInit
<1>2. [ProvNext]_allVars => [Next]_vars
  BY DEF ProvNext, allVars
<1>3. QED BY <1>1, <1>2, PTL DEF ProvSpec, Spec

InstallKinds == {"toolInstall", "profileInstall", "updateTools"}
OpOf(c) == IF c.kind \in InstallKinds THEN "install" ELSE "remove"

\* A command installs or removes, never both.
OneOp(p) ==
  /\ \A a \in plan[p] : a.op = OpOf(cmd[p])
  /\ \A r \in res[p] : r.op = OpOf(cmd[p])

\* What is still to be recorded comes from the results, and is recorded
\* before the command comes to the history.
DueIsLeft(p) ==
  /\ due[p] \subseteq DueOf(res[p])
  /\ pc[p] \in {"idle", "plan", "confirm", "run", "log"} => due[p] = {}
  /\ pc[p] \notin {"run", "own", "save", "log"} => res[p] = {}

\* The state that a process is about to change is the state there is.
CopyIsFresh(p) == pc[p] = "save" => copy[p] = store

\* p has installed t, and has yet to record it.
Owes(p, t) == \E r \in (IF pc[p] = "run" THEN res[p] ELSE due[p]) : Undoes(r) /\ r.tool = t

Removed(p, t) == \E r \in res[p] : r.op = "remove" /\ r.ok /\ r.tool = t

Tracked(p, t) == (Owned(store, t) \/ Owes(p, t)) /\ ~Removed(p, t)

ProcTracks(p) ==
  /\ OneOp(p) /\ DueIsLeft(p) /\ CopyIsFresh(p)
  /\ \A t \in standing : Tracked(p, t)

TracksInv == standing \subseteq Tool /\ \A p \in Proc : ProcTracks(p)

-----------------------------------------------------------------------------
(* What a step makes of `standing`.                                        *)

Ends(h) == pc[h] # "idle" /\ pc'[h] = "idle" /\ history' = history

LEMMA StandingIs ==
  ASSUME NEW h, Proc = {h}, StandingNext
  PROVE  standing' = (standing \cup {r.tool : r \in {x \in res'[h] \ res[h] : Undoes(x)}})
                     \ ({r.tool : r \in {x \in res'[h] \ res[h] : x.op = "remove" /\ x.ok}}
                        \cup {r.tool : r \in {x \in res[h] : Ends(h)}})
<1> DEFINE fresh  == {r.tool : r \in {x \in NewResults : Undoes(x)}}
           gone   == {r.tool : r \in {x \in NewResults : x.op = "remove" /\ x.ok}}
           killed == {r.tool : r \in UNION {res[p] : p \in Killed}}
<1>1. standing' = (standing \cup fresh) \ (gone \cup killed)
  BY Zenon DEF StandingNext
<1>2. NewResults = res'[h] \ res[h]
  BY DEF NewResults
<1>3. UNION {res[p] : p \in Killed} = {x \in res[h] : Ends(h)}
  BY DEF Killed, Ends
<1>4. fresh = {r.tool : r \in {x \in res'[h] \ res[h] : Undoes(x)}}
  BY <1>2
<1>5. gone = {r.tool : r \in {x \in res'[h] \ res[h] : x.op = "remove" /\ x.ok}}
  BY <1>2
<1>6. killed = {r.tool : r \in {x \in res[h] : Ends(h)}}
  BY <1>3
<1> HIDE DEF fresh, gone, killed
<1>7. QED BY <1>1, <1>4, <1>5, <1>6

\* Without new results, and unless it ends early, it stays.
LEMMA StandingStays ==
  ASSUME NEW h, Proc = {h}, StandingNext, res'[h] \subseteq res[h], ~Ends(h)
  PROVE  standing' = standing
<1>1. /\ {r.tool : r \in {x \in res'[h] \ res[h] : Undoes(x)}} = {}
      /\ {r.tool : r \in {x \in res'[h] \ res[h] : x.op = "remove" /\ x.ok}} = {}
  OBVIOUS
<1>2. {r.tool : r \in {x \in res[h] : Ends(h)}} = {}
  OBVIOUS
<1>3. standing' = (standing \cup {}) \ ({} \cup {})
  BY <1>1, <1>2, StandingIs, Zenon
<1>4. QED BY <1>3

LEMMA StandingEnds ==
  ASSUME NEW h, Proc = {h}, StandingNext, res'[h] \subseteq res[h], Ends(h)
  PROVE  standing' = standing \ {r.tool : r \in res[h]}
<1>1. /\ {r.tool : r \in {x \in res'[h] \ res[h] : Undoes(x)}} = {}
      /\ {r.tool : r \in {x \in res'[h] \ res[h] : x.op = "remove" /\ x.ok}} = {}
  OBVIOUS
<1>2. {x \in res[h] : Ends(h)} = res[h]
  OBVIOUS
<1>3. standing' = (standing \cup {}) \ ({} \cup {r.tool : r \in res[h]})
  BY <1>1, <1>2, StandingIs, Zenon
<1>4. QED BY <1>3

-----------------------------------------------------------------------------
(* The steps, one process running at a time.                               *)

\* A step that leaves results, debts and state as they are.
LEMMA TracksQuietly ==
  ASSUME NEW h, Proc = {h}, TracksInv, StandingNext, ~Ends(h),
         res' = res, due' = due, store' = store,
         pc'[h] = "run" <=> pc[h] = "run",
         pc'[h] = "save" => pc[h] = "save" /\ copy'[h] = copy[h],
         pc'[h] \in {"idle", "plan", "confirm", "run", "log"} => due[h] = {},
         pc'[h] \notin {"run", "own", "save", "log"} => res[h] = {},
         \A a \in plan'[h] : a.op = OpOf(cmd'[h]),
         \A r \in res[h] : r.op = OpOf(cmd'[h])
  PROVE  TracksInv'
<1>1. standing' = standing
  BY StandingStays
<1>2. ProcTracks(h)
  BY DEF TracksInv
<1>3. OneOp(h)' /\ DueIsLeft(h)' /\ CopyIsFresh(h)'
  BY <1>2 DEF ProcTracks, OneOp, DueIsLeft, DueOf, CopyIsFresh
<1>4. \A t \in standing' : Tracked(h, t)'
  BY <1>1, <1>2 DEF ProcTracks, Tracked, Owned, Owes, Removed
<1>5. QED BY <1>1, <1>3, <1>4 DEF TracksInv, ProcTracks

\* The process ends early, by a decline or a kill: what it did is given up.
LEMMA TracksExit ==
  ASSUME NEW h, Proc = {h}, TypeOK, TracksInv, StandingNext, Exit(h), store' = store,
         pc[h] # "idle", history' = history
  PROVE  TracksInv'
<1>1. /\ pc'[h] = "idle" /\ cmd'[h] = Idle /\ plan'[h] = {} /\ res'[h] = {} /\ due'[h] = {}
  BY DEF Exit, TypeOK
<1>2. standing' = standing \ {r.tool : r \in res[h]}
  BY <1>1, StandingEnds DEF Ends
<1>3. ProcTracks(h)
  BY DEF TracksInv
<1>4. OneOp(h)' /\ DueIsLeft(h)' /\ CopyIsFresh(h)'
  BY <1>1 DEF OneOp, DueIsLeft, CopyIsFresh
<1>5. ASSUME NEW t \in standing' PROVE Tracked(h, t)'
  <2>1. t \in standing /\ ~\E r \in res[h] : r.tool = t
    BY <1>2
  <2>2. due[h] \subseteq res[h]
    BY <1>3 DEF ProcTracks, DueIsLeft, DueOf
  <2>3. Owned(store, t)
    BY <1>3, <2>1, <2>2 DEF ProcTracks, Tracked, Owes
  <2>4. QED BY <1>1, <2>3 DEF Tracked, Owned, Removed
<1>6. QED BY <1>2, <1>4, <1>5 DEF TracksInv, ProcTracks

\* One action of the plan: a fresh install is owed from now on, a removal
\* that succeeded is no longer standing.
LEMMA TracksFinished ==
  ASSUME NEW h, Proc = {h}, TypeOK, TracksInv, StandingNext, NEW a \in plan[h], NEW report,
         Finished(h, a, report)
  PROVE  TracksInv'
<1> DEFINE new == [op |-> a.op, tool |-> a.tool, ok |-> report.ok, already |-> report.already]
<1>1. /\ pc[h] = "run" /\ pc' = pc /\ res'[h] = res[h] \cup {new} /\ due' = due /\ store' = store
      /\ plan' = plan /\ cmd' = cmd /\ copy' = copy
  BY DEF Finished, TypeOK
<1>2. ProcTracks(h) /\ a.op = OpOf(cmd[h]) /\ a.tool \in Tool
  BY DEF TracksInv, ProcTracks, OneOp, TypeOK, Action
<1>3. new.op = a.op /\ new.tool = a.tool
  OBVIOUS
<1> HIDE DEF new
<1>4. OneOp(h)' /\ DueIsLeft(h)' /\ CopyIsFresh(h)'
  BY <1>1, <1>2, <1>3 DEF ProcTracks, OneOp, DueIsLeft, CopyIsFresh
<1>5. standing' = (standing \cup {r.tool : r \in {x \in res'[h] \ res[h] : Undoes(x)}})
                  \ {r.tool : r \in {x \in res'[h] \ res[h] : x.op = "remove" /\ x.ok}}
  BY <1>1, StandingIs DEF Ends
<1>6. standing' \subseteq Tool
  BY <1>1, <1>2, <1>3, <1>5 DEF TracksInv
<1>7. ASSUME NEW t \in standing' PROVE Tracked(h, t)'
  <2>1. ~Removed(h, t)'
    <3>1. ~(new \notin res[h] /\ new.op = "remove" /\ new.ok /\ new.tool = t)
      BY <1>1, <1>5
    <3>2. CASE t \in standing
      BY <1>1, <1>2, <3>1, <3>2 DEF ProcTracks, Tracked, Removed
    <3>3. CASE t \notin standing
      <4>1. Undoes(new)
        BY <1>1, <1>5, <3>3
      <4>2. OpOf(cmd[h]) = "install"
        BY <1>2, <1>3, <4>1 DEF Undoes
      <4>3. QED BY <1>1, <1>4, <4>2 DEF OneOp, Removed
    <3>4. QED BY <3>2, <3>3
  <2>2. Owned(store, t)' \/ Owes(h, t)'
    <3>1. CASE t \in standing
      BY <1>1, <1>2, <3>1 DEF ProcTracks, Tracked, Owned, Owes
    <3>2. CASE t \notin standing
      <4>1. Undoes(new) /\ new.tool = t
        BY <1>1, <1>5, <3>2
      <4>2. QED BY <1>1, <4>1 DEF Owes
    <3>3. QED BY <3>1, <3>2
  <2>3. QED BY <2>1, <2>2 DEF Tracked
<1>8. QED BY <1>4, <1>6, <1>7 DEF TracksInv, ProcTracks

\* What is owed is due.
LEMMA TracksEndRun ==
  ASSUME NEW h, Proc = {h}, TypeOK, TracksInv, StandingNext, EndRun(h)
  PROVE  TracksInv'
<1>1. /\ pc[h] = "run" /\ pc'[h] = "own" /\ due'[h] = DueOf(res[h]) /\ res' = res /\ store' = store
      /\ plan' = plan /\ cmd' = cmd
  BY DEF EndRun, Goto, TypeOK, sysVars
<1>2. standing' = standing
  BY <1>1, StandingStays DEF Ends
<1>3. ProcTracks(h)
  BY DEF TracksInv
<1>4. OneOp(h)' /\ DueIsLeft(h)' /\ CopyIsFresh(h)'
  BY <1>1, <1>3 DEF ProcTracks, OneOp, DueIsLeft, DueOf, CopyIsFresh
<1>5. ASSUME NEW t \in standing PROVE Tracked(h, t)'
  <2>1. Owes(h, t) => Owes(h, t)'
    BY <1>1 DEF Owes, DueOf, Undoes, RecordsOwnership
  <2>2. QED BY <1>1, <1>3, <2>1 DEF ProcTracks, Tracked, Owned, Removed
<1>6. QED BY <1>2, <1>4, <1>5 DEF TracksInv, ProcTracks

LEMMA TracksLoad ==
  ASSUME NEW h, Proc = {h}, TypeOK, TracksInv, StandingNext, LoadState(h)
  PROVE  TracksInv'
<1>1. /\ pc[h] = "own" /\ pc'[h] = "save" /\ copy'[h] = store /\ res' = res /\ due' = due
      /\ store' = store /\ plan' = plan /\ cmd' = cmd
  BY DEF LoadState, Goto, TypeOK, sysVars
<1>2. standing' = standing
  BY <1>1, StandingStays DEF Ends
<1>3. ProcTracks(h)
  BY DEF TracksInv
<1>4. OneOp(h)' /\ DueIsLeft(h)' /\ CopyIsFresh(h)'
  BY <1>1, <1>3 DEF ProcTracks, OneOp, DueIsLeft, DueOf, CopyIsFresh
<1>5. \A t \in standing : Tracked(h, t)'
  BY <1>1, <1>3 DEF ProcTracks, Tracked, Owned, Owes, Removed
<1>6. QED BY <1>2, <1>4, <1>5 DEF TracksInv, ProcTracks

\* A debt is paid into the state as it is, and no other claim is lost.
LEMMA TracksSave ==
  ASSUME NEW h, Proc = {h}, TypeOK, TracksInv, StandingNext, NEW r \in due[h], SaveState(h, r)
  PROVE  TracksInv'
<1>1. /\ pc[h] = "save" /\ pc'[h] = "own" /\ due'[h] = due[h] \ {r} /\ res' = res
      /\ plan' = plan /\ cmd' = cmd
      /\ store' = IF r.op = "install" THEN RecordInstalled(copy[h], r.tool, cmd[h].profile)
                                      ELSE RecordRemoved(copy[h], r.tool)
  BY DEF SaveState, Goto, TypeOK
<1>2. standing' = standing
  BY <1>1, StandingStays DEF Ends
<1>3. ProcTracks(h) /\ standing \subseteq Tool
  BY DEF TracksInv
<1>4. copy[h] = store /\ store \in [Tool -> Entry]
  BY <1>1, <1>3 DEF ProcTracks, CopyIsFresh, TypeOK
<1>5. r \in res[h] /\ r.ok /\ r \in Outcome
  BY <1>3 DEF ProcTracks, DueIsLeft, DueOf, RecordsOwnership, TypeOK
<1>6. OneOp(h)' /\ DueIsLeft(h)' /\ CopyIsFresh(h)'
  BY <1>1, <1>3 DEF ProcTracks, OneOp, DueIsLeft, DueOf, CopyIsFresh
<1>7. ASSUME NEW t \in standing PROVE Tracked(h, t)'
  <2>1. Tracked(h, t) /\ t \in Tool
    BY <1>3 DEF ProcTracks
  <2>2. ~Removed(h, t)'
    BY <1>1, <2>1 DEF Tracked, Removed
  <2>3. Owned(store, t) => Owned(store, t)'
    <3>1. CASE r.op = "install"
      BY <1>1, <1>4, <2>1, <3>1 DEF Owned, RecordInstalled
    <3>2. CASE r.op # "install"
      <4>1. r.op = "remove" /\ r.tool # t
        BY <1>5, <2>1, <3>2 DEF Outcome, Op, Tracked, Removed
      <4>2. QED BY <1>1, <1>4, <2>1, <3>2, <4>1 DEF Owned, RecordRemoved
    <3>3. QED BY <3>1, <3>2
  <2>4. ASSUME Owes(h, t) PROVE Owned(store, t)' \/ Owes(h, t)'
    <3>1. PICK d \in due[h] : Undoes(d) /\ d.tool = t
      BY <1>1, <2>4 DEF Owes
    <3>2. CASE d # r
      BY <1>1, <3>1, <3>2 DEF Owes
    <3>3. CASE d = r
      BY <1>1, <1>4, <2>1, <3>1, <3>3 DEF Undoes, Owned, RecordInstalled
    <3>4. QED BY <3>2, <3>3
  <2>5. QED BY <2>1, <2>2, <2>3, <2>4 DEF Tracked
<1>8. QED BY <1>2, <1>3, <1>6, <1>7 DEF TracksInv, ProcTracks

LEMMA TracksAppend ==
  ASSUME NEW h, Proc = {h}, TypeOK, TracksInv, StandingNext, AppendHistory(h)
  PROVE  TracksInv'
<1>1. /\ pc[h] = "log" /\ pc'[h] = "idle" /\ cmd'[h] = Idle /\ plan'[h] = {} /\ res'[h] = {}
      /\ due'[h] = {} /\ store' = store
  BY DEF AppendHistory, Exit, TypeOK
<1>2. history' # history
  <2>1. history \in Seq(Record) /\ history' = Append(history, RecordOf(h))
    BY DEF AppendHistory, TypeOK
  <2>2. Len(history') = Len(history) + 1 /\ Len(history) \in Nat
    BY <2>1
  <2>3. QED BY <2>2
<1>3. standing' = standing
  BY <1>1, <1>2, StandingStays DEF Ends
<1>4. ProcTracks(h)
  BY DEF TracksInv
<1>5. OneOp(h)' /\ DueIsLeft(h)' /\ CopyIsFresh(h)'
  BY <1>1 DEF OneOp, DueIsLeft, CopyIsFresh
<1>6. \A t \in standing : Tracked(h, t)'
  BY <1>1, <1>4 DEF ProcTracks, DueIsLeft, Tracked, Owned, Owes, Removed
<1>7. QED BY <1>3, <1>5, <1>6 DEF TracksInv, ProcTracks

LEMMA TracksPlan ==
  ASSUME NEW h, Proc = {h}, TypeOK, TracksInv, StandingNext, NEW t \in todo[h], PlanTool(h, t)
  PROVE  TracksInv'
<1>1. ProcTracks(h)
  BY DEF TracksInv
<1>2. PICK actions : Planned(h, t, actions) /\ \A a \in actions : a.op = OpOf(cmd[h])
  <2>1. CASE InstallWanted(cmd[h], t) /\ Planned(h, t, {[op |-> "install", tool |-> t]})
    <3>1. OpOf(cmd[h]) = "install"
      BY <2>1 DEF InstallWanted, OpOf, InstallKinds
    <3>2. QED BY <2>1, <3>1
  <2>2. CASE RemoveWanted(cmd[h], t) /\ Planned(h, t, {[op |-> "remove", tool |-> t]})
    <3>1. OpOf(cmd[h]) = "remove"
      BY <2>2 DEF RemoveWanted, OpOf, InstallKinds
    <3>2. QED BY <2>2, <3>1
  <2>3. CASE Planned(h, t, {})
    BY <2>3
  <2>4. QED BY <2>1, <2>2, <2>3 DEF PlanTool
<1>3. /\ pc[h] = "plan" /\ pc' = pc /\ cmd' = cmd /\ res' = res /\ due' = due /\ store' = store
      /\ plan'[h] = plan[h] \cup actions
  BY <1>2 DEF Planned, TypeOK, sysVars
<1>4. ~Ends(h)
  BY <1>3 DEF Ends
<1>5. (\A a \in plan'[h] : a.op = OpOf(cmd'[h])) /\ (\A r \in res[h] : r.op = OpOf(cmd'[h]))
  BY <1>1, <1>2, <1>3 DEF ProcTracks, OneOp, OpOf
<1>6. due[h] = {} /\ res[h] = {}
  BY <1>1, <1>3 DEF ProcTracks, DueIsLeft
<1>7. QED BY <1>3, <1>4, <1>5, <1>6, TracksQuietly

\* A command starts from nothing.
LEMMA TracksBegin ==
  ASSUME NEW h, Proc = {h}, TypeOK, Quiet, TracksInv, StandingNext,
         \/ \E c \in Commands : Begin(h, c)
         \/ \E c \in Commands, i \in DOMAIN history : BeginRollback(h, c, i)
  PROVE  TracksInv'
<1>1. pc[h] = "idle" /\ pc'[h] = "plan" /\ res' = res /\ due' = due /\ store' = store
  BY DEF Begin, BeginRollback, Goto, TypeOK, sysVars
<1>2. plan[h] = {} /\ res[h] = {} /\ due[h] = {}
  BY <1>1 DEF Quiet, TracksInv, ProcTracks, DueIsLeft
<1>3. \A a \in plan'[h] : a.op = OpOf(cmd'[h])
  <2>1. CASE \E c \in Commands : Begin(h, c)
    BY <1>2, <2>1 DEF Begin
  <2>2. CASE \E c \in Commands, i \in DOMAIN history : BeginRollback(h, c, i)
    <3>1. PICK c \in Commands, i \in DOMAIN history : BeginRollback(h, c, i)
      BY <2>2
    <3>2. /\ cmd'[h].kind = "rollback"
          /\ plan'[h] = {[op |-> "remove", tool |-> t] : t \in UndoneBy(history[i])}
      BY <3>1 DEF BeginRollback, TypeOK
    <3>3. OpOf(cmd'[h]) = "remove"
      BY <3>2 DEF OpOf, InstallKinds
    <3>4. QED BY <3>2, <3>3
  <2>3. QED BY <2>1, <2>2
<1>4. ~Ends(h)
  BY <1>1 DEF Ends
<1>5. QED BY <1>1, <1>2, <1>3, <1>4, TracksQuietly

\* A step within the command, to a later stage of it.
LEMMA TracksGoto ==
  ASSUME NEW h, Proc = {h}, TypeOK, TracksInv, StandingNext,
         res' = res, due' = due, store' = store, plan' = plan, cmd' = cmd,
         \/ Goto(h, "plan", "confirm")
         \/ Goto(h, "plan", "log")
         \/ Goto(h, "confirm", "run")
         \/ Goto(h, "own", "log") /\ due[h] = {}
  PROVE  TracksInv'
<1>1. ProcTracks(h)
  BY DEF TracksInv
<1>2. CASE Goto(h, "confirm", "run")
  <2>1. /\ pc[h] = "confirm" /\ pc'[h] = "run" /\ res[h] = {} /\ due[h] = {} /\ ~Ends(h)
    BY <1>1, <1>2 DEF Goto, TypeOK, ProcTracks, DueIsLeft, Ends
  <2>2. standing' = standing
    BY <2>1, StandingStays
  <2>3. OneOp(h)' /\ DueIsLeft(h)' /\ CopyIsFresh(h)'
    BY <1>1, <2>1 DEF ProcTracks, OneOp, OpOf, DueIsLeft, DueOf, CopyIsFresh
  <2>4. \A t \in standing : Tracked(h, t)'
    BY <1>1, <2>1 DEF ProcTracks, Tracked, Owned, Owes, Removed
  <2>5. QED BY <2>2, <2>3, <2>4 DEF TracksInv, ProcTracks
<1>3. CASE ~Goto(h, "confirm", "run")
  <2>1. /\ pc[h] \in {"plan", "own"} /\ pc'[h] \in {"confirm", "log"}
        /\ pc[h] = "own" => due[h] = {} /\ pc'[h] = "log"
    BY <1>3 DEF Goto, TypeOK
  <2>2. due[h] = {} /\ (pc[h] = "plan" => res[h] = {})
    BY <1>1, <2>1 DEF ProcTracks, DueIsLeft
  <2>3. ~Ends(h)
    BY <2>1 DEF Ends
  <2>4. (\A a \in plan'[h] : a.op = OpOf(cmd'[h])) /\ (\A r \in res[h] : r.op = OpOf(cmd'[h]))
    BY <1>1 DEF ProcTracks, OneOp, OpOf
  <2>5. (pc'[h] = "run" <=> pc[h] = "run") /\ pc'[h] # "save"
        /\ (pc'[h] \notin {"run", "own", "save", "log"} => res[h] = {})
    BY <2>1, <2>2
  <2>6. QED BY <2>2, <2>3, <2>4, <2>5, TracksQuietly
<1>4. QED BY <1>2, <1>3

LEMMA TracksStep ==
  ASSUME NEW h, Proc = {h}, TypeOK, Quiet, TracksInv, StandingNext, Step(h)
  PROVE  TracksInv'
<1>1. CASE EndPlan(h)
  <2>1. CASE Exit(h)
    BY <1>1, <2>1, TracksExit DEF EndPlan, sysVars
  <2>2. CASE ~Exit(h)
    BY <1>1, <2>2, TracksGoto DEF EndPlan, sysVars, procVars
  <2>3. QED BY <2>1, <2>2
<1>2. CASE Proceed(h) \/ EndOwnership(h)
  BY <1>2, TracksGoto DEF Proceed, EndOwnership, sysVars, procVars
<1>3. CASE Decline(h) \/ Crash(h)
  BY <1>3, TracksExit DEF Decline, Crash, sysVars
<1>4. CASE \E a \in plan[h] : \E report \in InstallReports(pkg[a.tool]) : ExecuteInstall(h, a, report)
  BY <1>4, TracksFinished DEF ExecuteInstall
<1>5. CASE \E a \in plan[h] : \E report \in RemoveReports(pkg[a.tool]) : ExecuteRemove(h, a, report)
  BY <1>5, TracksFinished DEF ExecuteRemove
<1>6. h \in Proc
  OBVIOUS
<1>7. QED BY <1>1, <1>2, <1>3, <1>4, <1>5, <1>6, StepCases, TracksBegin, TracksPlan, TracksEndRun,
             TracksLoad, TracksSave, TracksAppend

\* Nothing hallfix does.
LEMMA TracksOthers ==
  ASSUME NEW h, Proc = {h}, TypeOK, TracksInv, UNCHANGED <<pc, procVars, store, standing>>
  PROVE  TracksInv'
<1>1. ProcTracks(h)
  BY DEF TracksInv
<1>2. OneOp(h)' /\ DueIsLeft(h)' /\ CopyIsFresh(h)'
  BY <1>1 DEF ProcTracks, OneOp, OpOf, DueIsLeft, DueOf, CopyIsFresh, procVars
<1>3. \A t \in standing : Tracked(h, t)'
  BY <1>1 DEF ProcTracks, Tracked, Owned, Owes, Removed, procVars
<1>4. QED BY <1>2, <1>3 DEF TracksInv, ProcTracks

-----------------------------------------------------------------------------
LEMMA TracksInvariant ==
  ASSUME NEW h, Proc = {h}
  PROVE  ProvSpec => []TracksInv
<1>1. ProvInit => TracksInv
  BY DEF ProvInit, Init, TracksInv, ProcTracks, OneOp, DueIsLeft, CopyIsFresh
<1>2. TypeOK /\ Quiet /\ TracksInv /\ [ProvNext]_allVars => TracksInv'
  <2> SUFFICES ASSUME TypeOK, Quiet, TracksInv, [ProvNext]_allVars PROVE TracksInv'
    OBVIOUS
  <2>1. CASE StandingNext /\ \E p \in Proc : Step(p)
    BY <2>1, TracksStep
  <2>2. CASE StandingNext /\ \E t \in Tool, v \in Version : Outside(t, v)
    <3>1. UNCHANGED <<pc, procVars, store>>
      BY <2>2 DEF Outside
    <3>2. res' = res /\ pc' = pc
      BY <3>1 DEF procVars
    <3>3. standing' = standing
      BY <2>2, <3>2, StandingStays DEF Ends
    <3>4. QED BY <3>1, <3>3, TracksOthers
  <2>3. CASE UNCHANGED allVars
    BY <2>3, TracksOthers DEF allVars, provVars, vars, sysVars
  <2>4. QED BY <2>1, <2>2, <2>3 DEF ProvNext, Next
<1>3. QED BY <1>1, <1>2, ProvIsWorkflow, TypeCorrect, QuietInvariant, PTL DEF ProvSpec

\* docs/state.md:3: as long as one process runs at a time, a tool whose
\* latest reported effect of hallfix is a fresh install is claimed in
\* state.json whenever no command runs - whatever the commands, the risks,
\* the packages, the changes made outside and the kills.
THEOREM TracksChangesSound ==
  ASSUME NEW h, Proc = {h}
  PROVE  ProvSpec => []TracksChanges
<1>1. TracksInv => TracksChanges
  <2> SUFFICES ASSUME TracksInv, \A p \in Proc : pc[p] = "idle", NEW t \in standing
               PROVE  Owned(store, t)
    BY DEF TracksChanges
  <2>1. ProcTracks(h) /\ pc[h] = "idle"
    BY DEF TracksInv
  <2>2. QED BY <2>1 DEF ProcTracks, DueIsLeft, Tracked, Owes
<1>2. QED BY <1>1, TracksInvariant, PTL

-----------------------------------------------------------------------------
(* What the user put there. PreexistingKept does not hold: an upgrade to a *)
(* minimum_version makes hallfix the owner of what was there. This is the  *)
(* only way to it as long as nobody but hallfix changes packages.          *)

\* profile remove leaves alone what was there before hallfix, unless the tool
\* has a minimum_version.
KeptUnlessUpgraded ==
  [][\A p \in Proc, t \in Tool :
       ProfileRemoves(p, t) /\ outside = 0 /\ t \notin Versioned => t \notin native]_allVars

\* Process p neither has nor plans anything with t that could make hallfix its
\* owner, or remove it for a profile.
HandsOff(p, t) ==
  /\ ~Owned(copy[p], t)
  /\ \A a \in plan[p] : a.tool = t => a.op = "remove" /\ cmd[p].kind # "profileRemove"
  /\ \A r \in res[p] \cup due[p] : r.tool = t => r.op = "remove"
  /\ cmd[p].kind = "updateTools" => t \notin todo[p]

\* A package that was there and needs no upgrade is never claimed.
Unclaimed(t) ==
  /\ pkg[t] # "absent"
  /\ ~Owned(store, t)
  /\ \A p \in Proc : HandsOff(p, t)

NativeUnclaimed ==
  native \subseteq Tool /\ (outside = 0 => \A t \in native \ Versioned : Unclaimed(t))

LEMMA ExitHandsOff ==
  ASSUME TypeOK, NEW p \in Proc, NEW t \in Tool, Exit(p), \A q \in Proc : HandsOff(q, t)
  PROVE  \A q \in Proc : HandsOff(q, t)'
<1>1. /\ copy'[p] = NoEntries /\ plan'[p] = {} /\ res'[p] = {} /\ due'[p] = {} /\ cmd'[p].kind = "none"
      /\ \A q \in Proc \ {p} : /\ copy'[q] = copy[q] /\ plan'[q] = plan[q] /\ res'[q] = res[q]
                               /\ due'[q] = due[q] /\ cmd'[q] = cmd[q] /\ todo'[q] = todo[q]
  BY DEF TypeOK, Exit, Idle
<1>2. HandsOff(p, t)'
  BY <1>1 DEF HandsOff, Owned, NoEntries
<1>3. \A q \in Proc \ {p} : HandsOff(q, t)'
  BY <1>1 DEF HandsOff, Owned
<1>4. QED BY <1>2, <1>3

\* A step changes the hands of its process alone.
LEMMA OnlyHandsOf ==
  ASSUME NEW p \in Proc, NEW t \in Tool, \A q \in Proc : HandsOff(q, t), HandsOff(p, t)',
         \A q \in Proc \ {p} : /\ copy'[q] = copy[q] /\ plan'[q] = plan[q] /\ res'[q] = res[q]
                               /\ due'[q] = due[q] /\ cmd'[q] = cmd[q] /\ todo'[q] = todo[q]
  PROVE  \A q \in Proc : HandsOff(q, t)'
<1>1. \A q \in Proc \ {p} : HandsOff(q, t)'
  BY DEF HandsOff, Owned
<1>2. QED BY <1>1

LEMMA StepUnclaimed ==
  ASSUME TypeOK, Quiet, NEW p \in Proc, NEW t \in Tool \ Versioned, Unclaimed(t), Step(p)
  PROVE  ~Owned(store, t)' /\ \A q \in Proc : HandsOff(q, t)'
<1>1. /\ pkg[t] # "absent" /\ ~Owned(store, t) /\ HandsOff(p, t) /\ \A q \in Proc : HandsOff(q, t)
  BY DEF Unclaimed
<1>2. CASE \E c \in Commands : Begin(p, c)
  <2>1. PICK c \in Commands : Begin(p, c)
    BY <1>2
  <2>2. /\ pc[p] = "idle" /\ cmd'[p] = c /\ store' = store
        /\ c.kind = "updateTools" => todo'[p] = {s \in Tool : Owned(store, s)}
        /\ copy' = copy /\ plan' = plan /\ res' = res /\ due' = due
        /\ \A q \in Proc \ {p} : cmd'[q] = cmd[q] /\ todo'[q] = todo[q]
    BY <2>1 DEF TypeOK, Begin, Goto, sysVars
  <2>3. plan[p] = {}
    BY <2>2 DEF Quiet
  <2>4. HandsOff(p, t)'
    BY <1>1, <2>2, <2>3 DEF HandsOff, Owned
  <2>5. QED BY <1>1, <2>2, <2>4, OnlyHandsOf DEF Owned
<1>3. CASE \E c \in Commands, i \in DOMAIN history : BeginRollback(p, c, i)
  <2>1. PICK c \in Commands, i \in DOMAIN history : BeginRollback(p, c, i)
    BY <1>3
  <2>2. /\ cmd'[p] = c /\ c.kind = "rollback" /\ store' = store
        /\ plan'[p] = {[op |-> "remove", tool |-> s] : s \in UndoneBy(history[i])}
        /\ copy' = copy /\ res' = res /\ due' = due /\ todo' = todo
        /\ \A q \in Proc \ {p} : cmd'[q] = cmd[q] /\ plan'[q] = plan[q]
    BY <2>1 DEF TypeOK, BeginRollback, Goto, sysVars
  <2>3. \A a \in plan'[p] : a.op = "remove"
    BY <2>2
  <2>4. HandsOff(p, t)'
    BY <1>1, <2>2, <2>3 DEF HandsOff, Owned
  <2>5. QED BY <1>1, <2>2, <2>4, OnlyHandsOf DEF Owned
<1>4. CASE \E s \in todo[p] : PlanTool(p, s)
  <2>1. PICK s \in todo[p] : PlanTool(p, s)
    BY <1>4
  <2>2. s = t => ~InstallWanted(cmd[p], s) /\ (cmd[p].kind = "profileRemove" => ~RemoveWanted(cmd[p], s))
    BY <1>1 DEF InstallWanted, RemoveWanted, PlanToolInstall, PlanProfileRemove, Installed,
               MeetsMinimum, HandsOff
  <2>3. PICK actions :
          /\ Planned(p, s, actions)
          /\ \A a \in actions : a.tool = s /\ (s = t => a.op = "remove" /\ cmd[p].kind # "profileRemove")
    <3>1. CASE InstallWanted(cmd[p], s) /\ Planned(p, s, {[op |-> "install", tool |-> s]})
      BY <2>2, <3>1
    <3>2. CASE RemoveWanted(cmd[p], s) /\ Planned(p, s, {[op |-> "remove", tool |-> s]})
      BY <2>2, <3>2
    <3>3. CASE Planned(p, s, {})
      BY <3>3
    <3>4. QED BY <2>1, <3>1, <3>2, <3>3 DEF PlanTool
  <2>4. /\ plan'[p] = plan[p] \cup actions /\ todo'[p] \subseteq todo[p] /\ store' = store
        /\ copy' = copy /\ res' = res /\ due' = due /\ cmd' = cmd
        /\ \A q \in Proc \ {p} : plan'[q] = plan[q] /\ todo'[q] = todo[q]
    BY <2>3 DEF TypeOK, Planned, sysVars
  <2>5. HandsOff(p, t)'
    BY <1>1, <2>3, <2>4 DEF HandsOff, Owned
  <2>6. QED BY <1>1, <2>4, <2>5, OnlyHandsOf DEF Owned
<1>5. CASE Exit(p) /\ store' = store
  BY <1>1, <1>5, ExitHandsOff DEF Owned
<1>6. CASE UNCHANGED <<store, copy, plan, res, due, cmd, todo>>
  BY <1>1, <1>6 DEF HandsOff, Owned
<1>7. CASE EndPlan(p) \/ Proceed(p) \/ EndOwnership(p)
  BY <1>5, <1>6, <1>7 DEF EndPlan, Proceed, EndOwnership, sysVars, procVars
<1>8. CASE Decline(p) \/ AppendHistory(p) \/ Crash(p)
  BY <1>5, <1>8 DEF Decline, AppendHistory, Crash, sysVars
<1>9. ASSUME NEW a \in plan[p], NEW report, Finished(p, a, report)
      PROVE  ~Owned(store, t)' /\ \A q \in Proc : HandsOff(q, t)'
  <2> DEFINE new == [op |-> a.op, tool |-> a.tool, ok |-> report.ok, already |-> report.already]
  <2>1. /\ res'[p] = res[p] \cup {new} /\ store' = store /\ copy' = copy /\ plan' = plan
        /\ due' = due /\ cmd' = cmd /\ todo' = todo /\ \A q \in Proc \ {p} : res'[q] = res[q]
    BY <1>9 DEF TypeOK, Finished
  <2>2. new.op = a.op /\ new.tool = a.tool
    OBVIOUS
  <2> HIDE DEF new
  <2>3. HandsOff(p, t)'
    BY <1>1, <2>1, <2>2 DEF HandsOff, Owned
  <2>4. QED BY <1>1, <2>1, <2>3, OnlyHandsOf DEF Owned
<1>10. CASE \/ \E a \in plan[p] : \E report \in InstallReports(pkg[a.tool]) : ExecuteInstall(p, a, report)
            \/ \E a \in plan[p] : \E report \in RemoveReports(pkg[a.tool]) : ExecuteRemove(p, a, report)
  BY <1>9, <1>10 DEF ExecuteInstall, ExecuteRemove
<1>11. CASE EndRun(p)
  <2>1. /\ due'[p] = DueOf(res[p]) /\ store' = store /\ copy' = copy /\ plan' = plan /\ res' = res
        /\ cmd' = cmd /\ todo' = todo /\ \A q \in Proc \ {p} : due'[q] = due[q]
    BY <1>11 DEF TypeOK, EndRun, sysVars
  <2>2. HandsOff(p, t)'
    BY <1>1, <2>1 DEF HandsOff, Owned, DueOf
  <2>3. QED BY <1>1, <2>1, <2>2, OnlyHandsOf DEF Owned
<1>12. CASE LoadState(p)
  <2>1. /\ copy'[p] = store /\ store' = store /\ due' = due /\ plan' = plan /\ res' = res
        /\ cmd' = cmd /\ todo' = todo /\ \A q \in Proc \ {p} : copy'[q] = copy[q]
    BY <1>12 DEF TypeOK, LoadState, sysVars
  <2>2. HandsOff(p, t)'
    BY <1>1, <2>1 DEF HandsOff, Owned
  <2>3. QED BY <1>1, <2>1, <2>2, OnlyHandsOf DEF Owned
<1>13. CASE \E r \in due[p] : SaveState(p, r)
  <2>1. PICK r \in due[p] : SaveState(p, r)
    BY <1>13
  <2>2. /\ copy'[p] = NoEntries /\ due'[p] \subseteq due[p] /\ plan' = plan /\ res' = res
        /\ cmd' = cmd /\ todo' = todo /\ \A q \in Proc \ {p} : copy'[q] = copy[q] /\ due'[q] = due[q]
        /\ store' = IF r.op = "install" THEN RecordInstalled(copy[p], r.tool, cmd[p].profile)
                                        ELSE RecordRemoved(copy[p], r.tool)
    BY <2>1 DEF TypeOK, SaveState
  <2>3. HandsOff(p, t)'
    BY <1>1, <2>2 DEF HandsOff, Owned, NoEntries
  <2>4. copy[p] \in [Tool -> Entry] /\ ~Owned(copy[p], t) /\ (r.tool = t => r.op = "remove")
    BY <1>1 DEF HandsOff, TypeOK
  <2>5. ~Owned(store, t)'
    BY <2>2, <2>4 DEF Owned, RecordInstalled, RecordRemoved
  <2>6. QED BY <1>1, <2>2, <2>3, <2>5, OnlyHandsOf
<1>14. QED BY StepCases, <1>2, <1>3, <1>4, <1>7, <1>8, <1>10, <1>11, <1>12, <1>13

LEMMA NativeInvariant == ProvSpec => []NativeUnclaimed
<1>1. ProvInit => NativeUnclaimed
  <2> SUFFICES ASSUME ProvInit PROVE NativeUnclaimed
    OBVIOUS
  <2>1. /\ store = NoEntries /\ native = {t \in Tool : pkg[t] # "absent"}
        /\ \A p \in Proc : /\ cmd[p].kind = "none" /\ plan[p] = {} /\ res[p] = {} /\ due[p] = {}
                           /\ copy[p] = NoEntries
    BY DEF ProvInit, Init, Installed, Idle
  <2>2. \A t \in native : Unclaimed(t)
    BY <2>1 DEF Unclaimed, HandsOff, Owned, NoEntries
  <2>3. QED BY <2>1, <2>2 DEF NativeUnclaimed
<1>2. TypeOK /\ Quiet /\ NativeUnclaimed /\ [ProvNext]_allVars => NativeUnclaimed'
  <2> SUFFICES ASSUME TypeOK, Quiet, NativeUnclaimed, [ProvNext]_allVars PROVE NativeUnclaimed'
    OBVIOUS
  <2>1. CASE NativeNext /\ \E p \in Proc : Step(p)
    <3>1. PICK p \in Proc : Step(p)
      BY <2>1
    <3>2. outside' = outside
      BY <3>1, StepCases DEF Begin, BeginRollback, PlanTool, Planned, EndPlan, Proceed, Decline,
        ExecuteInstall, ExecuteRemove, Finished, EndRun, LoadState, SaveState, EndOwnership,
        AppendHistory, Crash, bounds
    <3>3. native' \subseteq native /\ \A t \in native' : pkg'[t] # "absent"
      BY <2>1, <3>2 DEF NativeNext
    <3>4. ASSUME outside = 0, NEW t \in native' \ Versioned PROVE Unclaimed(t)'
      <4>1. t \in Tool \ Versioned /\ Unclaimed(t)
        BY <3>3, <3>4 DEF NativeUnclaimed
      <4>2. ~Owned(store, t)' /\ \A q \in Proc : HandsOff(q, t)'
        BY <3>1, <4>1, StepUnclaimed
      <4>3. QED BY <3>3, <4>2 DEF Unclaimed
    <3>5. QED BY <3>2, <3>3, <3>4 DEF NativeUnclaimed
  <2>2. CASE NativeNext /\ \E t \in Tool, v \in Version : Outside(t, v)
    <3>1. outside' = outside + 1 /\ outside \in Nat
      BY <2>2 DEF Outside, TypeOK
    <3>2. native' \subseteq Tool
      BY <2>2 DEF NativeNext
    <3>3. QED BY <3>1, <3>2 DEF NativeUnclaimed
  <2>3. CASE UNCHANGED allVars
    BY <2>3 DEF NativeUnclaimed, Unclaimed, HandsOff, Owned, allVars, provVars, vars, sysVars,
                procVars, bounds
  <2>4. QED BY <2>1, <2>2, <2>3 DEF ProvNext, Next
<1>3. QED BY <1>1, <1>2, ProvIsWorkflow, TypeCorrect, QuietInvariant, PTL DEF ProvSpec

\* docs/profiles.md:59: of the tools without a minimum_version, profile remove
\* removes none that was there before hallfix, as long as nobody changes
\* packages outside hallfix: for any number of processes racing for
\* state.json, whatever fails or is killed, in any language.
THEOREM PreexistingKeptSound == ProvSpec => KeptUnlessUpgraded
<1> DEFINE A == \A p \in Proc, t \in Tool :
                  ProfileRemoves(p, t) /\ outside = 0 /\ t \notin Versioned => t \notin native
<1>1. TypeOK /\ NativeUnclaimed /\ [ProvNext]_allVars => [A]_allVars
  <2> SUFFICES ASSUME TypeOK, NativeUnclaimed, ProvNext, NEW p \in Proc, NEW t \in Tool \ Versioned,
                      ProfileRemoves(p, t), outside = 0, t \in native
               PROVE  FALSE
    OBVIOUS
  <2>1. Next /\ Acts(p, t) /\ cmd[p].kind = "profileRemove"
    BY DEF ProvNext, ProfileRemoves
  <2>2. \E a \in plan[p] : a.tool = t
    BY <2>1, OnlyExecutionActs
  <2>3. HandsOff(p, t)
    BY DEF NativeUnclaimed, Unclaimed
  <2>4. QED BY <2>1, <2>2, <2>3 DEF HandsOff
<1>2. QED BY <1>1, NativeInvariant, ProvIsWorkflow, TypeCorrect, PTL DEF ProvSpec, KeptUnlessUpgraded
=============================================================================
