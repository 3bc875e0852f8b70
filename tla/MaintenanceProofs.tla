------------------------- MODULE MaintenanceProofs -------------------------
(***************************************************************************)
(* Proofs about Maintenance, for any number of processes, any host, disks, *)
(* commands and thresholds.                                                *)
(***************************************************************************)
EXTENDS Maintenance, TLAPS

Full(disk) == \E f \in disk : f.type # "squashfs" /\ f.used >= HighAt

Fixing(p) == cmd[p].kind \in {"fix", "repair"}

\* The history tells of a repair or upgrade that p has run.
InHistory(p) ==
  \E i \in DOMAIN history :
    history[i] = [kind |-> cmd[p].kind, plan |-> plan[p], dry |-> FALSE, outcome |-> outcome[p]]

\* What p has read of the disks and the network, against what there was.
Seen(p) ==
  pc[p] \in {"lock", "dns", "audit", "judge"} =>
    /\ Full(ctx[p].disk) => "disk" \in ever[p]
    /\ ~Full(ctx[p].disk) => "disk" \notin always[p]
    /\ IF ctx[p].online THEN "offline" \notin always[p] ELSE "dns" \notin always[p]

\* What it has read of the resolver.
Resolved(p) ==
  pc[p] \in {"audit", "judge"} =>
    IF ctx[p].dns = "fails" THEN "dns" \in ever[p] \/ "offline" \in ever[p] \ always[p]
    ELSE "dns" \notin always[p]

\* A repair was planned for packages that had been broken.
Needed(p) == plan[p] = "repair" => "packages" \in ever[p]

\* What a command has decided on its way.
Planned(p) ==
  /\ pc[p] \in {"detect", "lock", "dns", "audit", "judge"} => cmd[p].kind # "updateSystem"
  /\ pc[p] \in {"plan", "confirm", "run", "log"} => Fixing(p) \/ cmd[p].kind = "updateSystem"
  /\ pc[p] \in {"confirm", "run", "log"} =>
       plan[p] \in {"none", IF cmd[p].kind = "updateSystem" THEN "upgrade" ELSE "repair"}
  /\ pc[p] \in {"confirm", "run"} => plan[p] # "none" /\ ~cmd[p].dry
  /\ pc[p] = "run" /\ plan[p] = "upgrade" => answer[p] # "none"

\* What became of what it ran.
RanOnce(p) ==
  /\ outcome[p] # "none" => pc[p] \in {"log", "idle"}
  /\ pc[p] = "log" /\ outcome[p] # "none" => plan[p] # "none" /\ ~cmd[p].dry
  /\ pc[p] = "idle" /\ outcome[p] # "none" /\ exit[p] # "killed" => exit[p] = outcome[p] /\ InHistory(p)

\* A command about broken packages that sees nothing to repair, or has come
\* to its end without a repair, has been there while they were consistent.
Fixed(p) ==
  /\ Manager = "apt" /\ Family = "debian" /\ Repairs(p) /\ ~blind[p]
  /\ \/ pc[p] = "judge" /\ ctx[p].packages # "broken"
     \/ pc[p] = "log" /\ ~cmd[p].dry /\ outcome[p] = "none"
     \/ Ended(p, {"fix", "repair"}, "ok") /\ ~cmd[p].dry /\ outcome[p] # "ok"
  => "packages" \notin always[p]

DoctorRight(p) ==
  /\ Ended(p, {"doctor", "networkDoctor"}, "failed") =>
       ever[p] \cap Watched(p) # {} \/ "offline" \in ever[p] \ always[p]
  /\ Ended(p, {"doctor", "networkDoctor"}, "ok") => always[p] \cap Watched(p) = {}

\* A problem that has been there all along is there now, and one that is
\* there now has been there in a command that is running.
Lasting(p) ==
  /\ always[p] \subseteq Problems(machine)
  /\ pc[p] # "idle" => Problems(machine) \subseteq ever[p]

ProcInv(p) ==
  /\ Seen(p) /\ Resolved(p) /\ Needed(p) /\ Planned(p) /\ RanOnce(p)
  /\ Fixed(p) /\ DoctorRight(p) /\ Lasting(p)

MaintenanceInv == MaintenanceTypeOK /\ \A p \in Proc : ProcInv(p)

-----------------------------------------------------------------------------
(* The checks.                                                             *)

LEMMA ProblemsOf ==
  ASSUME NEW m
  PROVE  /\ Problems(m) \subseteq Problem
         /\ "disk" \in Problems(m) <=> Full(m.disk)
         /\ "dns" \in Problems(m) <=> m.online /\ ~m.resolver
         /\ "offline" \in Problems(m) <=> ~m.online
         /\ "packages" \in Problems(m) <=> m.broken
BY DEF Problems, Problem, Full

\* Broken packages are to be fixed by a command that is about them.
LEMMA BrokenIsToFix ==
  ASSUME NEW p \in Proc, Repairs(p), ctx[p].packages = "broken"
  PROVE  ToFix(p) # {}
<1> DEFINE r == CheckPackageBrokenState(ctx[p])
<1>1. r = Fixable("package.broken_state", "WARNING", BrokenStateFix)
  BY DEF CheckPackageBrokenState
<1>2. r.id = "package.broken_state" /\ r.fix # NoFix
  BY <1>1 DEF Fixable, BrokenStateFix, NoFix
<1>3. r \in Diagnosed(p)
  BY DEF Diagnosed, DefaultChecks, Repairs
<1> HIDE DEF r
<1>4. r \in ToFix(p)
  BY <1>2, <1>3 DEF ToFix, Chosen, Repairs
<1>5. QED BY <1>4

Bad == {"ERROR", "CRITICAL"}

\* Two checks find errors.
LEMMA OnlyDiskAndDns ==
  ASSUME NEW c \in Context
  PROVE  /\ \A r \in DefaultChecks(c) : r.severity \in Bad => r \in {CheckDisk(c), CheckDnsResolution(c)}
         /\ \A r \in NetworkChecks(c) : r.severity \in Bad => r = CheckDnsResolution(c)
         /\ CheckDisk(c) \in DefaultChecks(c) /\ CheckDnsResolution(c) \in DefaultChecks(c)
         /\ CheckDnsResolution(c) \in NetworkChecks(c)
<1>1. \A r \in NetworkChecks(c) : r.severity \in Bad => r = CheckDnsResolution(c)
  BY DEF Bad, NetworkChecks, Result, OrWarning, CheckNetworkInterfaces, CheckDefaultGateway,
     CheckDnsConfigured, CheckInternetConnectivity
<1>2. \A r \in {CheckOS(c), CheckKernel(c), CheckEnvironment(c), CheckCPU(c), CheckRAM(c), CheckSudo(c),
                CheckServiceManager(c)} : r.severity \notin Bad
  BY DEF Bad, Result, OrWarning, CheckOS, CheckKernel, CheckEnvironment, CheckCPU, CheckRAM, CheckSudo,
     CheckServiceManager
<1>3. c.packages \in {"unchecked", "consistent", "broken"}
  BY DEF Context
<1>4. \A r \in {CheckPackageBrokenState(c), CheckPackageManager(c), CheckPackageManagerLock(c), CheckGit(c),
                CheckDocker(c), CheckSSH(c), CheckEnvironmentVariables(c)} : r.severity \notin Bad
  BY <1>3 DEF Bad, Result, Fixable, OrWarning, CheckPackageBrokenState, CheckPackageManager,
     CheckPackageManagerLock, Presence, CheckGit, CheckDocker, CheckSSH, CheckEnvironmentVariables
<1>5. QED BY <1>1, <1>2, <1>4 DEF DefaultChecks, NetworkChecks

LEMMA DiskIsBad ==
  ASSUME NEW c \in Context
  PROVE  CheckDisk(c).severity \in Bad <=> Full(c.disk)
<1> DEFINE used == {f.used : f \in {x \in c.disk : x.type # "squashfs"}}
<1>1. \A u \in used : u \in 0 .. 100
  BY DEF Context, Filesystem
<1>2. Reaches(used, CriticalAt) => Reaches(used, HighAt)
  BY <1>1, ThresholdsAssumption DEF Reaches
<1>3. Reaches(used, HighAt) <=> Full(c.disk)
  BY DEF Reaches, Full
<1>4. used = {} => ~Reaches(used, HighAt)
  BY DEF Reaches
<1>5. CheckDisk(c).severity = DiskSeverity(used)
  BY DEF CheckDisk, Result
<1> HIDE DEF used
<1>6. DiskSeverity(used) \in Bad <=> Reaches(used, HighAt)
  BY <1>2, <1>4 DEF DiskSeverity, OrWarning, Bad
<1>7. QED BY <1>3, <1>5, <1>6

\* What makes a doctor exit 1.
LEMMA Sick ==
  ASSUME NEW c \in Context
  PROVE  /\ Unhealthy(DefaultChecks(c)) <=> Full(c.disk) \/ c.dns = "fails"
         /\ Unhealthy(NetworkChecks(c)) <=> c.dns = "fails"
<1>1. \A results : Unhealthy(results) <=> \E r \in results : r.severity \in Bad
  BY DEF Unhealthy, AggregateHealth, Has, Bad
<1>2. CheckDnsResolution(c).severity \in Bad <=> c.dns = "fails"
  <2>1. c.dns \in {"untested", "resolves", "fails"}
    BY DEF Context
  <2>2. QED BY <2>1 DEF CheckDnsResolution, Result, Bad
<1>3. QED BY <1>1, <1>2, OnlyDiskAndDns, DiskIsBad

-----------------------------------------------------------------------------
(* Types.                                                                  *)

Pc == {"idle", "detect", "lock", "dns", "audit", "judge", "plan", "confirm", "run", "log"}

LEMMA BecomesType ==
  ASSUME MaintenanceTypeOK, NEW m \in Machine, Becomes(m)
  PROVE  /\ machine' \in Machine /\ blind' \in [Proc -> BOOLEAN]
         /\ always' \in [Proc -> SUBSET Problem] /\ ever' \in [Proc -> SUBSET Problem]
<1>1. Problems(m) \subseteq Problem
  BY DEF Problems
<1>2. QED BY <1>1 DEF Becomes, MaintenanceTypeOK

LEMMA GotoType ==
  ASSUME MaintenanceTypeOK, NEW p \in Proc, NEW from, NEW to \in Pc, Goto(p, from, to)
  PROVE  pc' \in [Proc -> Pc]
BY DEF MaintenanceTypeOK, Goto, Pc

LEMMA ExitType ==
  ASSUME MaintenanceTypeOK, NEW p \in Proc, NEW code \in {"ok", "failed", "killed"}, Exit(p, code)
  PROVE  pc' \in [Proc -> Pc] /\ exit' \in [Proc -> {"none", "ok", "failed", "killed"}]
BY DEF MaintenanceTypeOK, Exit, Pc

LEMMA ProbedType ==
  ASSUME MaintenanceTypeOK, NEW p \in Proc, NEW from, NEW to \in Pc, NEW c \in Context,
         Probed(p, from, to, c), blind' \in [Proc -> BOOLEAN]
  PROVE  MaintenanceTypeOK'
<1>1. pc' \in [Proc -> Pc]
  BY GotoType DEF Probed
<1>2. QED BY <1>1 DEF Probed, MaintenanceTypeOK, Pc

LEMMA TypeStep == MaintenanceTypeOK /\ [MaintenanceNext]_vars => MaintenanceTypeOK'
<1> SUFFICES ASSUME MaintenanceTypeOK, [MaintenanceNext]_vars PROVE MaintenanceTypeOK'
  OBVIOUS
<1>1. ASSUME NEW p \in Proc, NEW c \in Commands, Begin(p, c) PROVE MaintenanceTypeOK'
  <2>1. pc' \in [Proc -> Pc]
    <3>1. PICK to \in {"plan", "detect"} : Goto(p, "idle", to)
      BY <1>1 DEF Begin
    <3>2. QED BY <3>1, GotoType DEF Pc
  <2>2. Problems(machine) \subseteq Problem
    BY DEF Problems
  <2>3. begun' \in 0 .. MaxCommands
    BY <1>1, MaintenanceAssumption DEF Begin, MaintenanceTypeOK
  <2>4. c \in Command
    BY MaintenanceAssumption
  <2>5. QED
    BY <1>1, <2>1, <2>2, <2>3, <2>4, MaintenanceAssumption DEF Begin, MaintenanceTypeOK, Pc, Plan
<1>2. ASSUME NEW p \in Proc, Detect(p) PROVE MaintenanceTypeOK'
  <2>1. machine \in Machine
    BY DEF MaintenanceTypeOK
  <2>2. SystemSeen \in Context
    BY <2>1, MaintenanceAssumption DEF SystemSeen, Context, Machine
  <2>3. blind' \in [Proc -> BOOLEAN]
    BY <1>2 DEF Detect, MaintenanceTypeOK
  <2>4. QED BY <1>2, <2>2, <2>3, ProbedType DEF Detect, Pc
<1>3. ASSUME NEW p \in Proc, CheckLock(p) PROVE MaintenanceTypeOK'
  <2>1. ctx[p] \in Context /\ LockSeen \in {"unchecked", "free", "held"}
    BY DEF MaintenanceTypeOK, LockSeen
  <2>2. [ctx[p] EXCEPT !.lock = LockSeen] \in Context
    BY <2>1 DEF Context
  <2>3. blind' \in [Proc -> BOOLEAN]
    BY <1>3 DEF CheckLock, MaintenanceTypeOK
  <2>4. QED BY <1>3, <2>2, <2>3, ProbedType DEF CheckLock, Pc
<1>4. ASSUME NEW p \in Proc, ProbeDns(p) PROVE MaintenanceTypeOK'
  <2> DEFINE dns == IF ~ctx[p].online THEN "untested"
                    ELSE IF machine.online /\ machine.resolver THEN "resolves" ELSE "fails"
  <2>1. ctx[p] \in Context
    BY DEF MaintenanceTypeOK
  <2>2. [ctx[p] EXCEPT !.dns = dns] \in Context
    BY <2>1 DEF Context
  <2>3. blind' \in [Proc -> BOOLEAN]
    BY <1>4 DEF ProbeDns, MaintenanceTypeOK
  <2>4. QED BY <1>4, <2>2, <2>3, ProbedType DEF ProbeDns, Pc
<1>5. ASSUME NEW p \in Proc, Audit(p) PROVE MaintenanceTypeOK'
  <2>1. PICK audit \in Audits :
          /\ Probed(p, "audit", "judge",
                    [ctx[p] EXCEPT !.packages = IF Manager # "apt" THEN "unchecked"
                                                ELSE IF audit.broken THEN "broken" ELSE "consistent"])
          /\ blind' = [blind EXCEPT ![p] = ~audit.read]
    BY <1>5 DEF Audit
  <2> DEFINE packages == IF Manager # "apt" THEN "unchecked"
                         ELSE IF audit.broken THEN "broken" ELSE "consistent"
  <2>2. ctx[p] \in Context
    BY DEF MaintenanceTypeOK
  <2>3. [ctx[p] EXCEPT !.packages = packages] \in Context
    BY <2>2 DEF Context
  <2>4. blind' \in [Proc -> BOOLEAN]
    BY <2>1, Zenon DEF MaintenanceTypeOK
  <2>5. QED BY <2>1, <2>3, <2>4, ProbedType DEF Pc
<1>6. ASSUME NEW p \in Proc, NEW code \in {"ok", "failed", "killed"}, Exit(p, code),
             UNCHANGED <<machine, cmd, ctx, plan, answer, outcome, begun, changes, ghosts>>,
             history' \in Seq(Record)
      PROVE  MaintenanceTypeOK'
  BY <1>6, ExitType DEF MaintenanceTypeOK, Pc, ghosts
<1>7. ASSUME NEW p \in Proc, ReportHealth(p) \/ FixNothing(p) \/ Decline(p) \/ Kill(p)
      PROVE  MaintenanceTypeOK'
  <2>1. \E code \in {"ok", "failed", "killed"} : Exit(p, code)
    BY <1>7 DEF ReportHealth, FixNothing, Decline, Kill
  <2>2. UNCHANGED <<machine, cmd, ctx, plan, answer, outcome, history, begun, changes, ghosts>>
    BY <1>7 DEF ReportHealth, FixNothing, Decline, Kill
  <2>3. history' \in Seq(Record)
    BY <2>2 DEF MaintenanceTypeOK
  <2>4. QED BY <1>6, <2>1, <2>2, <2>3
<1>8. ASSUME NEW p \in Proc, Log(p) PROVE MaintenanceTypeOK'
  <2>1. Recorded(p) \in Record
    BY DEF Recorded, Record, MaintenanceTypeOK, Command
  <2>2. history' \in Seq(Record)
    BY <1>8, <2>1 DEF Log, MaintenanceTypeOK
  <2>3. ExitCode(p) \in {"ok", "failed", "killed"}
    BY DEF ExitCode
  <2>4. QED BY <1>6, <1>8, <2>2, <2>3 DEF Log
<1>9. ASSUME NEW p \in Proc, ApplyFix(p) PROVE MaintenanceTypeOK'
  <2>1. pc' \in [Proc -> Pc]
    BY <1>9, GotoType DEF ApplyFix, Pc
  <2>2. QED BY <1>9, <2>1 DEF ApplyFix, MaintenanceTypeOK, Pc, procVars, ghosts
<1>10. ASSUME NEW p \in Proc, MakePlan(p) PROVE MaintenanceTypeOK'
  <2>1. pc' \in [Proc -> Pc]
    BY <1>10 DEF MakePlan, MaintenanceTypeOK, Pc
  <2>2. \E pl \in Plan : plan' = [plan EXCEPT ![p] = pl]
    BY <1>10 DEF MakePlan, Plan
  <2>3. plan' \in [Proc -> Plan]
    BY <2>2 DEF MaintenanceTypeOK
  <2>4. blind' \in [Proc -> BOOLEAN]
    BY <1>10 DEF MakePlan, MaintenanceTypeOK
  <2>5. QED BY <1>10, <2>1, <2>3, <2>4 DEF MakePlan, MaintenanceTypeOK, Pc
<1>11. ASSUME NEW p \in Proc, Proceed(p) PROVE MaintenanceTypeOK'
  <2>1. pc' \in [Proc -> Pc]
    BY <1>11, GotoType DEF Proceed, Pc
  <2>2. QED BY <1>11, <2>1 DEF Proceed, MaintenanceTypeOK, Pc, ghosts
<1>12. ASSUME NEW p \in Proc, NEW ok \in BOOLEAN, NEW broken \in BOOLEAN, Run(p, ok, broken)
       PROVE  MaintenanceTypeOK'
  <2>1. pc' \in [Proc -> Pc]
    BY <1>12, GotoType DEF Run, Pc
  <2>2. [machine EXCEPT !.broken = broken] \in Machine
    BY DEF MaintenanceTypeOK, Machine
  <2>3. /\ machine' \in Machine /\ blind' \in [Proc -> BOOLEAN]
        /\ always' \in [Proc -> SUBSET Problem] /\ ever' \in [Proc -> SUBSET Problem]
    BY <1>12, <2>2, BecomesType DEF Run
  <2>4. QED BY <1>12, <2>1, <2>3 DEF Run, MaintenanceTypeOK, Pc
<1>13. ASSUME NEW m \in Machine, Elsewhere(m) PROVE MaintenanceTypeOK'
  <2>1. changes' \in 0 .. MaxChanges
    BY <1>13, MaintenanceAssumption DEF Elsewhere, MaintenanceTypeOK
  <2>2. QED BY <1>13, <2>1, BecomesType DEF Elsewhere, MaintenanceTypeOK, procVars
<1>14. CASE UNCHANGED vars
  BY <1>14 DEF vars, procVars, ghosts, MaintenanceTypeOK
<1>15. QED
  BY <1>1, <1>2, <1>3, <1>4, <1>5, <1>7, <1>8, <1>9, <1>10, <1>11, <1>12, <1>13, <1>14
     DEF MaintenanceNext, Step

LEMMA InitType == MaintenanceInit => MaintenanceTypeOK
<1> SUFFICES ASSUME MaintenanceInit PROVE MaintenanceTypeOK
  OBVIOUS
<1>1. Idle \in Command
  BY DEF Idle, Command, Kind
<1>2. 0 \in 0 .. MaxCommands /\ 0 \in 0 .. MaxChanges /\ << >> \in Seq(Record)
  BY MaintenanceAssumption
<1>3. QED BY <1>1, <1>2, MaintenanceAssumption DEF MaintenanceInit, MaintenanceTypeOK, Plan

\* A diagnosis is assembled from values its checks know, and each command's
\* plan, answer, outcome and record are of their kinds.
THEOREM MaintenanceTypeCorrect == MaintenanceSpec => []MaintenanceTypeOK
BY InitType, TypeStep, PTL DEF MaintenanceSpec

-----------------------------------------------------------------------------
(* The invariant. A step of one process leaves the others where they are;  *)
(* what they have seen stays true of their past, because `always` only     *)
(* shrinks, `ever` only grows and the history only gets longer.            *)

Grows == \A r : (\E i \in DOMAIN history : history[i] = r) => \E i \in DOMAIN history' : history'[i] = r

LEMMA OthersStay ==
  ASSUME NEW q \in Proc, ProcInv(q), Grows,
         pc'[q] = pc[q], cmd'[q] = cmd[q], ctx'[q] = ctx[q], plan'[q] = plan[q], answer'[q] = answer[q],
         outcome'[q] = outcome[q], exit'[q] = exit[q], blind'[q] = blind[q],
         always'[q] \subseteq always[q], ever[q] \subseteq ever'[q],
         always'[q] \subseteq Problems(machine'), pc[q] # "idle" => Problems(machine') \subseteq ever'[q]
  PROVE  ProcInv(q)'
<1>1. Seen(q)' /\ Resolved(q)' /\ Lasting(q)'
  BY DEF ProcInv, Seen, Resolved, Lasting
<1>2. Needed(q)' /\ Planned(q)'
  BY DEF ProcInv, Needed, Planned, Fixing
<1>3. InHistory(q) => InHistory(q)'
  BY DEF InHistory, Grows
<1>4. RanOnce(q)'
  BY <1>3 DEF ProcInv, RanOnce
<1>5. Fixed(q)'
  BY DEF ProcInv, Fixed, Repairs, Ended
<1>6. DoctorRight(q)'
  BY DEF ProcInv, DoctorRight, Ended, Watched
<1>7. QED BY <1>1, <1>2, <1>4, <1>5, <1>6 DEF ProcInv

LEMMA OnlyP ==
  ASSUME MaintenanceInv, MaintenanceTypeOK', NEW p \in Proc, ProcInv(p)', Grows,
         \A q \in Proc \ {p} :
           /\ pc'[q] = pc[q] /\ cmd'[q] = cmd[q] /\ ctx'[q] = ctx[q] /\ plan'[q] = plan[q]
           /\ answer'[q] = answer[q] /\ outcome'[q] = outcome[q] /\ exit'[q] = exit[q] /\ blind'[q] = blind[q]
           /\ always'[q] \subseteq always[q] /\ ever[q] \subseteq ever'[q]
           /\ always'[q] \subseteq Problems(machine')
           /\ pc[q] # "idle" => Problems(machine') \subseteq ever'[q]
  PROVE  MaintenanceInv'
BY OthersStay DEF MaintenanceInv

\* The same for a step that leaves the machine alone.
LEMMA Quiet ==
  ASSUME MaintenanceInv, MaintenanceTypeOK', NEW p \in Proc, ProcInv(p)', Grows, machine' = machine,
         \A q \in Proc \ {p} :
           /\ pc'[q] = pc[q] /\ cmd'[q] = cmd[q] /\ ctx'[q] = ctx[q] /\ plan'[q] = plan[q]
           /\ answer'[q] = answer[q] /\ outcome'[q] = outcome[q] /\ exit'[q] = exit[q] /\ blind'[q] = blind[q]
           /\ always'[q] = always[q] /\ ever'[q] = ever[q]
  PROVE  MaintenanceInv'
<1>1. \A q \in Proc : /\ always[q] \subseteq Problems(machine)
                      /\ pc[q] # "idle" => Problems(machine) \subseteq ever[q]
  BY DEF MaintenanceInv, ProcInv, Lasting
<1>2. QED BY <1>1, OnlyP

LEMMA BeginKeeps ==
  ASSUME MaintenanceInv, MaintenanceTypeOK', NEW p \in Proc, NEW c \in Commands, Begin(p, c)
  PROVE  MaintenanceInv'
<1>1. /\ pc' = [pc EXCEPT ![p] = IF c.kind = "updateSystem" THEN "plan" ELSE "detect"]
      /\ cmd' = [cmd EXCEPT ![p] = c] /\ ctx' = [ctx EXCEPT ![p] = Host]
      /\ plan' = [plan EXCEPT ![p] = "none"] /\ answer' = [answer EXCEPT ![p] = "none"]
      /\ outcome' = [outcome EXCEPT ![p] = "none"] /\ exit' = [exit EXCEPT ![p] = "none"]
      /\ always' = [always EXCEPT ![p] = Problems(machine)] /\ ever' = [ever EXCEPT ![p] = Problems(machine)]
      /\ blind' = [blind EXCEPT ![p] = FALSE] /\ machine' = machine /\ history' = history
  BY DEF Begin, Goto
<1>2. /\ pc'[p] = IF c.kind = "updateSystem" THEN "plan" ELSE "detect"
      /\ cmd'[p] = c /\ plan'[p] = "none" /\ outcome'[p] = "none" /\ exit'[p] = "none"
      /\ always'[p] = Problems(machine) /\ ever'[p] = Problems(machine)
  BY <1>1 DEF MaintenanceInv, MaintenanceTypeOK
<1>3. Seen(p)' /\ Resolved(p)' /\ Needed(p)' /\ Planned(p)' /\ RanOnce(p)' /\ Fixed(p)'
      /\ DoctorRight(p)' /\ Lasting(p)'
  BY <1>1, <1>2 DEF Seen, Resolved, Needed, Fixing, Planned, RanOnce, Fixed, DoctorRight, Ended, Lasting
<1>4. QED BY <1>1, <1>3, Quiet DEF ProcInv, Grows, MaintenanceInv, MaintenanceTypeOK

\* A probe keeps all that is not about what it reads.
LEMMA ProbedKeeps ==
  ASSUME MaintenanceInv, MaintenanceTypeOK', NEW p \in Proc, NEW from, NEW to \in {"lock", "dns", "audit", "judge"},
         NEW c, Probed(p, from, to, c), from \in {"detect", "lock", "dns", "audit"},
         \A q \in Proc \ {p} : blind'[q] = blind[q],
         Seen(p)', Resolved(p)', to = "judge" => Fixed(p)'
  PROVE  MaintenanceInv'
<1>1. /\ pc[p] = from /\ pc' = [pc EXCEPT ![p] = to] /\ ctx' = [ctx EXCEPT ![p] = c]
      /\ machine' = machine /\ cmd' = cmd /\ plan' = plan /\ answer' = answer /\ outcome' = outcome
      /\ exit' = exit /\ history' = history /\ always' = always /\ ever' = ever
  BY DEF Probed, Goto
<1>2. pc'[p] = to
  BY <1>1 DEF MaintenanceInv, MaintenanceTypeOK
<1>3. Needed(p)' /\ Planned(p)' /\ RanOnce(p)' /\ Fixed(p)' /\ DoctorRight(p)' /\ Lasting(p)'
  <2>1. ProcInv(p)
    BY DEF MaintenanceInv
  <2>2. Planned(p)'
    BY <1>1, <1>2, <2>1 DEF ProcInv, Planned, Fixing
  <2>3. Needed(p)'
    BY <1>1, <2>1 DEF ProcInv, Needed
  <2>4. RanOnce(p)'
    BY <1>1, <1>2, <2>1 DEF ProcInv, RanOnce
  <2>5. Fixed(p)' /\ DoctorRight(p)'
    BY <1>2 DEF Fixed, DoctorRight, Ended
  <2>6. Lasting(p)'
    BY <1>1, <2>1 DEF ProcInv, Lasting
  <2>7. QED BY <2>2, <2>4, <2>5, <2>6, <2>3
<1>4. QED BY <1>1, <1>3, Quiet DEF ProcInv, Grows, MaintenanceInv, MaintenanceTypeOK

LEMMA DetectKeeps ==
  ASSUME MaintenanceInv, MaintenanceTypeOK', NEW p \in Proc, Detect(p)
  PROVE  MaintenanceInv'
<1>1. /\ pc' = [pc EXCEPT ![p] = "lock"] /\ ctx' = [ctx EXCEPT ![p] = SystemSeen]
      /\ always' = always /\ ever' = ever /\ cmd' = cmd /\ exit' = exit
  BY DEF Detect, Probed, Goto
<1>2. pc'[p] = "lock" /\ ctx'[p] = SystemSeen
  BY <1>1 DEF MaintenanceInv, MaintenanceTypeOK
<1>3. SystemSeen.disk = machine.disk /\ SystemSeen.online = machine.online
  BY MaintenanceAssumption DEF SystemSeen, Context
<1>4. always[p] \subseteq Problems(machine) /\ Problems(machine) \subseteq ever[p]
  <2>1. pc[p] # "idle"
    BY DEF Detect, Probed, Goto
  <2>2. QED BY <2>1 DEF MaintenanceInv, ProcInv, Lasting
<1>5. Seen(p)' /\ Resolved(p)'
  BY <1>1, <1>2, <1>3, <1>4, ProblemsOf DEF Seen, Resolved
<1>6. QED BY <1>5, ProbedKeeps DEF Detect

LEMMA LaterProbe ==
  ASSUME MaintenanceInv, NEW p \in Proc, NEW from \in {"lock", "dns", "audit"},
         NEW to \in {"dns", "audit", "judge"}, NEW c, Probed(p, from, to, c)
  PROVE  /\ ctx[p] \in Context /\ Seen(p) /\ Resolved(p)
         /\ always[p] \subseteq Problems(machine) /\ Problems(machine) \subseteq ever[p]
         /\ pc[p] = from /\ pc'[p] = to /\ ctx'[p] = c
         /\ always' = always /\ ever' = ever /\ cmd' = cmd /\ exit' = exit
<1>1. /\ pc[p] = from /\ pc' = [pc EXCEPT ![p] = to] /\ ctx' = [ctx EXCEPT ![p] = c]
      /\ always' = always /\ ever' = ever /\ cmd' = cmd /\ exit' = exit
  BY DEF Probed, Goto
<1>2. pc'[p] = to /\ ctx'[p] = c /\ ctx[p] \in Context
  BY <1>1 DEF MaintenanceInv, MaintenanceTypeOK
<1>3. QED BY <1>1, <1>2 DEF MaintenanceInv, ProcInv, Lasting

LEMMA CheckLockKeeps ==
  ASSUME MaintenanceInv, MaintenanceTypeOK', NEW p \in Proc, CheckLock(p)
  PROVE  MaintenanceInv'
<1> DEFINE c == [ctx[p] EXCEPT !.lock = LockSeen]
<1>1. Probed(p, "lock", "dns", c) /\ blind' = blind
  BY DEF CheckLock
<1>2. ctx[p] \in Context => c.disk = ctx[p].disk /\ c.online = ctx[p].online
  BY DEF Context
<1> HIDE DEF c
<1>3. Seen(p)' /\ Resolved(p)'
  BY <1>1, <1>2, LaterProbe DEF Seen, Resolved
<1>4. QED BY <1>1, <1>3, ProbedKeeps

LEMMA ProbeDnsKeeps ==
  ASSUME MaintenanceInv, MaintenanceTypeOK', NEW p \in Proc, ProbeDns(p)
  PROVE  MaintenanceInv'
<1> DEFINE dns == IF ~ctx[p].online THEN "untested"
                  ELSE IF machine.online /\ machine.resolver THEN "resolves" ELSE "fails"
           c == [ctx[p] EXCEPT !.dns = dns]
<1>1. Probed(p, "dns", "audit", c) /\ blind' = blind
  BY DEF ProbeDns
<1>2. ctx[p] \in Context => c.disk = ctx[p].disk /\ c.online = ctx[p].online /\ c.dns = dns
  BY DEF Context
<1>3. /\ Seen(p) /\ always[p] \subseteq Problems(machine) /\ Problems(machine) \subseteq ever[p]
      /\ pc[p] = "dns" /\ ctx[p] \in Context
  BY <1>1, LaterProbe
<1>4. IF dns = "fails" THEN "dns" \in ever[p] \/ "offline" \in ever[p] \ always[p]
      ELSE "dns" \notin always[p]
  BY <1>3, ProblemsOf DEF Seen
<1> HIDE DEF dns, c
<1>5. Seen(p)' /\ Resolved(p)'
  BY <1>1, <1>2, <1>3, <1>4, LaterProbe DEF Seen, Resolved
<1>6. QED BY <1>1, <1>5, ProbedKeeps

\* What an audit says of the packages.
LEMMA AuditTells ==
  ASSUME NEW audit \in Audits
  PROVE  /\ audit.read /\ ~audit.broken => ~machine.broken
         /\ audit.broken => machine.broken
<1>1. CASE audit = [read |-> TRUE, broken |-> machine.broken]
  BY <1>1
<1>2. CASE audit = [read |-> FALSE, broken |-> FALSE]
  <2>1. ~audit.read /\ ~audit.broken
    BY <1>2
  <2>2. QED BY <2>1, Zenon
<1>3. QED BY <1>1, <1>2 DEF Audits

LEMMA AuditKeeps ==
  ASSUME MaintenanceInv, MaintenanceTypeOK', NEW p \in Proc, Audit(p)
  PROVE  MaintenanceInv'
<1> DEFINE c(audit) == [ctx[p] EXCEPT !.packages = IF Manager # "apt" THEN "unchecked"
                                                   ELSE IF audit.broken THEN "broken" ELSE "consistent"]
<1>1. PICK audit \in Audits : /\ Probed(p, "audit", "judge", c(audit))
                              /\ blind' = [blind EXCEPT ![p] = ~audit.read]
  BY DEF Audit
<1>2. ctx[p] \in Context => /\ c(audit).disk = ctx[p].disk /\ c(audit).online = ctx[p].online
                            /\ c(audit).dns = ctx[p].dns
  BY DEF Context
<1>3. ctx[p] \in Context /\ Manager = "apt" /\ c(audit).packages # "broken" => ~audit.broken
  BY DEF Context
<1> HIDE DEF c
<1>4. Seen(p)' /\ Resolved(p)'
  BY <1>1, <1>2, LaterProbe DEF Seen, Resolved
<1>5. blind'[p] = ~audit.read /\ \A q \in Proc \ {p} : blind'[q] = blind[q]
  <2>1. blind \in [Proc -> BOOLEAN]
    BY DEF MaintenanceInv, MaintenanceTypeOK
  <2>2. QED BY <1>1, <2>1, Zenon
<1>6. audit.read /\ ~audit.broken => "packages" \notin always[p]
  <2>1. audit.read /\ ~audit.broken => ~machine.broken
    BY <1>1, AuditTells
  <2>2. always[p] \subseteq Problems(machine)
    BY <1>1, LaterProbe
  <2>3. QED BY <2>1, <2>2, ProblemsOf
<1>7. Fixed(p)'
  <2> SUFFICES ASSUME Manager = "apt", ~blind'[p], ctx'[p].packages # "broken"
               PROVE  "packages" \notin always[p]
    BY <1>1, LaterProbe DEF Fixed, Ended
  <2>1. audit.read
    BY <1>5, Zenon
  <2>2. ~audit.broken
    BY <1>1, <1>3, LaterProbe
  <2>3. QED BY <1>6, <2>1, <2>2
<1>8. QED BY <1>1, <1>4, <1>5, <1>7, ProbedKeeps

\* A command ends; what it was and what it found stay as they are.
LEMMA ExitKeeps ==
  ASSUME MaintenanceInv, MaintenanceTypeOK', NEW p \in Proc, NEW code, Exit(p, code), Grows,
         UNCHANGED <<machine, cmd, ctx, plan, answer, outcome, ghosts>>,
         RanOnce(p)', Fixed(p)', DoctorRight(p)'
  PROVE  MaintenanceInv'
<1>1. /\ pc' = [pc EXCEPT ![p] = "idle"] /\ exit' = [exit EXCEPT ![p] = code]
      /\ machine' = machine /\ cmd' = cmd /\ ctx' = ctx /\ plan' = plan /\ answer' = answer
      /\ outcome' = outcome /\ always' = always /\ ever' = ever /\ blind' = blind
  BY DEF Exit, ghosts
<1>2. pc'[p] = "idle"
  BY <1>1 DEF MaintenanceInv, MaintenanceTypeOK
<1>3. Seen(p)' /\ Resolved(p)' /\ Needed(p)' /\ Planned(p)' /\ Lasting(p)'
  BY <1>1, <1>2 DEF MaintenanceInv, ProcInv, Seen, Resolved, Needed, Planned, Lasting
<1>4. QED BY <1>1, <1>3, Quiet DEF ProcInv, MaintenanceInv, MaintenanceTypeOK

LEMMA Ending ==
  ASSUME MaintenanceInv, NEW p \in Proc, NEW code, Exit(p, code),
         UNCHANGED <<machine, cmd, ctx, plan, answer, outcome, ghosts>>
  PROVE  /\ pc'[p] = "idle" /\ exit'[p] = code /\ cmd' = cmd /\ ctx' = ctx /\ plan' = plan
         /\ answer' = answer /\ outcome' = outcome /\ always' = always /\ ever' = ever /\ blind' = blind
BY DEF MaintenanceInv, MaintenanceTypeOK, Exit, ghosts

LEMMA ReportHealthKeeps ==
  ASSUME MaintenanceInv, MaintenanceTypeOK', NEW p \in Proc, ReportHealth(p)
  PROVE  MaintenanceInv'
<1> DEFINE code == IF Unhealthy(Diagnosed(p)) THEN "failed" ELSE "ok"
<1>1. /\ pc[p] = "judge" /\ cmd[p].kind \in {"doctor", "networkDoctor"} /\ Exit(p, code)
      /\ UNCHANGED <<machine, cmd, ctx, plan, answer, outcome, ghosts>> /\ history' = history
  BY DEF ReportHealth
<1>2. Seen(p) /\ Resolved(p) /\ RanOnce(p) /\ ctx[p] \in Context
  BY DEF MaintenanceInv, ProcInv, MaintenanceTypeOK
<1>3. Unhealthy(Diagnosed(p)) <=>
        ctx[p].dns = "fails" \/ (cmd[p].kind = "doctor" /\ Full(ctx[p].disk))
  BY <1>1, <1>2, Sick DEF Diagnosed
<1>4. /\ Unhealthy(Diagnosed(p)) =>
           ever[p] \cap Watched(p) # {} \/ "offline" \in ever[p] \ always[p]
      /\ ~Unhealthy(Diagnosed(p)) => always[p] \cap Watched(p) = {}
  BY <1>1, <1>2, <1>3 DEF Seen, Resolved, Watched
<1>5. outcome[p] = "none"
  BY <1>1, <1>2 DEF RanOnce
<1>6. /\ pc'[p] = "idle" /\ exit'[p] = code /\ cmd' = cmd /\ outcome' = outcome
      /\ always' = always /\ ever' = ever
  BY <1>1, Ending
<1> HIDE DEF code
<1>7. RanOnce(p)' /\ Fixed(p)'
  BY <1>1, <1>5, <1>6 DEF RanOnce, Fixed, Ended
<1>8. DoctorRight(p)'
  BY <1>4, <1>6 DEF DoctorRight, Ended, Watched, code
<1>9. QED BY <1>1, <1>7, <1>8, ExitKeeps DEF Grows

LEMMA FixNothingKeeps ==
  ASSUME MaintenanceInv, MaintenanceTypeOK', NEW p \in Proc, FixNothing(p)
  PROVE  MaintenanceInv'
<1>1. PICK code \in {"ok", "failed"} : Exit(p, code)
  BY DEF FixNothing
<1>2. /\ pc[p] = "judge" /\ cmd[p].kind \in {"fix", "repair"} /\ ToFix(p) = {} /\ history' = history
      /\ UNCHANGED <<machine, cmd, ctx, plan, answer, outcome, ghosts>>
  BY DEF FixNothing
<1>3. RanOnce(p) /\ Fixed(p)
  BY DEF MaintenanceInv, ProcInv
<1>4. outcome[p] = "none" /\ (Repairs(p) => ctx[p].packages # "broken")
  BY <1>2, <1>3, BrokenIsToFix DEF RanOnce
<1>5. /\ pc'[p] = "idle" /\ exit'[p] = code /\ cmd' = cmd /\ ctx' = ctx /\ outcome' = outcome
      /\ always' = always /\ blind' = blind
  BY <1>1, <1>2, Ending
<1>6. Fixed(p)'
  BY <1>2, <1>3, <1>4, <1>5 DEF Fixed, Repairs
<1>7. RanOnce(p)' /\ DoctorRight(p)'
  BY <1>2, <1>4, <1>5 DEF RanOnce, DoctorRight, Ended
<1>8. QED BY <1>1, <1>2, <1>7, <1>6, ExitKeeps DEF Grows

LEMMA KillKeeps ==
  ASSUME MaintenanceInv, MaintenanceTypeOK', NEW p \in Proc, Kill(p)
  PROVE  MaintenanceInv'
<1>1. Exit(p, "killed") /\ history' = history /\ UNCHANGED <<machine, cmd, ctx, plan, answer, outcome, ghosts>>
  BY DEF Kill
<1>2. pc'[p] = "idle" /\ exit'[p] = "killed"
  BY <1>1, Ending
<1>3. RanOnce(p)' /\ Fixed(p)' /\ DoctorRight(p)'
  BY <1>2 DEF RanOnce, Fixed, DoctorRight, Ended
<1>4. QED BY <1>1, <1>3, ExitKeeps DEF Grows

LEMMA DeclineKeeps ==
  ASSUME MaintenanceInv, MaintenanceTypeOK', NEW p \in Proc, Decline(p)
  PROVE  MaintenanceInv'
<1>1. /\ pc[p] = "confirm" /\ Exit(p, "failed") /\ history' = history
      /\ UNCHANGED <<machine, cmd, ctx, plan, answer, outcome, ghosts>>
  BY DEF Decline
<1>2. Planned(p) /\ RanOnce(p)
  BY DEF MaintenanceInv, ProcInv
<1>3. outcome[p] = "none" /\ (Fixing(p) \/ cmd[p].kind = "updateSystem")
  BY <1>1, <1>2 DEF RanOnce, Planned
<1>4. pc'[p] = "idle" /\ exit'[p] = "failed" /\ cmd' = cmd /\ outcome' = outcome
  BY <1>1, Ending
<1>5. RanOnce(p)' /\ Fixed(p)' /\ DoctorRight(p)'
  BY <1>3, <1>4 DEF Fixing, RanOnce, Fixed, DoctorRight, Ended
<1>6. QED BY <1>1, <1>5, ExitKeeps DEF Grows

LEMMA LogKeeps ==
  ASSUME MaintenanceInv, MaintenanceTypeOK', NEW p \in Proc, Log(p)
  PROVE  MaintenanceInv'
<1>1. /\ pc[p] = "log" /\ Exit(p, ExitCode(p)) /\ history' = Append(history, Recorded(p))
      /\ UNCHANGED <<machine, cmd, ctx, plan, answer, outcome, ghosts>>
  BY DEF Log
<1>2. Planned(p) /\ RanOnce(p) /\ Fixed(p) /\ history \in Seq(Record)
  BY DEF MaintenanceInv, ProcInv, MaintenanceTypeOK
<1>3. /\ DOMAIN history = 1 .. Len(history) /\ DOMAIN history' = 1 .. Len(history) + 1
      /\ Len(history) \in Nat
      /\ \A i \in 1 .. Len(history) : history'[i] = history[i]
      /\ history'[Len(history) + 1] = Recorded(p)
  BY <1>1, <1>2
<1>4. Grows
  BY <1>3 DEF Grows
<1>5. /\ pc'[p] = "idle" /\ exit'[p] = ExitCode(p) /\ cmd' = cmd /\ ctx' = ctx /\ plan' = plan
      /\ outcome' = outcome /\ always' = always /\ blind' = blind
  BY <1>1, Ending
<1>6. outcome[p] \in {"none", "ok", "failed"}
  BY DEF MaintenanceInv, MaintenanceTypeOK
<1>7. RanOnce(p)'
  <2> SUFFICES ASSUME outcome[p] # "none" PROVE exit'[p] = outcome[p] /\ InHistory(p)'
    BY <1>5 DEF RanOnce
  <2>1. Recorded(p) = [kind |-> cmd[p].kind, plan |-> plan[p], dry |-> FALSE, outcome |-> outcome[p]]
    BY <1>1, <1>2 DEF Recorded, RanOnce
  <2>2. InHistory(p)'
    BY <1>3, <1>5, <2>1 DEF InHistory
  <2>3. QED BY <1>5, <1>6, <2>2 DEF ExitCode
<1>8. Fixed(p)' /\ DoctorRight(p)'
  <2>1. ExitCode(p) = "ok" => outcome[p] \in {"none", "ok"}
    BY <1>6 DEF ExitCode
  <2>2. Fixed(p)'
    BY <1>1, <1>2, <1>5, <2>1 DEF Fixed, Repairs, Ended
  <2>3. DoctorRight(p)'
    BY <1>1, <1>2, <1>5 DEF DoctorRight, Ended, Planned, Fixing
  <2>4. QED BY <2>2, <2>3
<1>9. QED BY <1>1, <1>4, <1>7, <1>8, ExitKeeps

\* A command goes on its way without ending.
LEMMA GoesOn ==
  ASSUME MaintenanceInv, MaintenanceTypeOK', NEW p \in Proc, NEW to \in {"plan", "confirm", "run", "log"},
         pc' = [pc EXCEPT ![p] = to], pc[p] # "idle",
         machine' = machine, cmd' = cmd, ctx' = ctx, outcome' = outcome, exit' = exit, history' = history,
         always' = always, ever' = ever,
         \A q \in Proc \ {p} : plan'[q] = plan[q] /\ answer'[q] = answer[q] /\ blind'[q] = blind[q],
         Needed(p)', Planned(p)', RanOnce(p)', Fixed(p)'
  PROVE  MaintenanceInv'
<1>1. pc'[p] = to
  BY DEF MaintenanceInv, MaintenanceTypeOK
<1>2. Seen(p)' /\ Resolved(p)' /\ DoctorRight(p)' /\ Lasting(p)'
  BY <1>1 DEF MaintenanceInv, ProcInv, Seen, Resolved, DoctorRight, Ended, Lasting
<1>3. QED BY <1>2, Quiet DEF ProcInv, Grows, MaintenanceInv, MaintenanceTypeOK

LEMMA ApplyFixKeeps ==
  ASSUME MaintenanceInv, MaintenanceTypeOK', NEW p \in Proc, ApplyFix(p)
  PROVE  MaintenanceInv'
<1>1. /\ pc[p] = "judge" /\ pc' = [pc EXCEPT ![p] = "plan"] /\ cmd[p].kind \in {"fix", "repair"}
      /\ machine' = machine /\ cmd' = cmd /\ ctx' = ctx /\ plan' = plan /\ answer' = answer
      /\ outcome' = outcome /\ exit' = exit /\ history' = history
      /\ always' = always /\ ever' = ever /\ blind' = blind
  BY DEF ApplyFix, Goto, procVars, ghosts
<1>2. pc'[p] = "plan"
  BY <1>1 DEF MaintenanceInv, MaintenanceTypeOK
<1>3. Needed(p) /\ RanOnce(p)
  BY DEF MaintenanceInv, ProcInv
<1>4. Needed(p)' /\ Planned(p)' /\ RanOnce(p)' /\ Fixed(p)'
  BY <1>1, <1>2, <1>3 DEF Needed, Fixing, Planned, RanOnce, Fixed, Ended
<1>5. QED BY <1>1, <1>4, GoesOn

LEMMA MakePlanKeeps ==
  ASSUME MaintenanceInv, MaintenanceTypeOK', NEW p \in Proc, MakePlan(p)
  PROVE  MaintenanceInv'
<1> DEFINE to == IF plan'[p] = "none" \/ cmd[p].dry THEN "log" ELSE "confirm"
<1>1. /\ pc[p] = "plan" /\ pc' = [pc EXCEPT ![p] = to]
      /\ machine' = machine /\ cmd' = cmd /\ ctx' = ctx /\ answer' = answer
      /\ outcome' = outcome /\ exit' = exit /\ history' = history
      /\ always' = always /\ ever' = ever
  BY DEF MakePlan
<1>2. pc'[p] = to /\ to \in {"log", "confirm"}
  BY <1>1 DEF MaintenanceInv, MaintenanceTypeOK
<1>3. Needed(p) /\ Planned(p) /\ RanOnce(p) /\ Lasting(p)
  BY DEF MaintenanceInv, ProcInv
<1>4. \A q \in Proc \ {p} : plan'[q] = plan[q] /\ blind'[q] = blind[q]
  BY DEF MakePlan, MaintenanceInv, MaintenanceTypeOK
<1>5. plan'[p] \in {"none", IF cmd[p].kind = "updateSystem" THEN "upgrade" ELSE "repair"}
  BY DEF MakePlan, MaintenanceInv, MaintenanceTypeOK
<1>6. outcome[p] = "none"
  BY <1>1, <1>3 DEF RanOnce
<1>7. ASSUME cmd[p].kind # "updateSystem"
      PROVE  \E audit \in Audits : /\ plan'[p] = IF PlanFix(audit.broken) THEN "repair" ELSE "none"
                                  /\ blind'[p] = (blind[p] \/ ~audit.read)
  <2>1. PICK audit \in Audits :
          /\ plan' = [plan EXCEPT ![p] = IF PlanFix(audit.broken) THEN "repair" ELSE "none"]
          /\ blind' = [blind EXCEPT ![p] = @ \/ ~audit.read]
    BY <1>7, Zenon DEF MakePlan
  <2>2. plan \in [Proc -> Plan] /\ blind \in [Proc -> BOOLEAN]
    BY DEF MaintenanceInv, MaintenanceTypeOK
  <2>3. QED BY <2>1, <2>2, Zenon
<1> HIDE DEF to
<1>8. Needed(p)'
  <2> SUFFICES ASSUME plan'[p] = "repair" PROVE "packages" \in ever[p]
    BY <1>1 DEF Needed
  <2>1. cmd[p].kind # "updateSystem"
    BY <1>5
  <2>2. PICK audit \in Audits : plan'[p] = IF PlanFix(audit.broken) THEN "repair" ELSE "none"
    BY <1>7, <2>1
  <2>3. machine.broken
    BY <2>2, AuditTells DEF PlanFix
  <2>4. QED BY <1>1, <1>3, <2>3, ProblemsOf DEF Lasting
<1>9. RanOnce(p)'
  BY <1>1, <1>2, <1>6 DEF RanOnce
<1>10. Planned(p)'
  BY <1>1, <1>2, <1>3, <1>5 DEF Planned, Fixing, to
<1>11. Fixed(p)'
  <2> SUFFICES ASSUME Family = "debian", Repairs(p), ~blind'[p], ~cmd[p].dry, pc'[p] = "log"
               PROVE  "packages" \notin always[p]
    BY <1>1, <1>2 DEF Fixed, Repairs, Ended
  <2>1. plan'[p] = "none" /\ cmd[p].kind # "updateSystem"
    BY <1>2 DEF to, Repairs
  <2>2. PICK audit \in Audits : /\ plan'[p] = IF PlanFix(audit.broken) THEN "repair" ELSE "none"
                                /\ blind'[p] = (blind[p] \/ ~audit.read)
    BY <1>7, <2>1
  <2>3. audit.read
    BY <2>2, Zenon
  <2>4. ~audit.broken
    BY <2>1, <2>2 DEF PlanFix
  <2>5. ~machine.broken
    BY <2>3, <2>4, AuditTells
  <2>6. QED BY <1>3, <2>5, ProblemsOf DEF Lasting
<1>12. QED BY <1>1, <1>2, <1>4, <1>9, <1>10, <1>11, <1>8, GoesOn

LEMMA ProceedKeeps ==
  ASSUME MaintenanceInv, MaintenanceTypeOK', NEW p \in Proc, Proceed(p)
  PROVE  MaintenanceInv'
<1>1. /\ pc[p] = "confirm" /\ pc' = [pc EXCEPT ![p] = "run"]
      /\ answer' = [answer EXCEPT ![p] = IF ~RequiresConfirmation(plan[p]) THEN "none"
                                         ELSE IF cmd[p].yes THEN "flag" ELSE "prompt"]
      /\ machine' = machine /\ cmd' = cmd /\ ctx' = ctx /\ plan' = plan
      /\ outcome' = outcome /\ exit' = exit /\ history' = history
      /\ always' = always /\ ever' = ever /\ blind' = blind
  BY DEF Proceed, Goto, ghosts
<1>2. pc'[p] = "run" /\ (plan[p] = "upgrade" => answer'[p] # "none")
  BY <1>1 DEF MaintenanceInv, MaintenanceTypeOK, RequiresConfirmation
<1>3. \A q \in Proc \ {p} : answer'[q] = answer[q]
  BY <1>1 DEF MaintenanceInv, MaintenanceTypeOK
<1>4. Needed(p) /\ Planned(p) /\ RanOnce(p)
  BY DEF MaintenanceInv, ProcInv
<1>5. Needed(p)' /\ Planned(p)' /\ RanOnce(p)' /\ Fixed(p)'
  BY <1>1, <1>2, <1>4 DEF Needed, Fixing, Planned, RanOnce, Fixed, Ended
<1>6. QED BY <1>1, <1>3, <1>5, GoesOn

LEMMA RunKeeps ==
  ASSUME MaintenanceInv, MaintenanceTypeOK', NEW p \in Proc, NEW ok \in BOOLEAN, NEW broken \in BOOLEAN,
         Run(p, ok, broken)
  PROVE  MaintenanceInv'
<1> DEFINE m == [machine EXCEPT !.broken = broken]
<1>1. /\ pc[p] = "run" /\ pc' = [pc EXCEPT ![p] = "log"] /\ machine' = m
      /\ always' = [q \in Proc |-> always[q] \cap Problems(m)]
      /\ ever' = [q \in Proc |-> ever[q] \cup Problems(m)]
      /\ outcome' = [outcome EXCEPT ![p] = IF ok THEN "ok" ELSE "failed"]
      /\ blind' = blind /\ cmd' = cmd /\ ctx' = ctx /\ plan' = plan /\ answer' = answer
      /\ exit' = exit /\ history' = history
  BY DEF Run, Goto, Becomes
<1>2. pc'[p] = "log" /\ outcome'[p] = (IF ok THEN "ok" ELSE "failed")
  BY <1>1 DEF MaintenanceInv, MaintenanceTypeOK
<1>3. Needed(p) /\ Planned(p)
  BY DEF MaintenanceInv, ProcInv
<1> HIDE DEF m
<1>4. Needed(p)' /\ Planned(p)' /\ RanOnce(p)'
  BY <1>1, <1>2, <1>3 DEF Needed, Fixing, Planned, RanOnce
<1>5. Fixed(p)'
  BY <1>2 DEF Fixed, Ended
<1>6. Seen(p)' /\ Resolved(p)' /\ DoctorRight(p)' /\ Lasting(p)'
  BY <1>1, <1>2 DEF Seen, Resolved, DoctorRight, Ended, Lasting
<1>7. \A q \in Proc \ {p} :
        /\ pc'[q] = pc[q] /\ cmd'[q] = cmd[q] /\ ctx'[q] = ctx[q] /\ plan'[q] = plan[q]
        /\ answer'[q] = answer[q] /\ outcome'[q] = outcome[q] /\ exit'[q] = exit[q] /\ blind'[q] = blind[q]
  BY <1>1 DEF MaintenanceInv, MaintenanceTypeOK
<1>8. \A q \in Proc \ {p} :
         /\ always'[q] \subseteq always[q] /\ ever[q] \subseteq ever'[q]
         /\ always'[q] \subseteq Problems(machine') /\ Problems(machine') \subseteq ever'[q]
  BY <1>1
<1>9. QED BY <1>1, <1>4, <1>5, <1>6, <1>7, <1>8, OnlyP DEF ProcInv, Grows

LEMMA ElsewhereKeeps ==
  ASSUME MaintenanceInv, MaintenanceTypeOK', NEW m \in Machine, Elsewhere(m)
  PROVE  MaintenanceInv'
<1>1. /\ machine' = m /\ pc' = pc /\ cmd' = cmd /\ ctx' = ctx /\ plan' = plan /\ answer' = answer
      /\ outcome' = outcome /\ exit' = exit /\ history' = history /\ blind' = blind
      /\ always' = [q \in Proc |-> always[q] \cap Problems(m)]
      /\ ever' = [q \in Proc |-> ever[q] \cup Problems(m)]
  BY DEF Elsewhere, Becomes, procVars
<1>2. \A q \in Proc : /\ always'[q] \subseteq always[q] /\ ever[q] \subseteq ever'[q]
                      /\ always'[q] \subseteq Problems(machine') /\ Problems(machine') \subseteq ever'[q]
  BY <1>1
<1>3. Grows
  BY <1>1 DEF Grows
<1>4. ASSUME NEW q \in Proc PROVE ProcInv(q)'
  <2>1. ProcInv(q)
    BY DEF MaintenanceInv
  <2>2. QED BY <1>1, <1>2, <1>3, <2>1, OthersStay
<1>5. QED BY <1>4 DEF MaintenanceInv

LEMMA MaintenanceInvStep == MaintenanceInv /\ [MaintenanceNext]_vars => MaintenanceInv'
<1> SUFFICES ASSUME MaintenanceInv, [MaintenanceNext]_vars PROVE MaintenanceInv'
  OBVIOUS
<1>1. MaintenanceTypeOK'
  BY TypeStep DEF MaintenanceInv
<1>2. ASSUME NEW p \in Proc, Step(p) PROVE MaintenanceInv'
  BY <1>1, <1>2, BeginKeeps, DetectKeeps, CheckLockKeeps, ProbeDnsKeeps, AuditKeeps, ReportHealthKeeps,
     FixNothingKeeps, ApplyFixKeeps, MakePlanKeeps, ProceedKeeps, DeclineKeeps, RunKeeps, LogKeeps, KillKeeps
     DEF Step
<1>3. CASE UNCHANGED vars
  <2>1. /\ machine' = machine /\ pc' = pc /\ cmd' = cmd /\ ctx' = ctx /\ plan' = plan /\ answer' = answer
        /\ outcome' = outcome /\ exit' = exit /\ history' = history /\ always' = always
        /\ ever' = ever /\ blind' = blind
    BY <1>3 DEF vars, procVars, ghosts
  <2>2. Grows
    BY <2>1 DEF Grows
  <2>3. ASSUME NEW q \in Proc PROVE ProcInv(q)'
    <3>1. ProcInv(q) /\ Lasting(q)
      BY DEF MaintenanceInv, ProcInv
    <3>2. QED BY <2>1, <2>2, <3>1, OthersStay DEF Lasting
  <2>4. QED BY <1>1, <2>3 DEF MaintenanceInv
<1>4. QED BY <1>1, <1>2, <1>3, ElsewhereKeeps DEF MaintenanceNext

\* The invariant that the properties below follow from.
THEOREM MaintenanceInvariant == MaintenanceSpec => []MaintenanceInv
<1>1. MaintenanceInit => MaintenanceInv
  <2> SUFFICES ASSUME MaintenanceInit, NEW p \in Proc PROVE ProcInv(p)
    BY InitType DEF MaintenanceInv
  <2>1. pc[p] = "idle" /\ cmd[p] = Idle /\ plan[p] = "none" /\ outcome[p] = "none" /\ exit[p] = "none" /\ always[p] = {}
    BY DEF MaintenanceInit
  <2>2. QED BY <2>1 DEF ProcInv, Seen, Resolved, Needed, Planned, RanOnce, Fixed, DoctorRight, Ended, Lasting
<1>2. QED BY <1>1, MaintenanceInvStep, PTL DEF MaintenanceSpec

\* A doctor exits 1 only for what was wrong while it ran, or for a network
\* that was cut or came back under it.
THEOREM AlarmsAreRealSound == MaintenanceSpec => []AlarmsAreReal
<1>1. MaintenanceInv => AlarmsAreReal
  BY DEF MaintenanceInv, ProcInv, DoctorRight, AlarmsAreReal
<1>2. QED BY <1>1, MaintenanceInvariant, PTL

\* A problem that lasts as long as a doctor runs is never missed.
THEOREM AlarmsAreRaisedSound == MaintenanceSpec => []AlarmsAreRaised
<1>1. MaintenanceInv => AlarmsAreRaised
  BY DEF MaintenanceInv, ProcInv, DoctorRight, AlarmsAreRaised
<1>2. QED BY <1>1, MaintenanceInvariant, PTL

\* What was run is in the history, with the outcome that the exit code tells.
THEOREM RunsAreRecordedSound == MaintenanceSpec => []RunsAreRecorded
<1>1. MaintenanceInv => RunsAreRecorded
  BY DEF MaintenanceInv, ProcInv, RanOnce, InHistory, RunsAreRecorded
<1>2. QED BY <1>1, MaintenanceInvariant, PTL

\* A repair is planned only for packages that have been broken; and on Debian
\* with apt, a command about them that succeeds without a repair, all audits
\* read, has been there while they were consistent.
THEOREM FixFitsMachineSound == MaintenanceSpec => []FixFitsMachine
<1>1. MaintenanceInv => FixFitsMachine
  BY DEF MaintenanceInv, ProcInv, Needed, Fixed, FixFitsMachine
<1>2. QED BY <1>1, MaintenanceInvariant, PTL

\* The packages change at hallfix's hand only in a command that is no dry
\* run, and all of them only after --yes or the prompt.
THEOREM ChangesConsentedSound == MaintenanceSpec => ChangesConsented
<1>1. ASSUME MaintenanceInv, [MaintenanceNext]_vars, NEW p \in Proc, outcome[p] = "none", outcome'[p] # "none"
      PROVE  ~cmd[p].dry /\ (cmd[p].kind = "updateSystem" => answer[p] # "none")
  <2>1. PICK q \in Proc, ok \in BOOLEAN : \E broken \in BOOLEAN : Run(q, ok, broken)
    <3>1. ~UNCHANGED outcome
      BY <1>1
    <3>2. ~UNCHANGED vars
      BY <3>1 DEF vars, procVars
    <3>3. ASSUME NEW m, Elsewhere(m) PROVE FALSE
      BY <3>1, <3>3 DEF Elsewhere, procVars
    <3>4. ASSUME NEW q \in Proc, NEW c, Begin(q, c) PROVE FALSE
      BY <1>1, <3>4 DEF Begin, MaintenanceInv, MaintenanceTypeOK
    <3>5. ASSUME NEW q \in Proc, Detect(q) \/ CheckLock(q) \/ ProbeDns(q) \/ Audit(q) PROVE FALSE
      BY <3>1, <3>5 DEF Detect, CheckLock, ProbeDns, Audit, Probed
    <3>6. ASSUME NEW q \in Proc,
                 ReportHealth(q) \/ FixNothing(q) \/ ApplyFix(q) \/ MakePlan(q) \/ Proceed(q) \/ Decline(q)
                 \/ Log(q) \/ Kill(q)
          PROVE FALSE
      BY <3>1, <3>6 DEF ReportHealth, FixNothing, ApplyFix, MakePlan, Proceed, Decline, Log, Kill, procVars
    <3>7. QED BY <1>1, <3>2, <3>3, <3>4, <3>5, <3>6, Zenon DEF MaintenanceNext, Step
  <2>2. q = p
    BY <1>1, <2>1 DEF Run, MaintenanceInv, MaintenanceTypeOK
  <2>3. pc[p] = "run" /\ Planned(p)
    BY <1>1, <2>1, <2>2 DEF Run, Goto, MaintenanceInv, ProcInv
  <2>4. QED BY <2>3 DEF Planned, Fixing
<1>2. MaintenanceInv /\ [MaintenanceNext]_vars
      => [\A p \in Proc : outcome[p] = "none" /\ outcome'[p] # "none" =>
            ~cmd[p].dry /\ (cmd[p].kind = "updateSystem" => answer[p] # "none")]_vars
  BY <1>1
<1>3. QED BY <1>2, MaintenanceInvariant, PTL DEF MaintenanceSpec, ChangesConsented
=============================================================================
