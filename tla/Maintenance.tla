---------------------------- MODULE Maintenance ----------------------------
(***************************************************************************)
(* The commands that look at the whole system: `doctor`, `network doctor`, *)
(* `fix <id>`, `repair` and `update system`.                               *)
(*                                                                         *)
(* A diagnosis reads the machine probe by probe, and a fix diagnoses,      *)
(* plans from a second look, and only then repairs; meanwhile the machine  *)
(* changes under it, and other hallfix processes repair and upgrade too.   *)
(*                                                                         *)
(* One fix is registered (FixRegistry), and one check offers it, so the    *)
(* loop of `repair` over its fixable results has at most one turn.         *)
(***************************************************************************)
EXTENDS Naturals, Sequences, Diagnostics

CONSTANTS
  Proc,            \* hallfix processes
  Manager,         \* the native package manager detected: "apt", "other" or "none"
  Family,          \* the distribution's family: "debian" or "other"
  Host,            \* what a diagnosis reads and no one changes, as a Context
  Disks,           \* the fillings the disks may have
  Commands,        \* the commands users give
  MaxCommands,     \* bound: commands started
  MaxChanges       \* bound: changes of the machine by others

Kind == {"none", "doctor", "networkDoctor", "fix", "repair", "updateSystem"}
Command == [kind : Kind, id : {"none", "package.broken_state", "system.disk", "no.such"},
            yes : BOOLEAN, dry : BOOLEAN]
Plan == {"none", "repair", "upgrade"}
Record == [kind : Kind, plan : Plan, dry : BOOLEAN, outcome : {"none", "ok", "failed"}]

ASSUME MaintenanceAssumption ==
  /\ Manager \in {"apt", "other", "none"} /\ Family \in {"debian", "other"}
  /\ Host \in Context /\ Disks \subseteq SUBSET Filesystem
  /\ Commands \subseteq Command
  /\ MaxCommands \in Nat /\ MaxChanges \in Nat

VARIABLES
  machine,   \* what changes: the network, the resolver, the disks, the lock, dpkg's state
  pc, cmd,   \* where each process is, and its command
  ctx,       \* the DiagnosticContext it has assembled
  plan,      \* its execution plan
  answer,    \* how the plan was allowed to proceed
  outcome,   \* what executing it came to
  exit,      \* how its last command ended
  history,   \* history.jsonl
  begun, changes,  \* counters of the two bounds
  always,    \* history variable: problems the machine had all along the command
  ever,      \* history variable: problems it had at some moment of the command
  blind      \* history variable: an audit of the command failed

procVars == <<cmd, ctx, plan, answer, outcome, exit>>
ghosts   == <<always, ever, blind>>
vars     == <<machine, pc, procVars, history, begun, changes, ghosts>>

Machine == [online : BOOLEAN, resolver : BOOLEAN, disk : Disks, held : BOOLEAN, broken : BOOLEAN]
Problem == {"disk", "dns", "offline", "packages"}
Idle == [kind |-> "none", id |-> "none", yes |-> FALSE, dry |-> FALSE]

MaintenanceTypeOK ==
  /\ machine \in Machine
  /\ pc \in [Proc -> {"idle", "detect", "lock", "dns", "audit", "judge", "plan", "confirm",
                      "run", "log"}]
  /\ cmd \in [Proc -> Command]
  /\ ctx \in [Proc -> Context]
  /\ plan \in [Proc -> Plan]
  /\ answer \in [Proc -> {"none", "flag", "prompt"}]
  /\ outcome \in [Proc -> {"none", "ok", "failed"}]
  /\ exit \in [Proc -> {"none", "ok", "failed", "killed"}]
  /\ history \in Seq(Record)
  /\ begun \in 0 .. MaxCommands /\ changes \in 0 .. MaxChanges
  /\ always \in [Proc -> SUBSET Problem] /\ ever \in [Proc -> SUBSET Problem]
  /\ blind \in [Proc -> BOOLEAN]

\* What is really wrong with a machine, of what the commands report or repair.
Problems(m) ==
  {x \in Problem :
     \/ x = "disk" /\ \E f \in m.disk : f.type # "squashfs" /\ f.used >= HighAt
     \/ x = "dns" /\ m.online /\ ~m.resolver
     \/ x = "offline" /\ ~m.online
     \/ x = "packages" /\ m.broken}

MaintenanceInit ==
  /\ machine \in {m \in Machine : ~m.held}
  /\ pc = [p \in Proc |-> "idle"]
  /\ cmd = [p \in Proc |-> Idle]
  /\ ctx = [p \in Proc |-> Host]
  /\ plan = [p \in Proc |-> "none"]
  /\ answer = [p \in Proc |-> "none"]
  /\ outcome = [p \in Proc |-> "none"]
  /\ exit = [p \in Proc |-> "none"]
  /\ history = << >>
  /\ begun = 0
  /\ changes = 0
  /\ always = [p \in Proc |-> {}]
  /\ ever = [p \in Proc |-> {}]
  /\ blind = [p \in Proc |-> FALSE]

\* The machine changes under every command that is running.
Becomes(m) ==
  /\ machine' = m
  /\ always' = [p \in Proc |-> always[p] \cap Problems(m)]
  /\ ever' = [p \in Proc |-> ever[p] \cup Problems(m)]
  /\ UNCHANGED blind

Goto(p, from, to) == pc[p] = from /\ pc' = [pc EXCEPT ![p] = to]

Exit(p, code) ==
  /\ pc' = [pc EXCEPT ![p] = "idle"]
  /\ exit' = [exit EXCEPT ![p] = code]

Begin(p, c) ==
  /\ Goto(p, "idle", IF c.kind = "updateSystem" THEN "plan" ELSE "detect")
  /\ begun < MaxCommands
  /\ begun' = begun + 1
  /\ cmd' = [cmd EXCEPT ![p] = c]
  /\ ctx' = [ctx EXCEPT ![p] = Host]
  /\ plan' = [plan EXCEPT ![p] = "none"]
  /\ answer' = [answer EXCEPT ![p] = "none"]
  /\ outcome' = [outcome EXCEPT ![p] = "none"]
  /\ exit' = [exit EXCEPT ![p] = "none"]
  /\ always' = [always EXCEPT ![p] = Problems(machine)]
  /\ ever' = [ever EXCEPT ![p] = Problems(machine)]
  /\ blind' = [blind EXCEPT ![p] = FALSE]
  /\ UNCHANGED <<machine, history, changes>>

-----------------------------------------------------------------------------
(* build_diagnostic_context, one probe at a time.                          *)

Probed(p, from, to, c) ==
  /\ Goto(p, from, to)
  /\ ctx' = [ctx EXCEPT ![p] = c]
  /\ UNCHANGED <<machine, cmd, plan, answer, outcome, exit, history, begun, changes, always, ever>>

\* Names with an underscore are plausible mistakes in the definition that
\* follows them; they show that a property can fail and are used nowhere.

SystemSeen_ScaledTwice ==
  [Host EXCEPT !.disk = {[f EXCEPT !.used = 100 * @] : f \in machine.disk},
               !.online = machine.online, !.manager = Manager # "none"]

\* SystemDetector.detect: its own last step is the connectivity probe.
SystemSeen ==
  [Host EXCEPT !.disk = machine.disk, !.online = machine.online, !.manager = Manager # "none"]

Detect(p) == Probed(p, "detect", "lock", SystemSeen) /\ UNCHANGED blind

\* apt's lock is tried on its file, which only root can open: to others it is
\* always free. The other managers' files are only looked for.
LockSeen ==
  IF Manager = "none" THEN "unchecked"
  ELSE IF machine.held /\ (Manager = "apt" => Host.root) THEN "held" ELSE "free"

CheckLock(p) == Probed(p, "lock", "dns", [ctx[p] EXCEPT !.lock = LockSeen]) /\ UNCHANGED blind

\* The resolver is asked only if the network was there when it was probed.
ProbeDns(p) ==
  /\ Probed(p, "dns", "audit",
            [ctx[p] EXCEPT !.dns = IF ~ctx[p].online THEN "untested"
                                   ELSE IF machine.online /\ machine.resolver THEN "resolves"
                                   ELSE "fails"])
  /\ UNCHANGED blind

Audits_FailedIsBroken ==
  {[read |-> TRUE, broken |-> machine.broken], [read |-> FALSE, broken |-> TRUE]}

\* check_dpkg_broken_state: an audit that fails or times out counts as "not
\* broken".
Audits == {[read |-> TRUE, broken |-> machine.broken], [read |-> FALSE, broken |-> FALSE]}

Audit(p) ==
  \E audit \in Audits :
    /\ Probed(p, "audit", "judge",
              [ctx[p] EXCEPT !.packages = IF Manager # "apt" THEN "unchecked"
                                          ELSE IF audit.broken THEN "broken" ELSE "consistent"])
    /\ blind' = [blind EXCEPT ![p] = ~audit.read]

Diagnosed(p) ==
  IF cmd[p].kind = "networkDoctor" THEN NetworkChecks(ctx[p]) ELSE DefaultChecks(ctx[p])

ReportHealth(p) ==
  /\ pc[p] = "judge"
  /\ cmd[p].kind \in {"doctor", "networkDoctor"}
  /\ Exit(p, IF Unhealthy(Diagnosed(p)) THEN "failed" ELSE "ok")
  /\ UNCHANGED <<machine, cmd, ctx, plan, answer, outcome, history, begun, changes, ghosts>>

\* The results `repair` works through, or the one `fix` was asked for.
Chosen(p) == {r \in Diagnosed(p) : cmd[p].kind = "fix" => r.id = cmd[p].id}
ToFix(p)  == {r \in Chosen(p) : r.fix # NoFix}

\* Nothing to fix: success when nothing is wrong, failure when `fix` names
\* an unknown diagnostic or a problem without a fix.
FixNothing(p) ==
  /\ pc[p] = "judge"
  /\ cmd[p].kind \in {"fix", "repair"}
  /\ ToFix(p) = {}
  /\ Exit(p, IF \/ cmd[p].kind = "repair"
                \/ \E r \in Chosen(p) : r.severity \in {"OK", "INFO"}
             THEN "ok" ELSE "failed")
  /\ UNCHANGED <<machine, cmd, ctx, plan, answer, outcome, history, begun, changes, ghosts>>

ApplyFix(p) ==
  /\ Goto(p, "judge", "plan")
  /\ cmd[p].kind \in {"fix", "repair"}
  /\ ToFix(p) # {}
  /\ UNCHANGED <<machine, procVars, history, begun, changes, ghosts>>

-----------------------------------------------------------------------------
(* The plan, and its way through confirmation, execution and history.      *)

\* plan_fix looks at dpkg once more; elsewhere than on Debian it plans nothing.
PlanFix(broken) == Family = "debian" /\ broken

\* plan_system_upgrade.
PlanUpgrade == Manager # "none"

MakePlan(p) ==
  /\ pc[p] = "plan"
  /\ \/ /\ cmd[p].kind = "updateSystem"
        /\ plan' = [plan EXCEPT ![p] = IF PlanUpgrade THEN "upgrade" ELSE "none"]
        /\ UNCHANGED blind
     \/ /\ cmd[p].kind # "updateSystem"
        /\ \E audit \in Audits :
             /\ plan' = [plan EXCEPT ![p] = IF PlanFix(audit.broken) THEN "repair" ELSE "none"]
             /\ blind' = [blind EXCEPT ![p] = @ \/ ~audit.read]
  /\ pc' = [pc EXCEPT ![p] = IF plan'[p] = "none" \/ cmd[p].dry THEN "log" ELSE "confirm"]
  /\ UNCHANGED <<machine, cmd, ctx, answer, outcome, exit, history, begun, changes, always, ever>>

RequiresConfirmation_HighOnly(pl) == FALSE

\* SafetyPolicy on the risks RiskEvaluator gives: an upgrade is MEDIUM, the
\* fix LOW; neither is beyond --yes.
RequiresConfirmation(pl) == pl = "upgrade"

Proceed(p) ==
  /\ Goto(p, "confirm", "run")
  /\ answer' = [answer EXCEPT ![p] = IF ~RequiresConfirmation(plan[p]) THEN "none"
                                     ELSE IF cmd[p].yes THEN "flag" ELSE "prompt"]
  /\ UNCHANGED <<machine, cmd, ctx, plan, outcome, exit, history, begun, changes, ghosts>>

Decline(p) ==
  /\ pc[p] = "confirm"
  /\ RequiresConfirmation(plan[p]) /\ ~cmd[p].yes
  /\ Exit(p, "failed")
  /\ UNCHANGED <<machine, cmd, ctx, plan, answer, outcome, history, begun, changes, ghosts>>

\* The adapter's repair or upgrade, and what it leaves. Nobody audits dpkg
\* again: whatever the commands report, they may have left it either way.
Run(p, ok, broken) ==
  /\ Goto(p, "run", "log")
  /\ Becomes([machine EXCEPT !.broken = broken])
  /\ outcome' = [outcome EXCEPT ![p] = IF ok THEN "ok" ELSE "failed"]
  /\ UNCHANGED <<cmd, ctx, plan, answer, exit, history, begun, changes>>

Recorded_BeforeRunning(p) ==
  [kind |-> cmd[p].kind, plan |-> plan[p], dry |-> cmd[p].dry /\ plan[p] # "none",
   outcome |-> "none"]

Recorded(p) ==
  [kind |-> cmd[p].kind, plan |-> plan[p], dry |-> cmd[p].dry /\ plan[p] # "none",
   outcome |-> outcome[p]]

ExitCode_NotChecked(p) == "ok"

\* A no-op and a dry run succeed.
ExitCode(p) == IF outcome[p] = "failed" THEN "failed" ELSE "ok"

Log(p) ==
  /\ pc[p] = "log"
  /\ history' = Append(history, Recorded(p))
  /\ Exit(p, ExitCode(p))
  /\ UNCHANGED <<machine, cmd, ctx, plan, answer, outcome, begun, changes, ghosts>>

\* The process is killed, or an exception ends it.
Kill(p) ==
  /\ pc[p] # "idle"
  /\ Exit(p, "killed")
  /\ UNCHANGED <<machine, cmd, ctx, plan, answer, outcome, history, begun, changes, ghosts>>

\* The network, the resolver, the disks or other package managers, one thing
\* at a time.
Elsewhere(m) ==
  /\ changes < MaxChanges
  /\ m # machine
  /\ \E f \in DOMAIN machine : m = [machine EXCEPT ![f] = m[f]]
  /\ Becomes(m)
  /\ changes' = changes + 1
  /\ UNCHANGED <<pc, procVars, history, begun>>

Step(p) ==
  \/ \E c \in Commands : Begin(p, c)
  \/ Detect(p) \/ CheckLock(p) \/ ProbeDns(p) \/ Audit(p)
  \/ ReportHealth(p) \/ FixNothing(p) \/ ApplyFix(p)
  \/ MakePlan(p) \/ Proceed(p) \/ Decline(p)
  \/ \E ok, broken \in BOOLEAN : Run(p, ok, broken)
  \/ Log(p) \/ Kill(p)

MaintenanceNext == (\E p \in Proc : Step(p)) \/ (\E m \in Machine : Elsewhere(m))

MaintenanceSpec == MaintenanceInit /\ [][MaintenanceNext]_vars

-----------------------------------------------------------------------------
(* Properties.                                                             *)

Ended(p, kinds, code) == pc[p] = "idle" /\ cmd[p].kind \in kinds /\ exit[p] = code

\* What a doctor may exit 1 for.
Watched(p) == IF cmd[p].kind = "networkDoctor" THEN {"dns"} ELSE {"disk", "dns"}

\* The command is about broken packages.
Repairs(p) ==
  cmd[p].kind = "repair" \/ (cmd[p].kind = "fix" /\ cmd[p].id = "package.broken_state")

\* `fix` and `repair` act on the machine that is there, though they look at it
\* twice and others change it: a repair is planned only if the packages were
\* broken at some moment of the command. And where dpkg can be asked and every
\* audit was read, a command that succeeds without a repair (and is no dry
\* run) is right: they were consistent at some moment. What a repair that ran
\* has left is not claimed: nobody looks at it again.
FixFitsMachine ==
  \A p \in Proc :
    /\ plan[p] = "repair" => "packages" \in ever[p]
    /\ /\ Ended(p, {"fix", "repair"}, "ok") /\ Repairs(p) /\ ~cmd[p].dry
       /\ outcome[p] # "ok" /\ Manager = "apt" /\ Family = "debian" /\ ~blind[p]
       => "packages" \notin always[p]

\* A doctor exits 1 only if the disk really was too full, or the resolver
\* really failing on a network that was up, at some moment of its run - or
\* the network was cut or came back between its probes.
AlarmsAreReal ==
  \A p \in Proc :
    Ended(p, {"doctor", "networkDoctor"}, "failed") =>
      \/ ever[p] \cap Watched(p) # {}
      \/ "offline" \in ever[p] \ always[p]

\* A problem that lasts as long as the doctor runs is never missed, whatever
\* milder findings there are beside it.
AlarmsAreRaised ==
  \A p \in Proc :
    Ended(p, {"doctor", "networkDoctor"}, "ok") => always[p] \cap Watched(p) = {}

\* Every repair or upgrade that was run is in the history with the outcome
\* the exit code tells, unless its process was killed before it wrote.
RunsAreRecorded ==
  \A p \in Proc :
    pc[p] = "idle" /\ outcome[p] # "none" /\ exit[p] # "killed" =>
      /\ exit[p] = outcome[p]
      /\ \E i \in DOMAIN history :
           history[i] = [kind |-> cmd[p].kind, plan |-> plan[p], dry |-> FALSE,
                         outcome |-> outcome[p]]

\* The packages change at the hand of hallfix only in a command that is no
\* dry run, and the system-wide upgrade only after --yes or the prompt.
ChangesConsented ==
  [][\A p \in Proc :
       outcome[p] = "none" /\ outcome'[p] # "none" =>
         ~cmd[p].dry /\ (cmd[p].kind = "updateSystem" => answer[p] # "none")]_vars
=============================================================================
