---------------------------- MODULE Diagnostics ----------------------------
(***************************************************************************)
(* The checks of `hallfix doctor`: what each makes of an assembled         *)
(* DiagnosticContext, and the health aggregated from them. Only what a     *)
(* reader of the results acts on is kept: the id, the severity, the fix.   *)
(***************************************************************************)
LOCAL INSTANCE Integers

CONSTANTS WarningAt, HighAt, CriticalAt  \* disk_thresholds of the configuration, in percent

ASSUME ThresholdsAssumption ==
  /\ {WarningAt, HighAt, CriticalAt} \subseteq 0 .. 100
  /\ WarningAt < HighAt /\ HighAt < CriticalAt

Severity == {"OK", "INFO", "WARNING", "ERROR", "CRITICAL"}
Health == {"HEALTHY", "DEGRADED", "UNHEALTHY", "CRITICAL"}

BrokenStateFix == "fix.package_broken_state"
NoFix == "none"

Filesystem == [type : {"ext4", "squashfs"}, used : 0 .. 100]

\* DiagnosticContext. "untested" and "unchecked" stand for None.
Context ==
  [cpu : BOOLEAN, ram : BOOLEAN, disk : SUBSET Filesystem,
   root : BOOLEAN, sudo : BOOLEAN, systemd : BOOLEAN,
   interface : BOOLEAN, gateway : BOOLEAN, nameservers : BOOLEAN, online : BOOLEAN,
   dns : {"untested", "resolves", "fails"},
   manager : BOOLEAN, lock : {"unchecked", "free", "held"},
   packages : {"unchecked", "consistent", "broken"},
   tools : SUBSET {"git", "docker", "ssh"}, environ : BOOLEAN]

Result(id, severity) == [id |-> id, severity |-> severity, fix |-> NoFix]
Fixable(id, severity, fix) == [id |-> id, severity |-> severity, fix |-> fix]

OrWarning(good) == IF good THEN "OK" ELSE "WARNING"

CheckOS(c) == Result("system.os", "OK")
CheckKernel(c) == Result("system.kernel", "OK")
CheckEnvironment(c) == Result("system.environment", "INFO")
CheckCPU(c) == Result("system.cpu", OrWarning(c.cpu))
CheckRAM(c) == Result("system.ram", OrWarning(c.ram))

\* The fullest of these is at the threshold or beyond it.
Reaches(used, threshold) == \E u \in used : u >= threshold

DiskSeverity(used) ==
  IF used = {} THEN "WARNING"
  ELSE IF Reaches(used, CriticalAt) THEN "CRITICAL"
  ELSE IF Reaches(used, HighAt) THEN "ERROR"
  ELSE OrWarning(~Reaches(used, WarningAt))

\* Names with an underscore are plausible mistakes in the definition that
\* follows them; they show that a property can fail and are used nowhere.

CheckDisk_WithSquashfs(c) == Result("system.disk", DiskSeverity({f.used : f \in c.disk}))

\* The fullest file system that can fill up: squashfs images are always full.
CheckDisk(c) ==
  Result("system.disk", DiskSeverity({f.used : f \in {x \in c.disk : x.type # "squashfs"}}))

CheckSudo(c) == Result("system.sudo", IF c.root THEN "INFO" ELSE OrWarning(c.sudo))
CheckServiceManager(c) == Result("system.service_manager", IF c.systemd THEN "OK" ELSE "INFO")

CheckNetworkInterfaces(c) == Result("network.interfaces", OrWarning(c.interface))
CheckDefaultGateway(c) == Result("network.gateway", OrWarning(c.gateway))
CheckDnsConfigured(c) == Result("network.dns_configured", OrWarning(c.nameservers))
CheckDnsResolution(c) ==
  Result("network.dns_resolution", CASE c.dns = "untested" -> "INFO"
                                     [] c.dns = "resolves" -> "OK"
                                     [] c.dns = "fails"    -> "ERROR")
CheckInternetConnectivity(c) == Result("network.internet", OrWarning(c.online))

CheckPackageBrokenState(c) ==
  CASE c.packages = "unchecked"  -> Result("package.broken_state", "INFO")
    [] c.packages = "consistent" -> Result("package.broken_state", "OK")
    [] c.packages = "broken"     -> Fixable("package.broken_state", "WARNING", BrokenStateFix)
CheckPackageManager(c) == Result("package.manager", OrWarning(c.manager))
CheckPackageManagerLock(c) ==
  Result("package.lock", IF c.lock = "unchecked" THEN "INFO" ELSE OrWarning(c.lock = "free"))

\* Optional software is never a failing: present is OK, absent INFO.
Presence(c, tool, id) == Result(id, IF tool \in c.tools THEN "OK" ELSE "INFO")
CheckGit(c) == Presence(c, "git", "development.git")
CheckDocker(c) == Presence(c, "docker", "development.docker")
CheckSSH(c) == Presence(c, "ssh", "development.ssh")
CheckEnvironmentVariables(c) ==
  Result("development.environment_variables", OrWarning(c.environ))

NetworkChecks(c) ==
  {CheckNetworkInterfaces(c), CheckDefaultGateway(c), CheckDnsConfigured(c),
   CheckDnsResolution(c), CheckInternetConnectivity(c)}

\* DiagnosticEngine.run over DEFAULT_CHECKS; no two checks share an id.
DefaultChecks(c) ==
  {CheckOS(c), CheckKernel(c), CheckEnvironment(c), CheckCPU(c), CheckRAM(c), CheckDisk(c),
   CheckSudo(c), CheckServiceManager(c)}
  \cup NetworkChecks(c)
  \cup {CheckPackageBrokenState(c), CheckPackageManager(c), CheckPackageManagerLock(c),
        CheckGit(c), CheckDocker(c), CheckSSH(c), CheckEnvironmentVariables(c)}

Has(results, severity) == \E r \in results : r.severity = severity

AggregateHealth_MildestFirst(results) ==
  IF Has(results, "WARNING") THEN "DEGRADED"
  ELSE IF Has(results, "ERROR") THEN "UNHEALTHY"
  ELSE IF Has(results, "CRITICAL") THEN "CRITICAL"
  ELSE "HEALTHY"

\* aggregate_health: the worst severity decides.
AggregateHealth(results) ==
  IF Has(results, "CRITICAL") THEN "CRITICAL"
  ELSE IF Has(results, "ERROR") THEN "UNHEALTHY"
  ELSE IF Has(results, "WARNING") THEN "DEGRADED"
  ELSE "HEALTHY"

Unhealthy(results) == AggregateHealth(results) \in {"UNHEALTHY", "CRITICAL"}
=============================================================================
