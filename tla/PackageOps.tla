----------------------------- MODULE PackageOps -----------------------------
(***************************************************************************)
(* What the package-manager adapters promise the Executor: a call takes    *)
(* effect on the package at one moment and then reports what it did there, *)
(* in one of the ways Packages lists. Others - the user, other hallfix     *)
(* processes, a command that outlived its call - change the package at any *)
(* time.                                                                   *)
(***************************************************************************)
EXTENDS Packages

CONSTANTS
  Caller,  \* hallfix processes
  None     \* no call, no reply

VARIABLES
  pkg,    \* the package
  asked,  \* the call each process has made
  reply   \* what its last call reported

opsVars == <<pkg, asked, reply>>

\* A dry run reports success and leaves the package alone; an upgrade never
\* adds or drops a package; --fix-broken may do either.
Reports(r, v) ==
  IF r.dry THEN {Report(TRUE, FALSE, v)}
  ELSE CASE r.op = "install" -> InstallReports(v)
         [] r.op = "remove"  -> RemoveReports(v)
         [] r.op = "refresh" -> [ok : BOOLEAN, already : {FALSE}, now : {v}]
         [] r.op = "upgrade" -> [ok : BOOLEAN, already : {FALSE}, now : Upgrades(v)]
         [] r.op = "repair"  -> [ok : BOOLEAN, already : {FALSE}, now : Version]

OpsInit ==
  /\ pkg \in Version
  /\ asked = [c \in Caller |-> None]
  /\ reply = [c \in Caller |-> None]

Ask(c) ==
  /\ asked[c] = None
  /\ \E r \in Request : asked' = [asked EXCEPT ![c] = r]
  /\ reply' = [reply EXCEPT ![c] = None]
  /\ UNCHANGED pkg

Answer(c) ==
  /\ asked[c] # None
  /\ \E report \in Reports(asked[c], pkg) :
       /\ pkg' = report.now
       /\ reply' = [reply EXCEPT ![c] = [ok |-> report.ok, already |-> report.already]]
  /\ asked' = [asked EXCEPT ![c] = None]

\* The process ends before its call does.
Lose(c) ==
  /\ asked' = [asked EXCEPT ![c] = None]
  /\ pkg' \in Version
  /\ UNCHANGED reply

Others ==
  /\ pkg' \in Version
  /\ UNCHANGED <<asked, reply>>

OpsNext == Others \/ \E c \in Caller : Ask(c) \/ Answer(c) \/ Lose(c)

OpsSpec == OpsInit /\ [][OpsNext]_opsVars
=============================================================================
