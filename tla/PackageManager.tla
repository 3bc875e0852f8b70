--------------------------- MODULE PackageManager ---------------------------
(***************************************************************************)
(* The adapters of apt, dnf, pacman and zypper over their command line:    *)
(*                                                                         *)
(*   check_lock -> CommandRunner (sudo, timeout) -> read exit and output   *)
(*                                                                         *)
(* for one package, with several hallfix processes, the managers other     *)
(* people run, and the one native lock they all share. apt is probed by    *)
(* taking its lock and letting it go; dnf, pacman and zypper by looking    *)
(* whether their lock file exists.                                         *)
(*                                                                         *)
(* Abstractions. A native command changes the package and exits in one     *)
(* step. Its output is whether it holds the phrase the adapter looks for.  *)
(* Read-only calls and search are left out: they touch no state here.      *)
(***************************************************************************)
EXTENDS Packages, Naturals

CONSTANTS
  Caller,          \* hallfix processes
  Other,           \* every other holder of the lock
  None,            \* no call, no reply, nobody
  Manager          \* package managers the machine may have

ASSUME ManagerAssumption ==
  /\ EnglishOutput \in BOOLEAN
  /\ Manager \subseteq {"apt", "dnf", "pacman", "zypper"}
  /\ Other \notin Caller /\ None \notin Caller /\ None # Other
  /\ None \notin Request

VARIABLES
  setup,   \* the machine's package manager, and the processes run by root
  pkg,     \* the package
  holder,  \* who holds the native lock
  file,    \* the lock file exists (dnf, pacman, zypper)
  pc, call, reply,
  left,    \* native commands the call still has to run
  failed,  \* one of those it ran has failed
  busy     \* the last reply was "Package manager is currently busy"

callVars == <<pc, call, reply, left, failed, busy>>
pmVars   == <<setup, pkg, holder, file, callVars>>

\* apt's lock is probed by taking it, the others' by looking for a file.
LockIsFile == setup.manager # "apt"

\* The other processes run their commands through sudo.
Root == setup.root

ManagerTypeOK ==
  /\ setup \in [manager : Manager, root : SUBSET Caller]
  /\ pkg \in Version
  /\ holder \in Caller \cup {Other, None}
  /\ file \in BOOLEAN
  /\ pc \in [Caller -> {"idle", "probe", "unlock", "run", "native", "overrun"}]
  /\ call \in [Caller -> Request \cup {None}]
  /\ reply \in [Caller -> Reply \cup {None}]
  /\ left \in [Caller -> 0 .. 2]
  /\ failed \in [Caller -> BOOLEAN]
  /\ busy \in [Caller -> BOOLEAN]
  /\ \A c \in Caller :
       /\ pc[c] = "idle" <=> call[c] = None
       /\ pc[c] # "idle" => reply[c] = None
       /\ pc[c] \notin {"idle", "run"} \/ failed[c] => call[c] # None /\ ~call[c].dry

-----------------------------------------------------------------------------
(* Native commands, external: exit status, whether the phrase is in the    *)
(* output, and the package afterwards.                                     *)

Ran(zero, phrase, now) == [zero |-> zero, phrase |-> phrase, now |-> now]

NothingToInstall(v) == [zero : BOOLEAN, phrase : {EnglishOutput}, now : {v} \ {"absent"}]

NativeInstall(v) ==
  [zero : {TRUE}, phrase : {FALSE}, now : Installs(v)]
  \cup [zero : {FALSE}, phrase : {FALSE}, now : Installs(v) \cup {v}]
  \cup NothingToInstall(v)

\* Removing what is absent fails or not, depending on the manager; a failed
\* removal may mention that something is not installed.
NativeRemove(v) ==
  [zero : {TRUE}, phrase : {FALSE, EnglishOutput}, now : {"absent"}]
  \cup [zero : {FALSE}, phrase : {FALSE, EnglishOutput}, now : {v}]
  \cup [zero : {FALSE}, phrase : {FALSE}, now : {"absent"}]

NativeUpgrade(v) == [zero : BOOLEAN, phrase : {FALSE}, now : Upgrades(v)]
NativeRefresh(v) == [zero : BOOLEAN, phrase : {FALSE}, now : {v}]
NativeRepair     == [zero : BOOLEAN, phrase : {FALSE}, now : Version]

Native(op, v) ==
  CASE op = "install" -> NativeInstall(v)
    [] op = "remove"  -> NativeRemove(v)
    [] op = "upgrade" -> NativeUpgrade(v)
    [] op = "refresh" -> NativeRefresh(v)
    [] op = "repair"  -> NativeRepair

-----------------------------------------------------------------------------
(* What the adapters make of it.                                           *)

\* Names with an underscore are plausible mistakes in the definition that
\* follows them; they show that a property can fail and are used nowhere.

\* A repair of apt's or dnf's is two native commands.
Commands(op) == IF op = "repair" /\ setup.manager \in {"apt", "dnf"} THEN 2 ELSE 1

Says(op, out, ok) ==
  CASE op = "install" -> [ok |-> ok, already |-> out.phrase]
    [] op = "remove"  -> [ok |-> ok \/ out.phrase, already |-> out.phrase]
    [] OTHER          -> [ok |-> ok, already |-> FALSE]

ManagerInit ==
  /\ setup \in [manager : Manager, root : SUBSET Caller]
  /\ pkg \in Version
  /\ holder = None
  /\ file = FALSE
  /\ pc = [c \in Caller |-> "idle"]
  /\ call = [c \in Caller |-> None]
  /\ reply = [c \in Caller |-> None]
  /\ left = [c \in Caller |-> 0]
  /\ failed = [c \in Caller |-> FALSE]
  /\ busy = [c \in Caller |-> FALSE]

Goto(c, from, to) == pc[c] = from /\ pc' = [pc EXCEPT ![c] = to]

Call(c, r) ==
  /\ Goto(c, "idle", IF r.dry THEN "run" ELSE "probe")
  /\ call' = [call EXCEPT ![c] = r]
  /\ reply' = [reply EXCEPT ![c] = None]
  /\ left' = [left EXCEPT ![c] = Commands(r.op)]
  /\ busy' = [busy EXCEPT ![c] = FALSE]
  /\ UNCHANGED <<setup, pkg, holder, file, failed>>

Over_KeepsCall(c, answer, isBusy) ==
  /\ pc' = [pc EXCEPT ![c] = "idle"]
  /\ reply' = [reply EXCEPT ![c] = answer]
  /\ left' = [left EXCEPT ![c] = 0]
  /\ failed' = [failed EXCEPT ![c] = FALSE]
  /\ busy' = [busy EXCEPT ![c] = isBusy]
  /\ UNCHANGED <<setup, call>>

\* The call is over, with an answer or with its process.
Over(c, answer, isBusy) ==
  /\ pc' = [pc EXCEPT ![c] = "idle"]
  /\ call' = [call EXCEPT ![c] = None]
  /\ reply' = [reply EXCEPT ![c] = answer]
  /\ left' = [left EXCEPT ![c] = 0]
  /\ failed' = [failed EXCEPT ![c] = FALSE]
  /\ busy' = [busy EXCEPT ![c] = isBusy]
  /\ UNCHANGED setup

Busy_NothingToDo(c) ==
  /\ Over(c, [ok |-> TRUE, already |-> FALSE], TRUE)
  /\ UNCHANGED <<pkg, holder, file>>

\* _locked_result, _locked_package_result.
Busy(c) ==
  /\ Over(c, [ok |-> FALSE, already |-> FALSE], TRUE)
  /\ UNCHANGED <<pkg, holder, file>>

ToRun(c) ==
  /\ Goto(c, "probe", "run")
  /\ UNCHANGED <<setup, pkg, holder, file, call, reply, left, failed, busy>>

LookForFile_Wait(c) ==
  /\ pc[c] = "probe" /\ LockIsFile
  /\ ~file /\ ToRun(c)

\* existence_lock_probe.
LookForFile(c) ==
  /\ pc[c] = "probe" /\ LockIsFile
  /\ IF file THEN Busy(c) ELSE ToRun(c)

\* flock_lock_probe takes the lock, without waiting; the lock file is root's,
\* and a file that cannot be opened counts as free.
TryLock(c) ==
  /\ pc[c] = "probe" /\ ~LockIsFile
  /\ \/ c \notin Root /\ ToRun(c)
     \/ c \in Root /\ holder # None /\ Busy(c)
     \/ /\ c \in Root /\ holder = None
        /\ Goto(c, "probe", "unlock")
        /\ holder' = c
        /\ UNCHANGED <<setup, pkg, file, call, reply, left, failed, busy>>

Unlock_Forgotten(c) ==
  /\ Goto(c, "unlock", "run")
  /\ UNCHANGED <<setup, pkg, holder, file, call, reply, left, failed, busy>>

\* ... and lets it go again.
Unlock(c) ==
  /\ Goto(c, "unlock", "run")
  /\ holder' = None
  /\ UNCHANGED <<setup, pkg, file, call, reply, left, failed, busy>>

\* One native command of the call is over; the last one makes the reply.
Ended(c, out) ==
  /\ pkg' = out.now
  /\ IF left[c] > 1
     THEN /\ pc' = [pc EXCEPT ![c] = "run"]
          /\ left' = [left EXCEPT ![c] = @ - 1]
          /\ failed' = [failed EXCEPT ![c] = @ \/ ~out.zero]
          /\ UNCHANGED <<setup, call, reply, busy>>
     ELSE Over(c, Says(call[c].op, out, out.zero /\ ~failed[c]), FALSE)

\* DryRunCommandRunner: exit 0, no output, nothing done.
DryRun(c) ==
  /\ pc[c] = "run" /\ call[c].dry
  /\ Ended(c, Ran(TRUE, FALSE, pkg))
  /\ UNCHANGED <<holder, file>>

\* The native manager gets its lock, or waits for it.
Start(c) ==
  /\ Goto(c, "run", "native")
  /\ ~call[c].dry
  /\ holder = None
  /\ holder' = c
  /\ file' = LockIsFile
  /\ UNCHANGED <<setup, pkg, call, reply, left, failed, busy>>

\* It gives up: the lock is taken or its file is there, there is no such
\* command, sudo refuses, or it waited until the timeout.
Refused(c) ==
  /\ pc[c] = "run" /\ ~call[c].dry
  /\ Ended(c, Ran(FALSE, FALSE, pkg))
  /\ UNCHANGED <<holder, file>>

Finishes(c, out) ==
  /\ pc[c] = "native"
  /\ out \in Native(call[c].op, pkg)
  /\ Ended(c, out)
  /\ holder' = None
  /\ file' = FALSE

\* The child is killed at the timeout, whatever it had done by then; what it
\* started itself may go on, and nobody removes its lock file.
TimedOut(c, out) ==
  /\ pc[c] = "native" /\ c \in Root
  /\ out \in Native(call[c].op, pkg)
  /\ Ended(c, [out EXCEPT !.zero = FALSE])
  /\ holder' \in {None, Other}
  /\ UNCHANGED file

\* The kill of a sudo, which is root's, is refused: subprocess waits for the child to end and
\* the PermissionError ends hallfix.
Overrun(c) ==
  /\ Goto(c, "native", "overrun")
  /\ c \notin Root
  /\ UNCHANGED <<setup, pkg, holder, file, call, reply, left, failed, busy>>

Raises(c, out) ==
  /\ pc[c] = "overrun"
  /\ out \in Native(call[c].op, pkg)
  /\ pkg' = out.now
  /\ Over(c, None, FALSE)
  /\ holder' = None
  /\ file' = FALSE

\* hallfix is killed: the kernel takes back its own lock, its child lives on.
Killed(c) ==
  /\ pc[c] # "idle"
  /\ Over(c, None, FALSE)
  /\ holder' = IF holder # c THEN holder ELSE IF pc[c] = "unlock" THEN None ELSE Other
  /\ UNCHANGED <<pkg, file>>

-----------------------------------------------------------------------------
(* The managers other people run, external.                                *)

OthersStart ==
  /\ holder = None
  /\ holder' = Other
  /\ file' = LockIsFile
  /\ UNCHANGED <<setup, pkg, callVars>>

OthersChange(v) ==
  /\ holder = Other
  /\ pkg' = v
  /\ UNCHANGED <<setup, holder, file, callVars>>

OthersEnd ==
  /\ holder = Other
  /\ holder' = None
  /\ file' = FALSE
  /\ UNCHANGED <<setup, pkg, callVars>>

OthersDie ==
  /\ holder = Other
  /\ holder' = None
  /\ UNCHANGED <<setup, pkg, file, callVars>>

\* The user removes a lock file that was left behind.
CleanUp ==
  /\ file /\ holder = None
  /\ file' = FALSE
  /\ UNCHANGED <<setup, pkg, holder, callVars>>

-----------------------------------------------------------------------------
Progress(c) ==
  \/ LookForFile(c)
  \/ TryLock(c)
  \/ Unlock(c)
  \/ DryRun(c)
  \/ Start(c)
  \/ Refused(c)
  \/ call[c] # None /\ \E out \in Native(call[c].op, pkg) :
       Finishes(c, out) \/ TimedOut(c, out) \/ Raises(c, out)

Outsiders ==
  \/ OthersStart
  \/ \E v \in Version : OthersChange(v)
  \/ OthersEnd
  \/ OthersDie
  \/ CleanUp

ManagerNext ==
  \/ \E c \in Caller :
       \/ \E r \in Request : Call(c, r)
       \/ Progress(c)
       \/ Overrun(c)
       \/ Killed(c)
  \/ Outsiders

ManagerSpec == ManagerInit /\ [][ManagerNext]_pmVars

\* Every native command has a timeout and the adapter never loops; nothing is
\* assumed of the other managers, nor of a command that cannot be killed.
ManagerFairSpec == ManagerSpec /\ \A c \in Caller : WF_pmVars(c \in Root /\ Progress(c))

-----------------------------------------------------------------------------
(* Properties.                                                             *)

Ops == INSTANCE PackageOps WITH asked <- call

\* However the probes, native locks, timeouts and other managers interleave,
\* a call takes effect at one moment and reports it in one of the ways the
\* Executor and the Planner's records are built on (Packages).
ImplementsOps == Ops!OpsSpec

\* "Another apt/dnf/pacman/zypper process holds the lock": with apt, hallfix
\* says busy only while somebody else really has the lock - another manager,
\* or a probe or command of another hallfix - never because of its own probe
\* or of a lock that one of its earlier calls left behind.
BusyMeansBusy ==
  [][\A c \in Caller :
       ~LockIsFile /\ busy'[c] /\ ~busy[c] =>
         \/ holder = Other
         \/ \E d \in Caller \ {c} : pc[d] \in {"unlock", "native", "overrun"}]_pmVars

\* hallfix leaves no lock behind: whoever of its processes has the lock is
\* inside the probe or runs a native command, and each such command has it.
LockHeldInUse ==
  \A c \in Caller : holder = c <=> pc[c] \in {"unlock", "native", "overrun"}

\* Every call of a process of root's comes back, if only by the end of its
\* process: no held lock, no lock file left behind for ever and no hanging
\* native command, its own or another's, keeps it.
CallsReturn == \A c \in Caller : c \in Root /\ pc[c] # "idle" ~> pc[c] = "idle"
=============================================================================
