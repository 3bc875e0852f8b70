------------------------ MODULE PackageManagerProofs ------------------------
(***************************************************************************)
(* Proofs about PackageManager, for any number of processes, any of the    *)
(* four managers, any language of theirs.                                  *)
(***************************************************************************)
EXTENDS PackageManager, TLAPS

Output == [zero : BOOLEAN, phrase : BOOLEAN, now : Version]

LEMMA NativeCases ==
  /\ \A v : /\ Native("install", v) = NativeInstall(v)
            /\ Native("remove", v) = NativeRemove(v)
            /\ Native("upgrade", v) = NativeUpgrade(v)
            /\ Native("refresh", v) = NativeRefresh(v)
            /\ Native("repair", v) = NativeRepair
BY DEF Native

LEMMA NativeOutput ==
  ASSUME NEW v \in Version, NEW r \in Request, NEW out \in Native(r.op, v)
  PROVE  out \in Output
<1>1. Installs(v) \subseteq Version /\ Upgrades(v) \subseteq Version /\ "absent" \in Version
  BY DEF Installs, Upgrades, Version
<1>2. NativeInstall(v) \subseteq Output
  BY <1>1, ManagerAssumption DEF NativeInstall, NothingToInstall, Output
<1>3. NativeRemove(v) \subseteq Output
  BY <1>1, ManagerAssumption DEF NativeRemove, Output
<1>4. NativeUpgrade(v) \subseteq Output /\ NativeRefresh(v) \subseteq Output
  BY <1>1 DEF NativeUpgrade, NativeRefresh, Output
<1>5. NativeRepair \subseteq Output
  BY DEF NativeRepair, Output
<1>6. r.op \in {"install", "remove", "refresh", "upgrade", "repair"}
  BY DEF Request
<1>7. QED BY <1>2, <1>3, <1>4, <1>5, <1>6, NativeCases

\* A step that ends a call keeps the types.
LEMMA OverType ==
  ASSUME ManagerTypeOK, NEW c \in Caller, NEW answer \in Reply \cup {None}, NEW b \in BOOLEAN,
         Over(c, answer, b),
         pkg' \in Version, holder' \in Caller \cup {Other, None}, file' \in BOOLEAN
  PROVE  ManagerTypeOK'
BY DEF ManagerTypeOK, Over

LEMMA SaysReply ==
  ASSUME NEW r \in Request, NEW out \in Output, NEW ok \in BOOLEAN
  PROVE  Says(r.op, out, ok) \in Reply
BY DEF Says, Reply, Request, Output

\* So does the end of one of its native commands.
LEMMA EndedType ==
  ASSUME ManagerTypeOK, NEW c \in Caller, NEW out \in Output, pc[c] # "idle", Ended(c, out),
         call[c].dry => out.zero, holder' \in Caller \cup {Other, None}, file' \in BOOLEAN
  PROVE  ManagerTypeOK'
<1>1. call[c] \in Request
  BY DEF ManagerTypeOK
<1>2. out.now \in Version /\ out.zero \in BOOLEAN /\ failed[c] \in BOOLEAN
  BY DEF ManagerTypeOK, Output
<1>3. CASE left[c] > 1
  <2>1. left' \in [Caller -> 0 .. 2]
    BY <1>3 DEF ManagerTypeOK, Ended
  <2>2. failed' \in [Caller -> BOOLEAN]
    <3>1. (failed[c] \/ ~out.zero) \in BOOLEAN BY <1>2
    <3>2. QED BY <1>3, <3>1, Zenon DEF ManagerTypeOK, Ended
  <2>3. /\ pc' = [pc EXCEPT ![c] = "run"]
        /\ UNCHANGED <<setup, call, reply, busy>>
        /\ pkg' \in Version
    BY <1>2, <1>3 DEF Ended
  <2>4. \A d \in Caller : failed'[d] => failed[d] \/ (d = c /\ ~call[d].dry)
    BY <1>3 DEF ManagerTypeOK, Ended
  <2>5. QED BY <1>1, <2>1, <2>2, <2>3, <2>4, ManagerAssumption DEF ManagerTypeOK
<1>4. CASE ~(left[c] > 1)
  <2>1. Says(call[c].op, out, out.zero /\ ~failed[c]) \in Reply
    BY <1>1, <1>2, SaysReply
  <2>2. Over(c, Says(call[c].op, out, out.zero /\ ~failed[c]), FALSE) /\ pkg' \in Version
    BY <1>2, <1>4 DEF Ended
  <2>3. QED BY <2>1, <2>2, OverType
<1>5. QED BY <1>3, <1>4

\* The package, the lock and the calls have their types, and a process
\* without a call is idle.
THEOREM ManagerTypeCorrect == ManagerSpec => []ManagerTypeOK
<1>1. ManagerInit => ManagerTypeOK
  <2> SUFFICES ASSUME ManagerInit PROVE ManagerTypeOK
    OBVIOUS
  <2>1. failed \in [Caller -> BOOLEAN] /\ busy \in [Caller -> BOOLEAN]
    BY Zenon DEF ManagerInit
  <2>2. left \in [Caller -> 0 .. 2]
    BY DEF ManagerInit
  <2>3. QED BY <2>1, <2>2 DEF ManagerInit, ManagerTypeOK
<1>2. ManagerTypeOK /\ [ManagerNext]_pmVars => ManagerTypeOK'
  <2> SUFFICES ASSUME ManagerTypeOK, [ManagerNext]_pmVars PROVE ManagerTypeOK'
    OBVIOUS
  <2> USE ManagerAssumption
  <2>1. ASSUME NEW c \in Caller, NEW r \in Request, Call(c, r) PROVE ManagerTypeOK'
    <3>1. Commands(r.op) \in 0 .. 2 BY DEF Commands
    <3>2. QED BY <2>1, <3>1 DEF ManagerTypeOK, Call, Goto
  <2>2. ASSUME NEW c \in Caller, Busy(c) PROVE ManagerTypeOK'
    <3>1. [ok |-> FALSE, already |-> FALSE] \in Reply BY DEF Reply
    <3>2. QED BY <2>2, <3>1, OverType DEF Busy, ManagerTypeOK
  <2>3. ASSUME NEW c \in Caller, ToRun(c) PROVE ManagerTypeOK'
    BY <2>3 DEF ManagerTypeOK, ToRun, Goto
  <2>4. ASSUME NEW c \in Caller, LookForFile(c) PROVE ManagerTypeOK'
    BY <2>2, <2>3, <2>4 DEF LookForFile
  <2>5. ASSUME NEW c \in Caller, TryLock(c) PROVE ManagerTypeOK'
    <3>1. CASE Busy(c) \/ ToRun(c)
      BY <2>2, <2>3, <3>1
    <3>2. CASE ~(Busy(c) \/ ToRun(c))
      BY <2>5, <3>2 DEF TryLock, ManagerTypeOK, Goto
    <3>3. QED BY <3>1, <3>2
  <2>6. ASSUME NEW c \in Caller, Unlock(c) PROVE ManagerTypeOK'
    BY <2>6 DEF ManagerTypeOK, Unlock, Goto
  <2>7. ASSUME NEW c \in Caller, DryRun(c) \/ Refused(c) PROVE ManagerTypeOK'
    <3>1. \A z \in BOOLEAN : Ran(z, FALSE, pkg) \in Output
      BY DEF Ran, Output, ManagerTypeOK
    <3>2. pc[c] # "idle" /\ holder' \in Caller \cup {Other, None} /\ file' \in BOOLEAN
      BY <2>7 DEF DryRun, Refused, ManagerTypeOK
    <3>3. CASE DryRun(c)
      <4>1. Ran(TRUE, FALSE, pkg) \in Output /\ Ran(TRUE, FALSE, pkg).zero
        BY DEF Ran, Output, ManagerTypeOK
      <4>2. Ended(c, Ran(TRUE, FALSE, pkg)) BY <3>3 DEF DryRun
      <4>3. QED BY <3>2, <4>1, <4>2, EndedType
    <3>4. CASE Refused(c)
      <4>1. Ran(FALSE, FALSE, pkg) \in Output BY <3>1
      <4>2. Ended(c, Ran(FALSE, FALSE, pkg)) /\ ~call[c].dry BY <3>4 DEF Refused
      <4>3. QED BY <3>2, <4>1, <4>2, EndedType
    <3>5. QED BY <2>7, <3>3, <3>4
  <2>8. ASSUME NEW c \in Caller, Start(c) PROVE ManagerTypeOK'
    BY <2>8 DEF ManagerTypeOK, Start, Goto, LockIsFile
  <2>9. ASSUME NEW c \in Caller, call[c] # None, NEW out \in Native(call[c].op, pkg),
               Finishes(c, out) \/ TimedOut(c, out) \/ Raises(c, out)
        PROVE  ManagerTypeOK'
    <3>1. out \in Output /\ [out EXCEPT !.zero = FALSE] \in Output
      <4>1. out \in Output BY <2>9, NativeOutput DEF ManagerTypeOK
      <4>2. QED BY <4>1 DEF Output
    <3>2. CASE Finishes(c, out)
      BY <3>1, <3>2, EndedType DEF Finishes, ManagerTypeOK
    <3>3. CASE TimedOut(c, out)
      BY <3>1, <3>3, EndedType DEF TimedOut, ManagerTypeOK
    <3>4. CASE Raises(c, out)
      BY <3>1, <3>4, OverType DEF Raises, Output
    <3>5. QED BY <2>9, <3>2, <3>3, <3>4
  <2>10. ASSUME NEW c \in Caller, Overrun(c) PROVE ManagerTypeOK'
    BY <2>10 DEF ManagerTypeOK, Overrun, Goto
  <2>11. ASSUME NEW c \in Caller, Killed(c) PROVE ManagerTypeOK'
    <3>1. holder' \in Caller \cup {Other, None}
      BY <2>11 DEF ManagerTypeOK, Killed
    <3>2. pkg' \in Version /\ file' \in BOOLEAN /\ Over(c, None, FALSE)
      BY <2>11 DEF ManagerTypeOK, Killed
    <3>3. None \in Reply \cup {None} /\ FALSE \in BOOLEAN
      OBVIOUS
    <3>4. QED BY <3>1, <3>2, <3>3, OverType
  <2>12. CASE Outsiders
    <3>1. callVars' = callVars /\ setup' = setup
      BY <2>12 DEF Outsiders, OthersStart, OthersChange, OthersEnd, OthersDie, CleanUp, callVars
    <3>2. pkg' \in Version /\ holder' \in Caller \cup {Other, None} /\ file' \in BOOLEAN
      BY <2>12 DEF ManagerTypeOK, Outsiders, OthersStart, OthersChange, OthersEnd, OthersDie,
                   CleanUp, LockIsFile
    <3>3. QED BY <3>1, <3>2 DEF ManagerTypeOK, callVars
  <2>13. CASE UNCHANGED pmVars
    BY <2>13 DEF ManagerTypeOK, pmVars, callVars
  <2>14. QED
    BY <2>1, <2>4, <2>5, <2>6, <2>7, <2>8, <2>9, <2>10, <2>11, <2>12, <2>13
       DEF ManagerNext, Progress
<1>3. QED BY <1>1, <1>2, PTL DEF ManagerSpec

-----------------------------------------------------------------------------
(* The lock.                                                               *)

Using == {"unlock", "native", "overrun"}

\* A process that ends a call or one of its commands uses the lock no more.
LEMMA OverLeaves ==
  ASSUME ManagerTypeOK, NEW c \in Caller, NEW answer, NEW b, Over(c, answer, b)
  PROVE  pc' = [pc EXCEPT ![c] = "idle"]
BY DEF Over

LEMMA EndedLeaves ==
  ASSUME ManagerTypeOK, NEW c \in Caller, NEW out, Ended(c, out)
  PROVE  pc' = [pc EXCEPT ![c] = "run"] \/ pc' = [pc EXCEPT ![c] = "idle"]
BY DEF Ended, Over

\* hallfix never leaves the native lock behind: whoever of its processes has
\* it is in the probe or waits for a command of its own, killed or not.
THEOREM LockHeldInUseSound == ManagerSpec => []LockHeldInUse
<1>1. ManagerInit => LockHeldInUse
  BY ManagerAssumption DEF ManagerInit, LockHeldInUse
<1>2. ManagerTypeOK /\ LockHeldInUse /\ [ManagerNext]_pmVars => LockHeldInUse'
  <2> SUFFICES ASSUME ManagerTypeOK, LockHeldInUse, [ManagerNext]_pmVars PROVE LockHeldInUse'
    OBVIOUS
  <2> USE ManagerAssumption
  <2>1. ASSUME NEW c \in Caller, NEW r \in Request, Call(c, r) PROVE LockHeldInUse'
    BY <2>1 DEF LockHeldInUse, Call, Goto, ManagerTypeOK
  <2>2. ASSUME NEW c \in Caller, pc[c] = "probe", Busy(c) \/ ToRun(c) PROVE LockHeldInUse'
    <3>1. pc' = [pc EXCEPT ![c] = "run"] \/ pc' = [pc EXCEPT ![c] = "idle"]
      BY <2>2 DEF Busy, ToRun, Goto, Over
    <3>2. holder' = holder
      BY <2>2 DEF Busy, ToRun
    <3>3. QED BY <2>2, <3>1, <3>2 DEF LockHeldInUse, ManagerTypeOK
  <2>3. ASSUME NEW c \in Caller, LookForFile(c) PROVE LockHeldInUse'
    BY <2>2, <2>3 DEF LookForFile
  <2>4. ASSUME NEW c \in Caller, TryLock(c) PROVE LockHeldInUse'
    <3>1. CASE Busy(c) \/ ToRun(c)
      BY <2>2, <2>4, <3>1 DEF TryLock
    <3>2. CASE ~(Busy(c) \/ ToRun(c))
      BY <2>4, <3>2 DEF TryLock, LockHeldInUse, Goto, ManagerTypeOK
    <3>3. QED BY <3>1, <3>2
  <2>5. ASSUME NEW c \in Caller, Unlock(c) PROVE LockHeldInUse'
    BY <2>5 DEF LockHeldInUse, Unlock, Goto, ManagerTypeOK
  <2>6. ASSUME NEW c \in Caller, DryRun(c) \/ Refused(c) PROVE LockHeldInUse'
    <3>1. pc' = [pc EXCEPT ![c] = "run"] \/ pc' = [pc EXCEPT ![c] = "idle"]
      BY <2>6, EndedLeaves DEF DryRun, Refused
    <3>2. pc[c] = "run" /\ holder' = holder
      BY <2>6 DEF DryRun, Refused
    <3>3. QED BY <3>1, <3>2 DEF LockHeldInUse, ManagerTypeOK
  <2>7. ASSUME NEW c \in Caller, Start(c) PROVE LockHeldInUse'
    BY <2>7 DEF LockHeldInUse, Start, Goto, ManagerTypeOK
  <2>8. ASSUME NEW c \in Caller, NEW out, Finishes(c, out) \/ TimedOut(c, out) \/ Raises(c, out)
        PROVE  LockHeldInUse'
    <3>1. pc' = [pc EXCEPT ![c] = "run"] \/ pc' = [pc EXCEPT ![c] = "idle"]
      BY <2>8, EndedLeaves, OverLeaves DEF Finishes, TimedOut, Raises
    <3>2. holder = c /\ holder' \in {None, Other}
      BY <2>8 DEF LockHeldInUse, Finishes, TimedOut, Raises
    <3>3. QED BY <3>1, <3>2 DEF LockHeldInUse, ManagerTypeOK
  <2>9. ASSUME NEW c \in Caller, Overrun(c) PROVE LockHeldInUse'
    BY <2>9 DEF LockHeldInUse, Overrun, Goto, ManagerTypeOK
  <2>10. ASSUME NEW c \in Caller, Killed(c) PROVE LockHeldInUse'
    <3>1. pc' = [pc EXCEPT ![c] = "idle"]
      BY <2>10, OverLeaves DEF Killed
    <3>2. holder' = IF holder # c THEN holder ELSE IF pc[c] = "unlock" THEN None ELSE Other
      BY <2>10 DEF Killed
    <3>3. QED BY <3>1, <3>2 DEF LockHeldInUse, ManagerTypeOK
  <2>11. CASE Outsiders
    BY <2>11 DEF LockHeldInUse, Outsiders, OthersStart, OthersChange, OthersEnd, OthersDie,
                 CleanUp, callVars, ManagerTypeOK
  <2>12. CASE UNCHANGED pmVars
    BY <2>12 DEF LockHeldInUse, pmVars, callVars
  <2>13. QED
    BY <2>1, <2>3, <2>4, <2>5, <2>6, <2>7, <2>8, <2>9, <2>10, <2>11, <2>12
       DEF ManagerNext, Progress
<1>3. QED BY <1>1, <1>2, ManagerTypeCorrect, PTL DEF ManagerSpec

\* With apt, "busy" means that somebody else has the lock: LockHeldInUse says
\* that it is neither the process's own probe nor a lock it left behind.
THEOREM BusyMeansBusySound == ManagerSpec => BusyMeansBusy
<1>1. ManagerTypeOK /\ LockHeldInUse /\ [ManagerNext]_pmVars
        => [\A c \in Caller :
              ~LockIsFile /\ busy'[c] /\ ~busy[c] =>
                \/ holder = Other
                \/ \E d \in Caller \ {c} : pc[d] \in {"unlock", "native", "overrun"}]_pmVars
  <2> SUFFICES ASSUME ManagerTypeOK, LockHeldInUse, ManagerNext,
                      NEW c \in Caller, ~LockIsFile, busy'[c], ~busy[c]
               PROVE  \/ holder = Other
                      \/ \E d \in Caller \ {c} : pc[d] \in {"unlock", "native", "overrun"}
    OBVIOUS
  <2> USE ManagerAssumption
  <2>1. CASE TryLock(c)
    <3>1. pc[c] = "probe" /\ busy \in [Caller -> BOOLEAN]
      BY <2>1 DEF TryLock, ManagerTypeOK
    <3>2. ~ToRun(c) /\ ~(holder = None)
      BY <2>1, <3>1 DEF TryLock, ToRun, Busy
    <3>3. holder # c
      BY <3>1 DEF LockHeldInUse
    <3>4. QED BY <3>2, <3>3 DEF LockHeldInUse, ManagerTypeOK
  <2>2. ASSUME NEW d \in Caller, LookForFile(d) PROVE FALSE
    BY <2>2 DEF LookForFile
  <2>3. ASSUME NEW d \in Caller, d # c, TryLock(d) PROVE FALSE
    BY <2>3 DEF TryLock, ToRun, Busy, Over, ManagerTypeOK
  <2>4. ASSUME NEW d \in Caller, NEW r \in Request, Call(d, r) PROVE FALSE
    BY <2>4 DEF Call, ManagerTypeOK
  <2>5. ASSUME NEW d \in Caller, NEW out, Ended(d, out) PROVE FALSE
    BY <2>5 DEF Ended, Over, ManagerTypeOK
  <2>6. ASSUME NEW d \in Caller, NEW reported, Over(d, reported, FALSE) PROVE FALSE
    BY <2>6 DEF Over, ManagerTypeOK
  <2>7. CASE Outsiders
    BY <2>7 DEF Outsiders, OthersStart, OthersChange, OthersEnd, OthersDie, CleanUp, callVars
  <2>8. ASSUME NEW d \in Caller, Unlock(d) \/ Start(d) \/ Overrun(d) PROVE FALSE
    BY <2>8 DEF Unlock, Start, Overrun
  <2>9. QED
    BY <2>1, <2>2, <2>3, <2>4, <2>5, <2>6, <2>7, <2>8
       DEF ManagerNext, Progress, DryRun, Refused, Finishes, TimedOut, Raises, Killed
<1>2. QED
  BY <1>1, ManagerTypeCorrect, LockHeldInUseSound, PTL DEF ManagerSpec, BusyMeansBusy

-----------------------------------------------------------------------------
(* Refinement of PackageOps.                                               *)

LEMMA SameContract ==
  /\ Ops!Version = Version
  /\ Ops!Request = Request
  /\ \A v : /\ Ops!InstallReports(v) = InstallReports(v)
            /\ Ops!RemoveReports(v) = RemoveReports(v)
            /\ Ops!Upgrades(v) = Upgrades(v)
            /\ \A ok, already : Ops!Report(ok, already, v) = Report(ok, already, v)
BY DEF Ops!Version, Version, Ops!Request, Request, Ops!InstallReports, InstallReports,
       Ops!RemoveReports, RemoveReports, Ops!Upgrades, Upgrades, Ops!Report, Report,
       Ops!Installs, Installs

LEMMA ReportsCases ==
  ASSUME NEW r \in Request, NEW v \in Version
  PROVE
    /\ r.dry => Ops!Reports(r, v) = {Report(TRUE, FALSE, v)}
    /\ ~r.dry =>
         /\ r.op = "install" => Ops!Reports(r, v) = InstallReports(v)
         /\ r.op = "remove" => Ops!Reports(r, v) = RemoveReports(v)
         /\ r.op = "refresh" => Ops!Reports(r, v) = [ok : BOOLEAN, already : {FALSE}, now : {v}]
         /\ r.op = "upgrade" =>
              Ops!Reports(r, v) = [ok : BOOLEAN, already : {FALSE}, now : Upgrades(v)]
         /\ r.op = "repair" =>
              Ops!Reports(r, v) = [ok : BOOLEAN, already : {FALSE}, now : Version]
<1>1. CASE r.dry
  BY <1>1, SameContract DEF Ops!Reports
<1>2. CASE ~r.dry /\ r.op \in {"install", "remove"}
  BY <1>2, SameContract DEF Ops!Reports
<1>3. CASE ~r.dry /\ r.op \in {"refresh", "upgrade", "repair"}
  BY <1>3, SameContract DEF Ops!Reports
<1>4. QED BY <1>1, <1>2, <1>3 DEF Request

\* The members of the report sets, one way at a time.
LEMMA InstallReportsMembers ==
  ASSUME NEW v \in Version
  PROVE  /\ \A w \in Installs(v) : Report(TRUE, FALSE, w) \in InstallReports(v)
         /\ \A w \in Installs(v) \cup {v} : Report(FALSE, FALSE, w) \in InstallReports(v)
         /\ v # "absent" => Report(FALSE, TRUE, v) \in InstallReports(v)
         /\ v # "absent" => Report(TRUE, TRUE, v) \in InstallReports(v)
         /\ v # "absent" /\ ~EnglishOutput => Report(TRUE, FALSE, v) \in InstallReports(v)
<1>1. \A w \in Installs(v) : Report(TRUE, FALSE, w) \in InstallReports(v)
  BY Zenon DEF InstallReports
<1>2. \A w \in Installs(v) \cup {v} : Report(FALSE, FALSE, w) \in InstallReports(v)
  BY Zenon DEF InstallReports
<1>3. v # "absent" => Report(FALSE, TRUE, v) \in InstallReports(v)
  BY Zenon DEF InstallReports
<1>4. v # "absent" => Report(TRUE, TRUE, v) \in InstallReports(v)
  BY Zenon DEF InstallReports
<1>5. v # "absent" /\ ~EnglishOutput => Report(TRUE, FALSE, v) \in InstallReports(v)
  BY Zenon DEF InstallReports
<1>6. QED BY <1>1, <1>2, <1>3, <1>4, <1>5

\* What an adapter says of a native command is one of the promised reports,
\* also when a timeout or an earlier command of the call turned it to failure.
LEMMA SaysIsReport ==
  ASSUME NEW v \in Version, NEW r \in Request, ~r.dry, NEW out \in Native(r.op, v),
         NEW ok \in BOOLEAN, ok => out.zero
  PROVE  LET says == Says(r.op, out, ok)
         IN  Report(says.ok, says.already, out.now) \in Ops!Reports(r, v)
<1> DEFINE says == Says(r.op, out, ok)
<1>1. r.op \in {"install", "remove", "refresh", "upgrade", "repair"}
  BY DEF Request
<1>2. CASE r.op = "install"
  <2>1. out \in NativeInstall(v) BY <1>2, NativeCases
  <2>2. says.ok = ok /\ says.already = out.phrase
    BY <1>2 DEF Says
  <2>3. CASE out \in [zero : {TRUE}, phrase : {FALSE}, now : Installs(v)]
    <3>1. out.phrase = FALSE /\ out.now \in Installs(v) BY <2>3
    <3>2. Report(ok, FALSE, out.now) \in InstallReports(v)
      BY <3>1, InstallReportsMembers
    <3>3. QED BY <1>2, <2>2, <3>1, <3>2, ReportsCases
  <2>4. CASE out \in [zero : {FALSE}, phrase : {FALSE}, now : Installs(v) \cup {v}]
    <3>1. out.phrase = FALSE /\ out.now \in Installs(v) \cup {v} /\ ok = FALSE BY <2>4
    <3>2. Report(ok, FALSE, out.now) \in InstallReports(v)
      BY <3>1, InstallReportsMembers
    <3>3. QED BY <1>2, <2>2, <3>1, <3>2, ReportsCases
  <2>5. CASE out \in NothingToInstall(v)
    <3>1. out.phrase = EnglishOutput /\ out.now = v /\ v # "absent"
      BY <2>5 DEF NothingToInstall
    <3>2. Report(ok, EnglishOutput, v) \in InstallReports(v)
      BY <3>1, InstallReportsMembers, ManagerAssumption DEF ManagerAssumption
    <3>3. QED BY <1>2, <2>2, <3>1, <3>2, ReportsCases
  <2>6. QED BY <2>1, <2>3, <2>4, <2>5 DEF NativeInstall
<1>3. CASE r.op = "remove"
  <2>1. out \in NativeRemove(v) BY <1>3, NativeCases
  <2>2. says.ok = (ok \/ out.phrase) /\ says.already = out.phrase
    BY <1>3 DEF Says
  <2>3. /\ out.phrase \in BOOLEAN
        /\ out.now \in {v, "absent"}
        /\ out.now # "absent" => ~out.zero
    BY <2>1, ManagerAssumption DEF NativeRemove, ManagerAssumption
  <2>4. CASE out.phrase
    <3>1. Report(TRUE, TRUE, v) \in RemoveReports(v)
      BY Zenon DEF RemoveReports
    <3>2. Report(TRUE, TRUE, "absent") \in RemoveReports(v)
      BY Zenon DEF RemoveReports
    <3>3. out.phrase = TRUE /\ says.ok = TRUE /\ says.already = TRUE
      BY <2>2, <2>3, <2>4
    <3>4. Report(TRUE, TRUE, out.now) \in RemoveReports(v)
      BY <2>3, <3>1, <3>2
    <3>5. QED BY <1>3, <3>3, <3>4, ReportsCases
  <2>5. CASE ~out.phrase
    <3>1. Report(ok, FALSE, out.now) \in RemoveReports(v)
      BY <2>3 DEF RemoveReports
    <3>2. QED BY <1>3, <2>2, <2>3, <2>5, <3>1, ReportsCases
  <2>6. QED BY <2>4, <2>5
<1>4. CASE r.op = "refresh"
  <2>1. out \in NativeRefresh(v) BY <1>4, NativeCases
  <2>2. out.now = v
    BY <2>1 DEF NativeRefresh
  <2>3. says.ok = ok /\ says.already = FALSE
    BY <1>4 DEF Says
  <2>4. Report(ok, FALSE, out.now) \in [ok : BOOLEAN, already : {FALSE}, now : {v}]
    BY <2>2 DEF Report
  <2>5. QED BY <1>4, <2>3, <2>4, ReportsCases
<1>5. CASE r.op = "upgrade"
  <2>1. out \in NativeUpgrade(v) BY <1>5, NativeCases
  <2>2. out.now \in Upgrades(v)
    BY <2>1 DEF NativeUpgrade
  <2>3. says.ok = ok /\ says.already = FALSE
    BY <1>5 DEF Says
  <2>4. Report(ok, FALSE, out.now) \in [ok : BOOLEAN, already : {FALSE}, now : Upgrades(v)]
    BY <2>2 DEF Report
  <2>5. QED BY <1>5, <2>3, <2>4, ReportsCases
<1>6. CASE r.op = "repair"
  <2>1. out \in NativeRepair BY <1>6, NativeCases
  <2>2. out.now \in Version
    BY <2>1 DEF NativeRepair
  <2>3. says.ok = ok /\ says.already = FALSE
    BY <1>6 DEF Says
  <2>4. Report(ok, FALSE, out.now) \in [ok : BOOLEAN, already : {FALSE}, now : Version]
    BY <2>2 DEF Report
  <2>5. QED BY <1>6, <2>3, <2>4, ReportsCases
<1>7. QED BY <1>1, <1>2, <1>3, <1>4, <1>5, <1>6

\* A failure that left the package alone - a held lock, a refused command -
\* is always one of the reports.
LEMMA FailureIsReport ==
  ASSUME NEW v \in Version, NEW r \in Request, ~r.dry
  PROVE  Report(FALSE, FALSE, v) \in Ops!Reports(r, v)
<1>1. Report(FALSE, FALSE, v) \in InstallReports(v)
  BY InstallReportsMembers
<1>2. Report(FALSE, FALSE, v) \in RemoveReports(v)
  BY Zenon DEF RemoveReports
<1>3. v \in Upgrades(v)
  BY DEF Upgrades
<1>4. \A S : v \in S => Report(FALSE, FALSE, v) \in [ok : BOOLEAN, already : {FALSE}, now : S]
  BY DEF Report
<1>5. r.op \in {"install", "remove", "refresh", "upgrade", "repair"}
  BY DEF Request
<1>6. QED BY <1>1, <1>2, <1>3, <1>4, <1>5, ReportsCases

\* The end of a native command: of the last one, the answer of the call; of
\* an earlier one, a change somebody made.
LEMMA EndedImplements ==
  ASSUME ManagerTypeOK, NEW c \in Caller, pc[c] # "idle", NEW out, Ended(c, out),
         out.now \in Version,
         LET says == Says(call[c].op, out, out.zero /\ ~failed[c])
         IN  Report(says.ok, says.already, out.now) \in Ops!Reports(call[c], pkg)
  PROVE  Ops!OpsNext
<1> DEFINE says == Says(call[c].op, out, out.zero /\ ~failed[c])
<1>1. CASE left[c] > 1
  <2>1. Ops!Others
    BY <1>1, SameContract DEF Ended, Ops!Others
  <2>2. QED BY <2>1 DEF Ops!OpsNext
<1>2. CASE ~(left[c] > 1)
  <2>1. call[c] # None /\ call[c] \in Request
    BY DEF ManagerTypeOK
  <2>2. Report(says.ok, says.already, out.now) \in Ops!Reports(call[c], pkg)
    OBVIOUS
  <2>3. says = [ok |-> says.ok, already |-> says.already]
    BY <2>1 DEF Says, Request
  <2>4. /\ pkg' = out.now
        /\ call' = [call EXCEPT ![c] = None]
        /\ reply' = [reply EXCEPT ![c] = says]
    BY <1>2 DEF Ended, Over
  <2>5. Ops!Answer(c)
    <3> DEFINE report == Report(says.ok, says.already, out.now)
    <3>1. report.ok = says.ok /\ report.already = says.already /\ report.now = out.now
      BY DEF Report
    <3>2. QED BY <2>1, <2>2, <2>3, <2>4, <3>1 DEF Ops!Answer
  <2>6. QED BY <2>5 DEF Ops!OpsNext
<1>3. QED BY <1>1, <1>2

LEMMA LoseImplements ==
  ASSUME NEW c \in Caller, Over(c, None, FALSE), reply[c] = None, reply \in [Caller -> Reply \cup {None}],
         pkg' \in Version
  PROVE  Ops!OpsNext
<1>1. reply' = reply
  BY DEF Over
<1>2. Ops!Lose(c)
  BY <1>1, SameContract DEF Ops!Lose, Over
<1>3. QED BY <1>2 DEF Ops!OpsNext

\* Whatever the lock, the language, the timeouts and the kills, the adapters
\* implement the atomic operations of PackageOps.
THEOREM ManagerImplementsOps == ManagerSpec => ImplementsOps
<1>1. ManagerInit => Ops!OpsInit
  BY SameContract DEF ManagerInit, Ops!OpsInit
<1>2. ManagerTypeOK /\ ManagerTypeOK' /\ [ManagerNext]_pmVars => [Ops!OpsNext]_<<pkg, call, reply>>
  <2> SUFFICES ASSUME ManagerTypeOK, ManagerTypeOK', [ManagerNext]_pmVars
               PROVE  Ops!OpsNext \/ UNCHANGED <<pkg, call, reply>>
    OBVIOUS
  <2> USE ManagerAssumption
  <2>1. ASSUME NEW c \in Caller, NEW r \in Request, Call(c, r) PROVE Ops!OpsNext
    <3>1. call[c] = None
      BY <2>1 DEF Call, Goto, ManagerTypeOK
    <3>2. Ops!Ask(c)
      BY <2>1, <3>1, SameContract DEF Ops!Ask, Call
    <3>3. QED BY <3>2 DEF Ops!OpsNext
  <2>2. ASSUME NEW c \in Caller, pc[c] = "probe", Busy(c) PROVE Ops!OpsNext
    <3>1. call[c] \in Request /\ call[c] # None /\ ~call[c].dry
      BY <2>2 DEF ManagerTypeOK
    <3>2. Report(FALSE, FALSE, pkg) \in Ops!Reports(call[c], pkg)
      BY <3>1, FailureIsReport DEF ManagerTypeOK
    <3>3. Ops!Answer(c)
      BY <2>2, <3>1, <3>2 DEF Ops!Answer, Busy, Over, Report
    <3>4. QED BY <3>3 DEF Ops!OpsNext
  <2>3. ASSUME NEW c \in Caller, LookForFile(c) \/ TryLock(c)
        PROVE  Ops!OpsNext \/ UNCHANGED <<pkg, call, reply>>
    <3>1. CASE Busy(c)
      BY <2>2, <2>3, <3>1 DEF LookForFile, TryLock
    <3>2. CASE ~Busy(c)
      BY <2>3, <3>2 DEF LookForFile, TryLock, ToRun
    <3>3. QED BY <3>1, <3>2
  <2>4. ASSUME NEW c \in Caller, DryRun(c) PROVE Ops!OpsNext
    <3> DEFINE out == Ran(TRUE, FALSE, pkg)
    <3>1. call[c] \in Request /\ call[c].dry /\ failed[c] = FALSE
      BY <2>4 DEF DryRun, ManagerTypeOK
    <3>2. out.now = pkg /\ out.zero = TRUE /\ out.phrase = FALSE
      BY DEF Ran
    <3>3. LET says == Says(call[c].op, out, out.zero /\ ~failed[c])
          IN  says.ok = TRUE /\ says.already = FALSE
      BY <3>1, <3>2 DEF Says
    <3>4. pkg \in Version BY DEF ManagerTypeOK
    <3>5. Ops!Reports(call[c], pkg) = {Report(TRUE, FALSE, pkg)}
      BY <3>1, <3>4, ReportsCases
    <3>6. LET says == Says(call[c].op, out, out.zero /\ ~failed[c])
          IN  Report(says.ok, says.already, out.now) \in Ops!Reports(call[c], pkg)
      BY <3>2, <3>3, <3>5
    <3>7. pc[c] # "idle" /\ Ended(c, out)
      BY <2>4 DEF DryRun
    <3>8. QED BY <3>2, <3>4, <3>6, <3>7, EndedImplements
  <2>5. ASSUME NEW c \in Caller, Refused(c) PROVE Ops!OpsNext
    <3> DEFINE out == Ran(FALSE, FALSE, pkg)
    <3>1. call[c] \in Request /\ ~call[c].dry
      BY <2>5 DEF Refused, ManagerTypeOK
    <3>2. out.now = pkg /\ out.zero = FALSE /\ out.phrase = FALSE
      BY DEF Ran
    <3>3. LET says == Says(call[c].op, out, out.zero /\ ~failed[c])
          IN  says.ok = FALSE /\ says.already = FALSE
      BY <3>1, <3>2 DEF Says, Request
    <3>4. pkg \in Version BY DEF ManagerTypeOK
    <3>5. LET says == Says(call[c].op, out, out.zero /\ ~failed[c])
          IN  Report(says.ok, says.already, out.now) \in Ops!Reports(call[c], pkg)
      BY <3>1, <3>2, <3>3, <3>4, FailureIsReport
    <3>6. pc[c] # "idle" /\ Ended(c, out)
      BY <2>5 DEF Refused
    <3>7. QED BY <3>2, <3>4, <3>5, <3>6, EndedImplements
  <2>6. ASSUME NEW c \in Caller, NEW out \in Native(call[c].op, pkg), Finishes(c, out)
        PROVE  Ops!OpsNext
    <3>1. call[c] \in Request /\ ~call[c].dry /\ pkg \in Version /\ failed[c] \in BOOLEAN
      BY <2>6 DEF Finishes, ManagerTypeOK
    <3>2. out \in Output
      BY <3>1, NativeOutput
    <3>3. (out.zero /\ ~failed[c]) \in BOOLEAN /\ (out.zero /\ ~failed[c] => out.zero)
      BY <3>1, <3>2 DEF Output
    <3>4. LET says == Says(call[c].op, out, out.zero /\ ~failed[c])
          IN  Report(says.ok, says.already, out.now) \in Ops!Reports(call[c], pkg)
      BY <3>1, <3>3, SaysIsReport
    <3>5. QED BY <2>6, <3>2, <3>4, EndedImplements DEF Finishes, Output
  <2>7. ASSUME NEW c \in Caller, NEW out \in Native(call[c].op, pkg), TimedOut(c, out)
        PROVE  Ops!OpsNext
    <3> DEFINE late == [out EXCEPT !.zero = FALSE]
    <3>1. call[c] \in Request /\ ~call[c].dry /\ pkg \in Version
      BY <2>7 DEF TimedOut, ManagerTypeOK
    <3>2. out \in Output
      BY <3>1, NativeOutput
    <3>3. late.zero = FALSE /\ late.now = out.now /\ late.phrase = out.phrase
      BY <3>2 DEF Output
    <3>4. LET says == Says(call[c].op, out, FALSE)
          IN  Report(says.ok, says.already, out.now) \in Ops!Reports(call[c], pkg)
      BY <3>1, SaysIsReport
    <3>5. Says(call[c].op, late, late.zero /\ ~failed[c]) = Says(call[c].op, out, FALSE)
      BY <3>1, <3>3 DEF Says, Request
    <3>6. LET says == Says(call[c].op, late, late.zero /\ ~failed[c])
          IN  Report(says.ok, says.already, late.now) \in Ops!Reports(call[c], pkg)
      BY <3>3, <3>4, <3>5
    <3>7. late.now \in Version BY <3>2, <3>3 DEF Output
    <3>8. Ended(c, late) /\ pc[c] # "idle"
      BY <2>7 DEF TimedOut
    <3>9. QED BY <3>6, <3>7, <3>8, EndedImplements
  <2>8. ASSUME NEW c \in Caller, NEW out \in Native(call[c].op, pkg), Raises(c, out)
        PROVE  Ops!OpsNext
    BY <2>8, LoseImplements DEF Raises, ManagerTypeOK
  <2>9. ASSUME NEW c \in Caller, Killed(c) PROVE Ops!OpsNext
    BY <2>9, LoseImplements DEF Killed, ManagerTypeOK
  <2>10. ASSUME NEW c \in Caller, Unlock(c) \/ Start(c) \/ Overrun(c)
         PROVE  UNCHANGED <<pkg, call, reply>>
    BY <2>10 DEF Unlock, Start, Overrun
  <2>11. CASE Outsiders
    <3>1. Ops!Others
      BY <2>11, SameContract DEF Outsiders, OthersStart, OthersChange, OthersEnd, OthersDie,
                              CleanUp, callVars, Ops!Others, ManagerTypeOK
    <3>2. QED BY <3>1 DEF Ops!OpsNext
  <2>12. CASE UNCHANGED pmVars
    BY <2>12 DEF pmVars, callVars
  <2>13. QED
    BY <2>1, <2>3, <2>4, <2>5, <2>6, <2>7, <2>8, <2>9, <2>10, <2>11, <2>12
       DEF ManagerNext, Progress
<1>3. QED
  BY <1>1, <1>2, ManagerTypeCorrect, PTL
     DEF ManagerSpec, ImplementsOps, Ops!OpsSpec, Ops!opsVars

-----------------------------------------------------------------------------
(* Calls are bounded: what CallsReturn needs besides fairness.             *)

\* The probe, and for each native command its start, its end, and the wait
\* for a child that cannot be killed.
StepsLeft(c) ==
  CASE pc[c] = "probe"   -> 3 * left[c] + 2
    [] pc[c] = "unlock"  -> 3 * left[c] + 1
    [] pc[c] = "run"     -> 3 * left[c]
    [] pc[c] = "native"  -> 3 * left[c] - 1
    [] pc[c] = "overrun" -> 1
    [] OTHER             -> 0

\* A call that is under way has a native command to run.
CommandsLeft == \A c \in Caller : pc[c] # "idle" => left[c] \in 1 .. 2

\* A step of a call leads nearer to its end.
LEMMA OverIsNearer ==
  ASSUME ManagerTypeOK, CommandsLeft, NEW c \in Caller, pc[c] # "idle", NEW answer, NEW b, Over(c, answer, b)
  PROVE  CommandsLeft' /\ StepsLeft(c)' \in 0 .. StepsLeft(c) - 1
<1>1. /\ pc'[c] = "idle" /\ \A d \in Caller \ {c} : pc'[d] = pc[d] /\ left'[d] = left[d]
  BY DEF ManagerTypeOK, Over
<1>2. CommandsLeft'
  BY <1>1 DEF CommandsLeft
<1>3. StepsLeft(c)' = 0
  BY <1>1 DEF StepsLeft
<1>4. left[c] \in 1 .. 2 /\ pc[c] \in {"probe", "unlock", "run", "native", "overrun"}
  BY DEF CommandsLeft, ManagerTypeOK
<1>5. StepsLeft(c) \in 1 .. 8
  BY <1>4 DEF StepsLeft
<1>6. QED BY <1>2, <1>3, <1>5

LEMMA EndedIsNearer ==
  ASSUME ManagerTypeOK, CommandsLeft, NEW c \in Caller, pc[c] \in {"run", "native"}, NEW out, Ended(c, out)
  PROVE  CommandsLeft' /\ StepsLeft(c)' \in 0 .. StepsLeft(c) - 1
<1>1. CASE left[c] > 1
  <2>1. /\ pc'[c] = "run" /\ left'[c] = left[c] - 1
        /\ \A d \in Caller \ {c} : pc'[d] = pc[d] /\ left'[d] = left[d]
    BY <1>1 DEF ManagerTypeOK, Ended
  <2>2. left[c] = 2
    BY <1>1 DEF CommandsLeft
  <2>3. CommandsLeft'
    BY <2>1, <2>2 DEF CommandsLeft
  <2>4. StepsLeft(c)' = 3 /\ StepsLeft(c) \in 5 .. 6
    BY <2>1, <2>2 DEF StepsLeft
  <2>5. QED BY <2>3, <2>4
<1>2. CASE ~(left[c] > 1)
  BY <1>2, OverIsNearer DEF Ended
<1>3. QED BY <1>1, <1>2

LEMMA GotoIsNearer ==
  ASSUME ManagerTypeOK, CommandsLeft, NEW c \in Caller, left' = left,
         \/ Goto(c, "probe", "unlock") \/ Goto(c, "probe", "run") \/ Goto(c, "unlock", "run")
         \/ Goto(c, "run", "native") \/ Goto(c, "native", "overrun")
  PROVE  CommandsLeft' /\ StepsLeft(c)' \in 0 .. StepsLeft(c) - 1
<1>1. \A d \in Caller \ {c} : pc'[d] = pc[d]
  BY DEF ManagerTypeOK, Goto
<1>2. pc[c] # "idle" /\ left[c] \in 1 .. 2
  BY DEF Goto, CommandsLeft
<1>3. CommandsLeft'
  BY <1>1, <1>2 DEF CommandsLeft
<1>4. \/ pc[c] = "probe" /\ pc'[c] = "unlock"
      \/ pc[c] = "probe" /\ pc'[c] = "run"
      \/ pc[c] = "unlock" /\ pc'[c] = "run"
      \/ pc[c] = "run" /\ pc'[c] = "native"
      \/ pc[c] = "native" /\ pc'[c] = "overrun"
  BY DEF ManagerTypeOK, Goto
<1>5. StepsLeft(c)' \in 0 .. StepsLeft(c) - 1
  BY <1>2, <1>4 DEF StepsLeft
<1>6. QED BY <1>3, <1>5

LEMMA CallStep ==
  ASSUME ManagerTypeOK, CommandsLeft, NEW c \in Caller, Progress(c) \/ Overrun(c) \/ Killed(c)
  PROVE  pc[c] # "idle" /\ CommandsLeft' /\ StepsLeft(c)' \in 0 .. StepsLeft(c) - 1
<1>1. CASE LookForFile(c)
  BY <1>1, OverIsNearer, GotoIsNearer DEF LookForFile, Busy, ToRun
<1>2. CASE TryLock(c)
  BY <1>2, OverIsNearer, GotoIsNearer DEF TryLock, Busy, ToRun
<1>3. CASE Unlock(c)
  BY <1>3, GotoIsNearer DEF Unlock, Goto
<1>4. CASE Start(c)
  BY <1>4, GotoIsNearer DEF Start, Goto
<1>5. CASE Overrun(c)
  BY <1>5, GotoIsNearer DEF Overrun, Goto
<1>6. CASE DryRun(c) \/ Refused(c)
  BY <1>6, EndedIsNearer DEF DryRun, Refused
<1>7. CASE \E out : Finishes(c, out) \/ TimedOut(c, out)
  BY <1>7, EndedIsNearer DEF Finishes, TimedOut
<1>8. CASE \E out : Raises(c, out)
  BY <1>8, OverIsNearer DEF Raises
<1>9. CASE Killed(c)
  BY <1>9, OverIsNearer DEF Killed
<1>10. QED BY <1>1, <1>2, <1>3, <1>4, <1>5, <1>6, <1>7, <1>8, <1>9 DEF Progress

\* What every step is, for the measure.
LEMMA CallerSteps ==
  ASSUME [ManagerNext]_pmVars
  PROVE  \/ \E c \in Caller : Progress(c) \/ Overrun(c) \/ Killed(c)
         \/ \E c \in Caller, r \in Request : Call(c, r)
         \/ UNCHANGED <<pc, left>>
BY DEF ManagerNext, Outsiders, OthersStart, OthersChange, OthersEnd, OthersDie, CleanUp, pmVars, callVars

\* No step of anybody else reaches into a call.
LEMMA OthersLeaveCall ==
  ASSUME ManagerTypeOK, [ManagerNext]_pmVars, NEW c \in Caller, pc[c] # "idle",
         ~(Progress(c) \/ Overrun(c) \/ Killed(c))
  PROVE  pc'[c] = pc[c] /\ left'[c] = left[c]
<1>1. ASSUME NEW d \in Caller, Progress(d) \/ Overrun(d) \/ Killed(d)
      PROVE  pc'[c] = pc[c] /\ left'[c] = left[c]
  <2>1. d # c
    BY <1>1
  <2>2. CASE \E answer, b : Over(d, answer, b)
    BY <2>1, <2>2 DEF ManagerTypeOK, Over
  <2>3. CASE \E out : Ended(d, out)
    BY <2>1, <2>2, <2>3 DEF ManagerTypeOK, Ended
  <2>4. CASE left' = left /\ \E from, to : Goto(d, from, to)
    BY <2>1, <2>4 DEF ManagerTypeOK, Goto
  <2>5. CASE LookForFile(d) \/ TryLock(d)
    BY <2>2, <2>4, <2>5 DEF LookForFile, TryLock, Busy, ToRun
  <2>6. CASE Unlock(d) \/ Start(d) \/ Overrun(d)
    BY <2>4, <2>6 DEF Unlock, Start, Overrun
  <2>7. CASE DryRun(d) \/ Refused(d)
    BY <2>3, <2>7 DEF DryRun, Refused
  <2>8. CASE \E out : Finishes(d, out) \/ TimedOut(d, out) \/ Raises(d, out)
    BY <2>2, <2>3, <2>8 DEF Finishes, TimedOut, Raises
  <2>9. CASE Killed(d)
    BY <2>2, <2>9 DEF Killed
  <2>10. QED BY <1>1, <2>5, <2>6, <2>7, <2>8, <2>9 DEF Progress
<1>2. ASSUME NEW d \in Caller, NEW r \in Request, Call(d, r)
      PROVE  pc'[c] = pc[c] /\ left'[c] = left[c]
  BY <1>2 DEF ManagerTypeOK, Call, Goto
<1>3. QED BY <1>1, <1>2, CallerSteps

LEMMA CommandsLeftInvariant == ManagerSpec => []CommandsLeft
<1>1. ManagerInit => CommandsLeft
  BY DEF ManagerInit, CommandsLeft
<1>2. ManagerTypeOK /\ CommandsLeft /\ [ManagerNext]_pmVars => CommandsLeft'
  <2> SUFFICES ASSUME ManagerTypeOK, CommandsLeft, [ManagerNext]_pmVars PROVE CommandsLeft'
    OBVIOUS
  <2>1. ASSUME NEW c \in Caller, NEW r \in Request, Call(c, r) PROVE CommandsLeft'
    <3>1. /\ left'[c] = Commands(r.op)
          /\ \A d \in Caller \ {c} : pc'[d] = pc[d] /\ left'[d] = left[d]
      BY <2>1 DEF ManagerTypeOK, Call, Goto
    <3>2. Commands(r.op) \in 1 .. 2
      BY DEF Commands
    <3>3. QED BY <3>1, <3>2 DEF CommandsLeft
  <2>2. CASE UNCHANGED <<pc, left>>
    BY <2>2 DEF CommandsLeft
  <2>3. QED BY <2>1, <2>2, CallStep, CallerSteps
<1>3. QED BY <1>1, <1>2, ManagerTypeCorrect, PTL DEF ManagerSpec

\* Each step of a call leads nearer to its end, no step of anybody else leads
\* it away from it.
CallsAreBounded ==
  [][\A c \in Caller : pc[c] # "idle" =>
       /\ StepsLeft(c)' <= StepsLeft(c)
       /\ Progress(c) => StepsLeft(c)' < StepsLeft(c)]_pmVars

\* A call takes at most eight steps (two native commands behind a probe with
\* a lock), and its native command can end.
CallsCanEnd ==
  \A c \in Caller : pc[c] # "idle" =>
    /\ StepsLeft(c) \in 1 .. 8
    /\ call[c] # None /\ Native(call[c].op, pkg) # {}

\* What CallsReturn needs besides the fairness of a call's steps, for any
\* number of processes, of root's or behind sudo, with any of the managers: no
\* held lock, file or hanging command of others makes a call loop or wait. Only
\* the end of a child that cannot be killed is not in hallfix's hands.
THEOREM CallsAreBoundedSound == ManagerSpec => []CallsCanEnd /\ CallsAreBounded
<1>1. ManagerTypeOK /\ CommandsLeft => CallsCanEnd
  <2> SUFFICES ASSUME ManagerTypeOK, CommandsLeft, NEW c \in Caller, pc[c] # "idle"
               PROVE  /\ StepsLeft(c) \in 1 .. 8
                      /\ call[c] # None /\ Native(call[c].op, pkg) # {}
    BY DEF CallsCanEnd
  <2>1. left[c] \in 1 .. 2 /\ pc[c] \in {"probe", "unlock", "run", "native", "overrun"}
    BY DEF CommandsLeft, ManagerTypeOK
  <2>2. StepsLeft(c) \in 1 .. 8
    BY <2>1 DEF StepsLeft
  <2>3. call[c] \in Request
    BY DEF ManagerTypeOK
  <2>4. call[c].op \in {"install", "remove", "refresh", "upgrade", "repair"}
    BY <2>3 DEF Request
  <2>5. [zero |-> FALSE, phrase |-> FALSE, now |-> pkg] \in Native(call[c].op, pkg)
    <3>1. pkg \in Version /\ pkg \in Upgrades(pkg)
      BY DEF ManagerTypeOK, Upgrades
    <3>2. QED BY <2>4, <3>1, NativeCases DEF NativeInstall, NativeRemove, NativeUpgrade, NativeRefresh,
                                             NativeRepair
  <2>6. QED BY <2>2, <2>3, <2>5, ManagerAssumption
<1>2. ManagerTypeOK /\ CommandsLeft /\ [ManagerNext]_pmVars =>
        [\A c \in Caller : pc[c] # "idle" =>
           /\ StepsLeft(c)' <= StepsLeft(c)
           /\ Progress(c) => StepsLeft(c)' < StepsLeft(c)]_pmVars
  <2> SUFFICES ASSUME ManagerTypeOK, CommandsLeft, [ManagerNext]_pmVars, NEW c \in Caller, pc[c] # "idle"
               PROVE  /\ StepsLeft(c)' <= StepsLeft(c)
                      /\ Progress(c) => StepsLeft(c)' < StepsLeft(c)
    OBVIOUS
  <2>1. StepsLeft(c) \in 1 .. 8
    BY <1>1 DEF CallsCanEnd
  <2>2. CASE Progress(c) \/ Overrun(c) \/ Killed(c)
    <3>1. StepsLeft(c)' \in 0 .. StepsLeft(c) - 1
      BY <2>2, CallStep
    <3>2. StepsLeft(c)' <= StepsLeft(c) /\ StepsLeft(c)' < StepsLeft(c)
      BY <2>1, <3>1
    <3>3. QED BY <3>2, Zenon
  <2>3. CASE ~(Progress(c) \/ Overrun(c) \/ Killed(c))
    <3>1. pc'[c] = pc[c] /\ left'[c] = left[c]
      BY <2>3, OthersLeaveCall
    <3>2. StepsLeft(c)' = StepsLeft(c)
      BY <3>1 DEF StepsLeft
    <3>3. StepsLeft(c)' <= StepsLeft(c)
      BY <2>1, <3>2
    <3>4. QED BY <2>3, <3>3, Zenon
  <2>4. QED BY <2>2, <2>3
<1>3. QED BY <1>1, <1>2, ManagerTypeCorrect, CommandsLeftInvariant, PTL DEF ManagerSpec, CallsAreBounded
=============================================================================
