-------------------------- MODULE SavedFilesProofs --------------------------
(***************************************************************************)
(* Proofs about SavedFiles, for any number of processes, texts, snapshot   *)
(* ids and seconds.                                                        *)
(***************************************************************************)
EXTENDS SavedFiles, TLAPS

\* What the kind of a call says of its names.
LEMMA JobNames ==
  ASSUME NEW j \in Job
  PROVE  /\ j.to \in Target /\ j.kind \in {"save", "backup", "restore"}
         /\ j.kind = "save" => j.to \in Id
         /\ j.kind = "backup" => j.to \in Second /\ j.from = File
         /\ j.kind = "restore" => j.to = File /\ j.from \in Second /\ j.was \in Content
         /\ j.kind # "save" => j.from \in Target /\ j.to \notin Id
BY SavedFilesAssumption DEF Job, Save, Backup, Restore, Target

LEMMA BusyHasJob ==
  ASSUME FilesTypeOK, NEW p \in Proc, pc[p] # "idle"
  PROVE  job[p] \in Job
BY DEF FilesTypeOK

LEMMA ConstantTypes ==
  /\ Missing \in Content /\ Empty \in Content /\ Torn \in Content
  /\ Id \subseteq Content /\ Text \subseteq Content
  /\ File \in Target /\ Second \subseteq Target /\ Id \subseteq Target
  /\ None \notin Job
BY SavedFilesAssumption DEF Content, Whole, Target

\* A call starts with the types of what it is given.
LEMMA CallType ==
  ASSUME FilesTypeOK, NEW p \in Proc, NEW j \in Job, NEW content \in Content,
         Call(p, j, content)
  PROVE  FilesTypeOK'
<1>1. calls' \in 0 .. MaxCalls
  BY SavedFilesAssumption DEF FilesTypeOK, Call
<1>2. clashed' \in BOOLEAN
  BY DEF Call
<1>3. \A q \in Proc : pc'[q] # "idle" <=> job'[q] # None
  BY ConstantTypes DEF FilesTypeOK, Call
<1>4. QED BY <1>1, <1>2, <1>3 DEF FilesTypeOK, Call, diskVars

LEMMA SourceType ==
  ASSUME FilesTypeOK, NEW p \in Proc, pc[p] # "idle"
  PROVE  Source(p) \in Content
BY BusyHasJob, JobNames DEF Source, FilesTypeOK

LEMMA FillsType ==
  ASSUME FilesTypeOK, NEW p \in Proc, pc[p] # "idle", NEW content \in Content, Fills(p, content)
  PROVE  /\ file' \in [Target -> Content] /\ tmp' \in [Target -> Content]
         /\ handle' \in [Proc -> {"none", "tmp", "final", "gone"}]
BY BusyHasJob, JobNames DEF Fills, FilesTypeOK

LEMMA LeaveType ==
  ASSUME FilesTypeOK, NEW p \in Proc, Leave(p)
  PROVE  /\ pc' \in [Proc -> {"idle", "open", "write", "replace", "done", "failed"}]
         /\ job' \in [Proc -> Job \cup {None}]
         /\ \A q \in Proc : pc'[q] # "idle" <=> job'[q] # None
         /\ text' \in [Proc -> Content]
         /\ handle' \in [Proc -> {"none", "tmp", "final", "gone"}]
BY ConstantTypes DEF FilesTypeOK, Leave

LEMMA StepType ==
  ASSUME FilesTypeOK, NEW p \in Proc, NEW from \in {"open", "write", "replace"},
         NEW to \in {"write", "replace", "done", "failed"}, Step(p, from, to), job' = job
  PROVE  /\ pc' \in [Proc -> {"idle", "open", "write", "replace", "done", "failed"}]
         /\ \A q \in Proc : pc'[q] # "idle" <=> job'[q] # None
BY DEF FilesTypeOK, Step

\* Types are kept by each step.
LEMMA TypeStep == FilesTypeOK /\ [FilesNext]_vars => FilesTypeOK'
<1> SUFFICES ASSUME FilesTypeOK, [FilesNext]_vars PROVE FilesTypeOK'
  OBVIOUS
<1>1. ASSUME NEW p \in Proc, CallSave(p) PROVE FilesTypeOK'
  <2>1. PICK i \in Id : Call(p, [kind |-> "save", to |-> i, from |-> Missing, was |-> Missing], i)
    BY <1>1 DEF CallSave
  <2>2. [kind |-> "save", to |-> i, from |-> Missing, was |-> Missing] \in Job
    BY DEF Job, Save
  <2>3. QED BY <2>1, <2>2, CallType, ConstantTypes
<1>2. ASSUME NEW p \in Proc, CallBackup(p) PROVE FilesTypeOK'
  <2>1. [kind |-> "backup", to |-> now, from |-> File, was |-> Missing] \in Job
    BY DEF Job, Backup, FilesTypeOK
  <2>2. QED BY <1>2, <2>1, CallType, ConstantTypes DEF CallBackup
<1>3. ASSUME NEW p \in Proc, NEW r \in taken, CallRestore(p, r) PROVE FilesTypeOK'
  <2>1. [kind |-> "restore", to |-> File, from |-> r.to, was |-> r.was] \in Job
    BY DEF Job, Restore, FilesTypeOK
  <2>2. QED BY <1>3, <2>1, CallType, ConstantTypes DEF CallRestore
<1>4. ASSUME NEW p \in Proc, Open(p) PROVE FilesTypeOK'
  <2>1. pc[p] # "idle" /\ Source(p) \in Content /\ job[p].to \in Target
    BY <1>4, SourceType, BusyHasJob, JobNames DEF Open, Step
  <2>2. QED BY <1>4, <2>1, StepType, ConstantTypes DEF Open, FilesTypeOK, bounds, ghosts
<1>5. ASSUME NEW p \in Proc, SourceGone(p) PROVE FilesTypeOK'
  BY <1>5, StepType DEF SourceGone, FilesTypeOK, diskVars, procVars, bounds, ghosts
<1>6. ASSUME NEW p \in Proc, Write(p) PROVE FilesTypeOK'
  <2>1. PICK content \in Filled(p) : Fills(p, content)
    BY <1>6 DEF Write
  <2>2. content \in Content
    BY <2>1, ConstantTypes DEF Filled, FilesTypeOK
  <2>3. pc[p] # "idle"
    BY <1>6 DEF Write, Step
  <2>4. QED BY <1>6, <2>1, <2>2, <2>3, FillsType, StepType DEF Write, FilesTypeOK, bounds, ghosts
<1>7. ASSUME NEW p \in Proc, WriteFails(p) PROVE FilesTypeOK'
  <2>1. pc[p] = "write" /\ Fills(p, Torn)
    BY <1>7 DEF WriteFails, Step
  <2>2. job[p].to \in Target /\ job[p] # None
    BY <2>1, BusyHasJob, JobNames, ConstantTypes
  <2>3. /\ file' \in [Target -> Content] /\ tmp' \in [Target -> Content]
        /\ handle' \in [Proc -> {"none", "tmp", "final", "gone"}]
    BY <2>1, FillsType, ConstantTypes
  <2>4. CASE pc'[p] = "idle"
    <3>1. Step(p, "write", "idle") /\ job' = [job EXCEPT ![p] = None]
          /\ text' = [text EXCEPT ![p] = Missing] /\ abandoned' = abandoned \cup {job[p].to}
      BY <1>7, <2>4 DEF WriteFails, Step, FilesTypeOK
    <3>2. QED BY <1>7, <2>2, <2>3, <3>1, ConstantTypes DEF WriteFails, Step, FilesTypeOK, bounds
  <2>5. CASE pc'[p] # "idle"
    <3>1. Step(p, "write", "failed") /\ UNCHANGED <<job, text, abandoned>>
      BY <1>7, <2>5 DEF WriteFails, Step, FilesTypeOK
    <3>2. QED BY <1>7, <2>3, <3>1, StepType DEF WriteFails, FilesTypeOK, bounds
  <2>6. QED BY <2>4, <2>5
<1>8. ASSUME NEW p \in Proc, ReplaceSave(p) PROVE FilesTypeOK'
  <2>1. job[p].to \in Id /\ job[p].to \in Target
    BY <1>8, BusyHasJob, JobNames DEF ReplaceSave
  <2>2. QED BY <1>8, <2>1, LeaveType, ConstantTypes DEF ReplaceSave, FilesTypeOK, bounds
<1>9. ASSUME NEW p \in Proc, ReplaceCopy(p) PROVE FilesTypeOK'
  <2>1. job[p].to \in Target /\ (job[p].kind = "backup" => job[p].to \in Second)
    BY <1>9, BusyHasJob, JobNames DEF ReplaceCopy, Step
  <2>2. handle' \in [Proc -> {"none", "tmp", "final", "gone"}]
    BY <1>9 DEF ReplaceCopy, AfterRename, FilesTypeOK
  <2>3. QED BY <1>9, <2>1, <2>2, StepType, ConstantTypes DEF ReplaceCopy, FilesTypeOK, bounds
<1>10. ASSUME NEW p \in Proc, TmpGone(p) PROVE FilesTypeOK'
  BY <1>10, StepType DEF TmpGone, FilesTypeOK, diskVars, procVars, bounds, ghosts
<1>11. ASSUME NEW p \in Proc, Unlink(p) PROVE FilesTypeOK'
  <2>1. job[p].to \in Target /\ (job[p].kind = "backup" => job[p].to \in Second)
    BY <1>11, BusyHasJob, JobNames DEF Unlink
  <2>2. handle' \in [Proc -> {"none", "tmp", "final", "gone"}]
    BY <1>11 DEF Unlink, AfterUnlink, FilesTypeOK
  <2>3. taken' \subseteq [to : Second, was : Content]
    BY <1>11, <2>1 DEF Unlink, FilesTypeOK
  <2>4. QED BY <1>11, <2>1, <2>2, <2>3, ConstantTypes DEF Unlink, FilesTypeOK, bounds
<1>12. ASSUME NEW p \in Proc, Kill(p) PROVE FilesTypeOK'
  <2>1. job[p].to \in Target
    BY <1>12, BusyHasJob, JobNames DEF Kill
  <2>2. QED BY <1>12, <2>1, LeaveType DEF Kill, FilesTypeOK, diskVars, bounds
<1>13. ASSUME NEW content \in Text \cup {Missing}, Edit(content) PROVE FilesTypeOK'
  <2>1. edits' \in 0 .. MaxEdits
    BY <1>13, SavedFilesAssumption DEF Edit, FilesTypeOK
  <2>2. QED BY <1>13, <2>1, ConstantTypes DEF Edit, FilesTypeOK, ghosts
<1>14. CASE Tick
  BY <1>14, SavedFilesAssumption DEF Tick, FilesTypeOK, Second, diskVars, procVars, bounds, ghosts
<1>15. CASE UNCHANGED vars
  BY <1>15 DEF vars, FilesTypeOK, diskVars, procVars, bounds, ghosts
<1>16. QED
  BY <1>1, <1>2, <1>3, <1>4, <1>5, <1>6, <1>7, <1>8, <1>9, <1>10, <1>11, <1>12, <1>13, <1>14, <1>15
     DEF FilesNext

LEMMA InitType == FilesInit => FilesTypeOK
<1> SUFFICES ASSUME FilesInit PROVE FilesTypeOK
  OBVIOUS
<1>1. 1 \in Second /\ 0 \in 0 .. MaxCalls /\ 0 \in 0 .. MaxEdits
  BY SavedFilesAssumption DEF Second
<1>2. file \in [Target -> Content]
  BY ConstantTypes DEF FilesInit
<1>3. /\ \A p \in Proc : pc[p] = "idle" /\ job[p] = None
      /\ tmp \in [Target -> Content] /\ pc \in [Proc -> {"idle"}] /\ job \in [Proc -> {None}]
      /\ text \in [Proc -> Content] /\ handle \in [Proc -> {"none"}]
  BY ConstantTypes DEF FilesInit
<1>4. QED BY <1>1, <1>2, <1>3 DEF FilesInit, FilesTypeOK

\* Every name holds what a file can hold, each call knows its names, and a
\* process is idle exactly if it has no call.
THEOREM FilesTypeCorrect == FilesSpec => []FilesTypeOK
BY InitType, TypeStep, PTL DEF FilesSpec

-----------------------------------------------------------------------------
(* No leftovers.                                                           *)

LEMMA NoLeftoversStep == FilesTypeOK /\ NoLeftovers /\ [FilesNext]_vars => NoLeftovers'
<1> SUFFICES ASSUME FilesTypeOK, NoLeftovers, [FilesNext]_vars, NEW n \in Target, tmp'[n] # Missing
             PROVE  n \in abandoned' \/ \E q \in Busy(n)' : pc'[q] \in {"write", "replace", "done", "failed"}
  BY DEF NoLeftovers
<1> DEFINE Kept(q) == /\ q \in Proc /\ pc[q] \in {"write", "replace", "done", "failed"} /\ job[q].to = n
              Keeps(q) == /\ q \in Proc /\ pc'[q] \in {"write", "replace", "done", "failed"} /\ job'[q].to = n
<1>0. SUFFICES n \in abandoned' \/ \E q \in Proc : Keeps(q)
  BY DEF Busy
<1>a. tmp[n] # Missing => n \in abandoned \/ \E q \in Proc : Kept(q)
  BY DEF NoLeftovers, Busy
<1> HIDE DEF Kept, Keeps
<1>1. ASSUME NEW p \in Proc, NEW j, NEW content, Call(p, j, content) PROVE \A q \in Proc : Kept(q) => Keeps(q)
  BY <1>1 DEF Call, Kept, Keeps, FilesTypeOK
<1>2. ASSUME NEW p \in Proc, Open(p) PROVE n \in abandoned' \/ \E q \in Proc : Keeps(q)
  <2>1. CASE job[p].to = n
    BY <1>2, <2>1 DEF Open, Step, Keeps, FilesTypeOK
  <2>2. CASE job[p].to # n
    <3>1. tmp'[n] = tmp[n] /\ abandoned' = abandoned
      BY <1>2, <2>2 DEF Open, ghosts, FilesTypeOK
    <3>2. \A q \in Proc : Kept(q) => Keeps(q)
      BY <1>2 DEF Open, Step, Kept, Keeps, FilesTypeOK
    <3>3. QED BY <1>a, <3>1, <3>2
  <2>3. QED BY <2>1, <2>2
<1>3. ASSUME NEW p \in Proc, NEW from, NEW to \in {"write", "replace", "done", "failed"},
             Step(p, from, to), job' = job, abandoned' = abandoned,
             tmp[n] = Missing => job[p].to = n
      PROVE  n \in abandoned' \/ \E q \in Proc : Keeps(q)
  <2>1. CASE tmp[n] = Missing
    BY <1>3, <2>1 DEF Step, Keeps, FilesTypeOK
  <2>2. CASE tmp[n] # Missing
    <3>1. \A q \in Proc : Kept(q) => Keeps(q)
      BY <1>3 DEF Step, Kept, Keeps, FilesTypeOK
    <3>2. QED BY <1>3, <1>a, <2>2, <3>1
  <2>3. QED BY <2>1, <2>2
<1>4. ASSUME NEW p \in Proc, WriteFails(p) PROVE n \in abandoned' \/ \E q \in Proc : Keeps(q)
  <2>1. job[p].to # n => tmp'[n] = tmp[n]
    BY <1>4 DEF WriteFails, Fills, FilesTypeOK
  <2>2. CASE /\ Step(p, "write", "idle")
             /\ job' = [job EXCEPT ![p] = None]
             /\ abandoned' = abandoned \cup {job[p].to}
    <3>1. \A q \in Proc \ {p} : Kept(q) => Keeps(q)
      BY <2>2 DEF Step, Kept, Keeps, FilesTypeOK
    <3>2. QED BY <1>a, <2>1, <2>2, <3>1 DEF Kept
  <2>3. CASE Step(p, "write", "failed") /\ UNCHANGED <<job, text, abandoned>>
    BY <1>3, <2>1, <2>3
  <2>4. QED BY <1>4, <2>2, <2>3 DEF WriteFails
<1>5. ASSUME NEW p \in Proc, pc[p] # "idle", pc' = [pc EXCEPT ![p] = "idle"], job' = [job EXCEPT ![p] = None],
             \/ tmp' = [tmp EXCEPT ![job[p].to] = Missing] /\ abandoned' = abandoned
             \/ tmp' = tmp /\ abandoned' = abandoned \cup {job[p].to}
      PROVE  n \in abandoned' \/ \E q \in Proc : Keeps(q)
  <2>1. \A q \in Proc \ {p} : Kept(q) => Keeps(q)
    BY <1>5 DEF Kept, Keeps, FilesTypeOK
  <2>2. tmp[n] # Missing /\ (job[p].to = n => n \in abandoned')
    BY <1>5 DEF FilesTypeOK
  <2>3. abandoned \subseteq abandoned'
    BY <1>5
  <2>4. QED BY <1>a, <2>1, <2>2, <2>3 DEF Kept
<1>6. ASSUME NEW p \in Proc, CallSave(p) \/ CallBackup(p) \/ \E r \in taken : CallRestore(p, r)
      PROVE  n \in abandoned' \/ \E q \in Proc : Keeps(q)
  <2>1. PICK j, content : Call(p, j, content)
    BY <1>6 DEF CallSave, CallBackup, CallRestore
  <2>2. tmp' = tmp /\ abandoned' = abandoned
    BY <2>1 DEF Call, diskVars
  <2>3. QED BY <1>a, <1>1, <2>1, <2>2
<1>7. ASSUME NEW p \in Proc, SourceGone(p) \/ TmpGone(p) PROVE n \in abandoned' \/ \E q \in Proc : Keeps(q)
  BY <1>3, <1>7 DEF SourceGone, TmpGone, diskVars, procVars, ghosts
<1>8. ASSUME NEW p \in Proc, Write(p) PROVE n \in abandoned' \/ \E q \in Proc : Keeps(q)
  <2>1. tmp[n] = Missing => job[p].to = n
    BY <1>8 DEF Write, Fills, FilesTypeOK
  <2>2. QED BY <1>3, <1>8, <2>1 DEF Write, ghosts
<1>9. ASSUME NEW p \in Proc, ReplaceSave(p) PROVE n \in abandoned' \/ \E q \in Proc : Keeps(q)
  <2>1. /\ pc[p] # "idle" /\ pc' = [pc EXCEPT ![p] = "idle"] /\ job' = [job EXCEPT ![p] = None]
        /\ tmp' = [tmp EXCEPT ![job[p].to] = Missing] /\ abandoned' = abandoned
    BY <1>9 DEF ReplaceSave, Leave
  <2>2. QED BY <1>5, <2>1
<1>10. ASSUME NEW p \in Proc, ReplaceCopy(p) PROVE n \in abandoned' \/ \E q \in Proc : Keeps(q)
  <2>1. tmp[n] # Missing
    BY <1>10 DEF ReplaceCopy, FilesTypeOK
  <2>2. QED BY <1>3, <1>10, <2>1 DEF ReplaceCopy
<1>11. ASSUME NEW p \in Proc, Unlink(p) \/ Kill(p) PROVE n \in abandoned' \/ \E q \in Proc : Keeps(q)
  <2>1. pc[p] # "idle" /\ pc' = [pc EXCEPT ![p] = "idle"] /\ job' = [job EXCEPT ![p] = None]
    BY <1>11 DEF Unlink, Kill, Leave
  <2>2. \/ tmp' = [tmp EXCEPT ![job[p].to] = Missing] /\ abandoned' = abandoned
        \/ tmp' = tmp /\ abandoned' = abandoned \cup {job[p].to}
    BY <1>11 DEF Unlink, Kill, diskVars
  <2>3. QED BY <1>5, <2>1, <2>2
<1>12. ASSUME UNCHANGED <<tmp, pc, job, abandoned>> PROVE n \in abandoned' \/ \E q \in Proc : Keeps(q)
  <2>1. \A q \in Proc : Kept(q) => Keeps(q)
    BY <1>12 DEF Kept, Keeps
  <2>2. QED BY <1>12, <1>a, <2>1
<1>13. ASSUME NEW content, Edit(content) PROVE n \in abandoned' \/ \E q \in Proc : Keeps(q)
  BY <1>12, <1>13 DEF Edit, ghosts
<1>14. CASE Tick \/ UNCHANGED vars
  BY <1>12, <1>14 DEF Tick, vars, diskVars, procVars, ghosts
<1>15. QED
  BY <1>2, <1>4, <1>6, <1>7, <1>8, <1>9, <1>10, <1>11, <1>13, <1>14 DEF FilesNext

\* Whatever is killed or fails, a temporary file belongs to a call at work on
\* its target or to an abandoned one.
THEOREM NoLeftoversSound == FilesSpec => []NoLeftovers
<1>1. FilesInit => NoLeftovers
  BY DEF FilesInit, NoLeftovers
<1>2. QED BY <1>1, NoLeftoversStep, FilesTypeCorrect, PTL DEF FilesSpec

-----------------------------------------------------------------------------
(* What is on the disk. Calls for one target can only meet at a name that  *)
(* is not a snapshot's, and then clashed says so. Where they cannot meet,  *)
(* each call has its temporary file to itself, which is what makes the     *)
(* rename safe; the rest of the invariant follows a text from the source   *)
(* to the temporary file, the backup, the record and back.                 *)

Lone(n) == n \in Id \/ ~clashed

Alone == \A n \in Target : \A p, q \in Busy(n) : Lone(n) => p = q

\* What a call has done so far.
AtWork(p) ==
  LET n == job[p].to
  IN pc[p] # "idle" /\ Lone(n) =>
       /\ handle[p] = IF pc[p] = "write" THEN "tmp" ELSE "none"
       /\ pc[p] = "write" => tmp[n] = Empty
       /\ pc[p] = "replace" => tmp[n] = text[p]
       /\ pc[p] \in {"write", "replace", "done"} => text[p] \in Whole
       /\ job[p].kind = "save" => text[p] = n
       /\ job[p].kind = "backup" /\ pc[p] = "done" /\ n \notin retaken => file[n] = text[p]
       /\ job[p].kind = "restore" =>
            /\ [to |-> job[p].from, was |-> job[p].was] \in taken
            /\ pc[p] \in {"write", "replace"} /\ job[p].from \notin retaken => text[p] = job[p].was

\* Each name holds nothing or something whole, a snapshot's its own.
Names ==
  /\ \A i \in Id : file[i] \in {Missing, i}
  /\ \A i \in saved : file[i] = i
  /\ ~clashed => \A n \in {File} \cup Second : file[n] \in Whole \cup {Missing}

\* A record's backup holds the text it was taken of.
Records == ~clashed => \A r \in taken : r.to \notin retaken => file[r.to] = r.was /\ r.was \in Whole

\* A process has a file open only between opening it and writing it.
Closed == \A p \in Proc : pc[p] # "write" => handle[p] = "none"

FilesInv == FilesTypeOK /\ Alone /\ Closed /\ (\A p \in Proc : AtWork(p)) /\ Names /\ Records

LEMMA BusyThere ==
  ASSUME FilesTypeOK, NEW p \in Proc, NEW n
  PROVE  p \in Busy(n) <=> pc[p] # "idle" /\ job[p].to = n
BY DEF Busy

\* A new call meets no other, or clashed says so.
LEMMA CallKeeps ==
  ASSUME FilesInv, NEW p \in Proc, NEW j \in Job, NEW content \in Content, Call(p, j, content),
         j.kind = "save" => content = j.to /\ Busy(j.to) = {},
         j.kind = "restore" => [to |-> j.from, was |-> j.was] \in taken
  PROVE  FilesInv'
<1>1. FilesTypeOK'
  BY CallType DEF FilesInv
<1>2. /\ pc[p] = "idle" /\ pc' = [pc EXCEPT ![p] = "open"] /\ job' = [job EXCEPT ![p] = j]
      /\ text' = [text EXCEPT ![p] = content] /\ clashed' = (clashed \/ Busy(j.to) # {})
      /\ file' = file /\ tmp' = tmp /\ handle' = handle
      /\ taken' = taken /\ saved' = saved /\ retaken' = retaken
  BY DEF Call, diskVars
<1>3. \A q \in Proc \ {p} : pc'[q] = pc[q] /\ job'[q] = job[q] /\ text'[q] = text[q]
  BY <1>2 DEF FilesInv, FilesTypeOK
<1>4. pc'[p] = "open" /\ job'[p] = j /\ text'[p] = content
  BY <1>2 DEF FilesInv, FilesTypeOK
<1>5. Alone'
  <2> SUFFICES ASSUME NEW n \in Target, NEW q \in Proc, NEW r \in Proc, pc'[q] # "idle", pc'[r] # "idle",
                      job'[q].to = n, job'[r].to = n, Lone(n)', q # r
               PROVE  FALSE
    BY DEF Alone, Busy
  <2>1. Lone(n)
    BY <1>2 DEF Lone
  <2>2. CASE q # p /\ r # p
    BY <1>3, <2>1, <2>2 DEF FilesInv, Alone, Busy
  <2>3. CASE q = p \/ r = p
    <3>1. j.to = n /\ Busy(n) # {}
      BY <1>3, <1>4, <2>3 DEF Busy
    <3>2. clashed' /\ n \in Id
      BY <1>2, <3>1 DEF Lone
    <3>3. j.kind = "save"
      BY <3>1, <3>2, JobNames
    <3>4. QED BY <3>1, <3>3
  <2>4. QED BY <2>2, <2>3
<1>6. ASSUME NEW q \in Proc PROVE AtWork(q)'
  <2>1. CASE q = p
    <3>1. handle'[p] = "none"
      BY <1>2 DEF FilesInv, Closed
    <3>2. QED BY <1>2, <1>4, <2>1, <3>1 DEF AtWork
  <2>2. CASE q # p
    <3>1. \A n : Lone(n)' => Lone(n)
      BY <1>2 DEF Lone
    <3>2. AtWork(q)
      BY DEF FilesInv
    <3>3. QED BY <1>2, <1>3, <2>2, <3>1, <3>2 DEF AtWork
  <2>3. QED BY <2>1, <2>2
<1>7. Closed'
  BY <1>2, <1>3, <1>4 DEF FilesInv, Closed
<1>8. Names' /\ Records'
  BY <1>2 DEF FilesInv, Names, Records
<1>9. QED BY <1>1, <1>5, <1>6, <1>7, <1>8 DEF FilesInv

\* A step of p's call touches no other call's target, unless they clashed.
LEMMA OthersStay ==
  ASSUME FilesInv, FilesTypeOK', NEW p \in Proc, pc[p] # "idle", NEW n \in Target, job[p].to = n,
         \A q \in Proc \ {p} : /\ pc'[q] = pc[q] /\ job'[q] = job[q] /\ text'[q] = text[q]
                               /\ q \notin Busy(n) => handle'[q] = handle[q]
                               /\ handle[q] = "none" => handle'[q] = "none",
         \A m \in Target \ {n} : file'[m] = file[m] /\ tmp'[m] = tmp[m],
         clashed' = clashed, retaken \subseteq retaken', taken \subseteq taken',
         job'[p] \in {job[p], None},
         pc'[p] # "write" => handle'[p] = "none",
         pc'[p] # "idle" => AtWork(p)'
  PROVE  Alone' /\ Closed' /\ \A q \in Proc : AtWork(q)'
<1>1. \A m : Lone(m)' <=> Lone(m)
  BY DEF Lone
<1>2. pc'[p] # "idle" => job'[p] = job[p]
  BY DEF FilesTypeOK
<1>3. Alone'
  <2>1. \A m \in Target, q \in Proc : q \in Busy(m)' => q \in Busy(m)
    BY <1>2 DEF Busy
  <2>2. QED BY <1>1, <2>1 DEF FilesInv, Alone, Busy
<1>4. ASSUME NEW q \in Proc \ {p}, pc[q] # "idle", Lone(job[q].to) PROVE AtWork(q)'
  <2>1. job[q].to \in Target
    BY <1>4, BusyHasJob, JobNames DEF FilesInv
  <2>2. job[q].to # n
    BY <1>4, <2>1 DEF FilesInv, Alone, Busy
  <2>3. q \notin Busy(n)
    BY <2>2 DEF Busy
  <2>4. /\ pc'[q] = pc[q] /\ job'[q] = job[q] /\ text'[q] = text[q] /\ handle'[q] = handle[q]
        /\ file'[job[q].to] = file[job[q].to] /\ tmp'[job[q].to] = tmp[job[q].to]
    BY <2>1, <2>2, <2>3
  <2>5. AtWork(q)
    BY DEF FilesInv
  <2>6. QED BY <1>1, <2>4, <2>5 DEF AtWork
<1>5. ASSUME NEW q \in Proc PROVE AtWork(q)'
  <2>1. CASE pc'[q] = "idle" \/ ~Lone(job[q].to)'
    BY <2>1 DEF AtWork
  <2>2. CASE q # p /\ pc'[q] # "idle" /\ Lone(job[q].to)'
    BY <1>1, <1>4, <2>2
  <2>3. CASE q = p /\ pc'[q] # "idle"
    BY <2>3
  <2>4. QED BY <2>1, <2>2, <2>3
<1>6. Closed'
  BY DEF FilesInv, Closed
<1>7. QED BY <1>3, <1>5, <1>6

\* What p writes to the file it has to itself.
LEMMA LoneFile ==
  ASSUME FilesInv, NEW p \in Proc, pc[p] # "idle", Lone(job[p].to)
  PROVE  /\ job[p] \in Job /\ job[p].to \in Target /\ AtWork(p)
         /\ job[p].kind # "save" => ~clashed /\ job[p].to \in {File} \cup Second
BY BusyHasJob, JobNames DEF FilesInv, Lone, Target

LEMMA OpenKeeps ==
  ASSUME FilesInv, FilesTypeOK', NEW p \in Proc, Open(p)
  PROVE  FilesInv'
<1> DEFINE n == job[p].to
<1>1. pc[p] = "open" /\ job[p] \in Job /\ n \in Target
  BY BusyHasJob, JobNames DEF Open, Step, FilesInv
<1>2. /\ file' = file /\ job' = job /\ taken' = taken /\ saved' = saved /\ retaken' = retaken
      /\ clashed' = clashed /\ Source(p) # Missing
      /\ pc' = [pc EXCEPT ![p] = "write"] /\ text' = [text EXCEPT ![p] = Source(p)]
      /\ tmp' = [tmp EXCEPT ![n] = Empty] /\ handle' = [handle EXCEPT ![p] = "tmp"]
  BY DEF Open, Step, ghosts
<1>3. pc'[p] = "write" /\ text'[p] = Source(p) /\ tmp'[n] = Empty /\ handle'[p] = "tmp"
  BY <1>1, <1>2 DEF FilesInv, FilesTypeOK
<1>4. ASSUME Lone(n) PROVE Source(p) \in Whole
  <2>1. CASE job[p].kind = "save"
    BY <1>1, <1>4, <2>1, LoneFile, JobNames DEF AtWork, Source, Whole
  <2>2. CASE job[p].kind # "save"
    <3>1. ~clashed /\ job[p].from \in {File} \cup Second
      BY <1>1, <1>4, <2>2, LoneFile, JobNames DEF FilesInv
    <3>2. QED BY <1>2, <2>2, <3>1 DEF Source, FilesInv, Names
  <2>3. QED BY <2>1, <2>2
<1>5. ASSUME Lone(n), job[p].kind = "restore", job[p].from \notin retaken PROVE Source(p) = job[p].was
  <2>1. ~clashed /\ AtWork(p)
    BY <1>1, <1>5, LoneFile
  <2>2. [to |-> job[p].from, was |-> job[p].was] \in taken
    BY <1>1, <1>5, <2>1 DEF AtWork
  <2>3. QED BY <1>5, <2>1, <2>2 DEF FilesInv, Records, Source
<1>6. AtWork(p)'
  <2> SUFFICES ASSUME Lone(n) PROVE AtWork(p)'
    BY <1>2 DEF AtWork, Lone
  <2>1. AtWork(p)
    BY DEF FilesInv
  <2>2. job[p].kind = "save" => Source(p) = text[p]
    BY DEF Source
  <2>3. QED BY <1>1, <1>2, <1>3, <1>4, <1>5, <2>1, <2>2 DEF AtWork
<1>7. Alone' /\ Closed' /\ \A q \in Proc : AtWork(q)'
  <2>1. \A q \in Proc \ {p} : pc'[q] = pc[q] /\ job'[q] = job[q] /\ text'[q] = text[q] /\ handle'[q] = handle[q]
    BY <1>2 DEF FilesInv, FilesTypeOK
  <2>2. \A m \in Target \ {n} : file'[m] = file[m] /\ tmp'[m] = tmp[m]
    BY <1>2 DEF FilesInv, FilesTypeOK
  <2>3. QED BY <1>1, <1>2, <1>3, <1>6, <2>1, <2>2, OthersStay
<1>8. Names' /\ Records'
  BY <1>2 DEF FilesInv, Names, Records
<1>9. QED BY <1>7, <1>8 DEF FilesInv

\* The file a call that is alone has open is its temporary file.
LEMMA FillsKeeps ==
  ASSUME FilesInv, FilesTypeOK', NEW p \in Proc, NEW content, pc[p] = "write", Fills(p, content),
         clashed' = clashed, taken' = taken, saved' = saved, retaken' = retaken,
         job'[p] \in {job[p], None}, pc'[p] # "write",
         \A q \in Proc \ {p} : pc'[q] = pc[q] /\ job'[q] = job[q] /\ text'[q] = text[q],
         pc'[p] = "replace" => text' = text /\ content \in Filled(p),
         pc'[p] \in {"idle", "replace", "failed"},
         pc'[p] = "failed" => job[p].kind # "save" /\ text' = text
  PROVE  FilesInv'
<1> DEFINE n == job[p].to
<1>1. job[p] \in Job /\ n \in Target /\ AtWork(p)
  BY BusyHasJob, JobNames DEF FilesInv
<1>2. Lone(n) => handle[p] = "tmp" /\ tmp[n] = Empty
  BY <1>1 DEF AtWork
<1>3. Lone(n) => file' = file /\ tmp'[n] = content
  BY <1>1, <1>2 DEF Fills, FilesInv, FilesTypeOK
<1>4. handle' = [handle EXCEPT ![p] = "none"] /\ handle'[p] = "none"
  BY DEF Fills, FilesInv, FilesTypeOK
<1>5. \A m \in Target \ {n} : file'[m] = file[m] /\ tmp'[m] = tmp[m]
  BY DEF Fills, FilesInv, FilesTypeOK
<1>6. Lone(n) /\ pc'[p] = "replace" => content = text[p]
  BY <1>2 DEF Filled, Held
<1>7. pc'[p] # "idle" => job'[p] = job[p]
  BY DEF FilesTypeOK
<1>8. pc'[p] # "idle" => AtWork(p)'
  BY <1>1, <1>3, <1>4, <1>6, <1>7 DEF AtWork, Lone
<1>9. Alone' /\ Closed' /\ \A q \in Proc : AtWork(q)'
  <2>1. \A q \in Proc \ {p} : handle'[q] = handle[q]
    BY <1>4 DEF FilesInv, FilesTypeOK
  <2>2. QED BY <1>1, <1>4, <1>5, <1>8, <2>1, OthersStay
<1>10. Lone(n) \/ (n \notin Id /\ clashed)
  BY DEF Lone
<1>11. Names'
  <2>1. \A i \in Id : file'[i] = file[i]
    BY <1>1, <1>3, <1>5, <1>10, JobNames, ConstantTypes
  <2>2. saved \subseteq Id
    BY DEF FilesInv, FilesTypeOK
  <2>3. ~clashed => file' = file
    BY <1>3, <1>10
  <2>4. QED BY <2>1, <2>2, <2>3 DEF FilesInv, Names
<1>12. Records'
  BY <1>3, <1>10 DEF FilesInv, Records
<1>13. QED BY <1>9, <1>11, <1>12 DEF FilesInv

LEMMA ReplaceSaveKeeps ==
  ASSUME FilesInv, FilesTypeOK', NEW p \in Proc, ReplaceSave(p)
  PROVE  FilesInv'
<1> DEFINE n == job[p].to
<1>1. pc[p] = "replace" /\ job[p] \in Job /\ n \in Id /\ n \in Target /\ Lone(n) /\ AtWork(p)
  BY BusyHasJob, JobNames DEF ReplaceSave, FilesInv, Lone
<1>2. tmp[n] = n
  BY <1>1 DEF AtWork, ReplaceSave
<1>3. /\ file' = [file EXCEPT ![n] = n] /\ tmp' = [tmp EXCEPT ![n] = Missing]
      /\ saved' = saved \cup {n} /\ Leave(p)
      /\ taken' = taken /\ retaken' = retaken /\ clashed' = clashed
  BY <1>2 DEF ReplaceSave
<1>4. /\ pc'[p] = "idle" /\ job'[p] = None /\ handle'[p] = "none"
      /\ \A q \in Proc \ {p} : pc'[q] = pc[q] /\ job'[q] = job[q] /\ text'[q] = text[q] /\ handle'[q] = handle[q]
      /\ \A m \in Target \ {n} : file'[m] = file[m] /\ tmp'[m] = tmp[m]
      /\ file'[n] = n
  BY <1>1, <1>3 DEF Leave, FilesInv, FilesTypeOK
<1>5. Alone' /\ Closed' /\ \A q \in Proc : AtWork(q)'
  BY <1>1, <1>3, <1>4, OthersStay
<1>6. Names' /\ Records'
  <2>1. n \notin {File} \cup Second /\ {File} \cup Second \subseteq Target /\ Id \subseteq Target
    BY <1>1, SavedFilesAssumption DEF Target
  <2>2. saved \subseteq Id /\ \A r \in taken : r.to \in Second
    BY DEF FilesInv, FilesTypeOK
  <2>3. Names'
    BY <1>3, <1>4, <2>1, <2>2 DEF FilesInv, Names
  <2>4. Records'
    BY <1>3, <1>4, <2>1, <2>2 DEF FilesInv, Records
  <2>5. QED BY <2>3, <2>4
<1>7. QED BY <1>5, <1>6 DEF FilesInv

LEMMA ReplaceCopyKeeps ==
  ASSUME FilesInv, FilesTypeOK', NEW p \in Proc, ReplaceCopy(p)
  PROVE  FilesInv'
<1> DEFINE n == job[p].to
<1>1. pc[p] = "replace" /\ job[p] \in Job /\ n \in Target /\ AtWork(p) /\ job[p].kind # "save"
  BY BusyHasJob, JobNames DEF ReplaceCopy, Step, FilesInv
<1>2. /\ n \notin Id /\ n \in {File} \cup Second /\ (Lone(n) <=> ~clashed)
      /\ job[p].kind = "backup" => n \in Second
      /\ job[p].kind = "restore" => n = File
  BY <1>1, JobNames DEF Lone, Target
<1>3. /\ pc' = [pc EXCEPT ![p] = "done"] /\ job' = job /\ text' = text
      /\ file' = [file EXCEPT ![n] = tmp[n]] /\ tmp' = [tmp EXCEPT ![n] = Missing]
      /\ handle' = AfterRename(n) /\ saved' = saved /\ taken' = taken /\ clashed' = clashed
      /\ retaken' = IF job[p].kind = "backup" /\ file[n] # Missing THEN retaken \cup {n} ELSE retaken
  BY DEF ReplaceCopy, Step
<1>4. \A q \in Proc : /\ q \notin Busy(n) => handle'[q] = handle[q]
                      /\ handle[q] = "none" => handle'[q] = "none"
  BY <1>3 DEF AfterRename
<1>5. /\ pc'[p] = "done" /\ handle'[p] = "none" /\ file'[n] = tmp[n]
      /\ \A q \in Proc \ {p} : pc'[q] = pc[q] /\ job'[q] = job[q] /\ text'[q] = text[q]
      /\ \A m \in Target \ {n} : file'[m] = file[m] /\ tmp'[m] = tmp[m]
  BY <1>1, <1>3, <1>4 DEF FilesInv, FilesTypeOK, Closed
<1>6. ~clashed => tmp[n] = text[p] /\ text[p] \in Whole
  BY <1>1, <1>2 DEF AtWork
<1>7. AtWork(p)'
  BY <1>1, <1>2, <1>3, <1>5, <1>6 DEF AtWork, Lone
<1>8. Alone' /\ Closed' /\ \A q \in Proc : AtWork(q)'
  BY <1>1, <1>3, <1>4, <1>5, <1>7, OthersStay
<1>9. Names'
  <2>1. \A i \in Id : file'[i] = file[i]
    BY <1>2, <1>5, ConstantTypes
  <2>2. saved \subseteq Id /\ {File} \cup Second \subseteq Target
    BY ConstantTypes DEF FilesInv, FilesTypeOK
  <2>3. QED BY <1>3, <1>5, <1>6, <2>1, <2>2 DEF FilesInv, Names
<1>10. Records'
  <2> SUFFICES ASSUME ~clashed, NEW r \in taken, r.to \notin retaken'
               PROVE  file'[r.to] = r.was /\ r.was \in Whole
    BY <1>3 DEF Records
  <2>1. r.to \in Second /\ r.to \in Target /\ file[r.to] = r.was /\ r.was \in Whole
    BY <1>3, ConstantTypes DEF FilesInv, FilesTypeOK, Records
  <2>2. r.was # Missing
    BY <2>1, SavedFilesAssumption
  <2>3. r.to # n
    <3>1. CASE job[p].kind = "backup"
      BY <1>3, <2>1, <2>2, <3>1
    <3>2. CASE job[p].kind # "backup"
      BY <1>1, <1>2, <2>1, <3>2, JobNames, SavedFilesAssumption
    <3>3. QED BY <3>1, <3>2
  <2>4. QED BY <1>5, <2>1, <2>3
<1>11. QED BY <1>8, <1>9, <1>10 DEF FilesInv

LEMMA UnlinkKeeps ==
  ASSUME FilesInv, FilesTypeOK', NEW p \in Proc, Unlink(p)
  PROVE  FilesInv'
<1> DEFINE n == job[p].to
<1>1. pc[p] \in {"done", "failed"} /\ job[p] \in Job /\ n \in Target /\ AtWork(p)
  BY BusyHasJob, JobNames DEF Unlink, FilesInv
<1>2. /\ pc' = [pc EXCEPT ![p] = "idle"] /\ job' = [job EXCEPT ![p] = None]
      /\ text' = [text EXCEPT ![p] = Missing] /\ file' = file /\ tmp' = [tmp EXCEPT ![n] = Missing]
      /\ handle' = AfterUnlink(n) /\ saved' = saved /\ clashed' = clashed /\ retaken' = retaken
      /\ taken' = IF pc[p] = "done" /\ job[p].kind = "backup"
                  THEN taken \cup {[to |-> n, was |-> text[p]]} ELSE taken
  BY DEF Unlink
<1>3. \A q \in Proc : /\ q \notin Busy(n) => handle'[q] = handle[q]
                      /\ handle[q] = "none" => handle'[q] = "none"
  BY <1>2 DEF AfterUnlink
<1>4. /\ pc'[p] = "idle" /\ job'[p] = None /\ handle'[p] = "none"
      /\ \A q \in Proc \ {p} : pc'[q] = pc[q] /\ job'[q] = job[q] /\ text'[q] = text[q]
      /\ \A m \in Target \ {n} : file'[m] = file[m] /\ tmp'[m] = tmp[m]
  BY <1>1, <1>2, <1>3 DEF FilesInv, FilesTypeOK, Closed
<1>5. Alone' /\ Closed' /\ \A q \in Proc : AtWork(q)'
  BY <1>1, <1>2, <1>3, <1>4, OthersStay
<1>6. Names'
  BY <1>2 DEF FilesInv, Names
<1>7. ASSUME pc[p] = "done", job[p].kind = "backup", ~clashed, n \notin retaken
      PROVE  file[n] = text[p] /\ text[p] \in Whole
  BY <1>1, <1>7 DEF AtWork, Lone
<1>8. Records'
  BY <1>2, <1>7 DEF FilesInv, Records
<1>9. QED BY <1>5, <1>6, <1>8 DEF FilesInv

\* A call that is killed, or is given up, leaves the files as they are.
LEMMA StopKeeps ==
  ASSUME FilesInv, FilesTypeOK', NEW p \in Proc, pc[p] # "idle",
         UNCHANGED <<diskVars, taken, saved, retaken, clashed>>,
         \/ Leave(p)
         \/ Step(p, "open", "failed") /\ UNCHANGED procVars
         \/ Step(p, "replace", "failed") /\ UNCHANGED procVars /\ job[p].kind # "save"
  PROVE  FilesInv'
<1> DEFINE n == job[p].to
<1>1. job[p] \in Job /\ n \in Target /\ AtWork(p)
  BY BusyHasJob, JobNames DEF FilesInv
<1>2. \A q \in Proc \ {p} : pc'[q] = pc[q] /\ job'[q] = job[q] /\ text'[q] = text[q] /\ handle'[q] = handle[q]
  BY DEF Leave, Step, procVars, FilesInv, FilesTypeOK
<1>3. /\ file' = file /\ tmp' = tmp /\ taken' = taken /\ saved' = saved
      /\ retaken' = retaken /\ clashed' = clashed
  BY DEF diskVars
<1>4. \/ pc'[p] = "idle" /\ job'[p] = None /\ handle'[p] = "none"
      \/ /\ pc[p] \in {"open", "replace"} /\ pc'[p] = "failed"
         /\ job' = job /\ text' = text /\ handle' = handle
  BY DEF Leave, Step, procVars, FilesInv, FilesTypeOK
<1>5. handle'[p] = "none"
  BY <1>4 DEF FilesInv, Closed
<1>6. pc'[p] # "idle" => AtWork(p)'
  BY <1>1, <1>3, <1>4 DEF AtWork, Lone
<1>7. Alone' /\ Closed' /\ \A q \in Proc : AtWork(q)'
  BY <1>1, <1>2, <1>3, <1>4, <1>5, <1>6, OthersStay
<1>8. Names' /\ Records'
  BY <1>3 DEF FilesInv, Names, Records
<1>9. QED BY <1>7, <1>8 DEF FilesInv

\* Whatever the user makes of the file, it is not a file of a call.
LEMMA EditKeeps ==
  ASSUME FilesInv, FilesTypeOK', NEW content \in Text \cup {Missing}, Edit(content)
  PROVE  FilesInv'
<1>1. /\ tmp' = tmp /\ pc' = pc /\ job' = job /\ text' = text /\ clashed' = clashed
      /\ taken' = taken /\ saved' = saved /\ retaken' = retaken
      /\ file' = [file EXCEPT ![File] = content]
      /\ \A q \in Proc : handle[q] # "final" => handle'[q] = handle[q]
  BY DEF Edit, ghosts
<1>2. /\ File \in Target /\ \A m \in Target \ {File} : file'[m] = file[m]
      /\ file'[File] = content /\ content \in Whole \cup {Missing}
      /\ \A m \in Id \cup Second : m \in Target \ {File}
  BY <1>1, SavedFilesAssumption DEF Target, Whole, FilesInv, FilesTypeOK
<1>3. ASSUME NEW q \in Proc PROVE AtWork(q)'
  <2> SUFFICES ASSUME pc[q] # "idle", Lone(job[q].to) PROVE AtWork(q)'
    BY <1>1 DEF AtWork, Lone
  <2>1. AtWork(q) /\ job[q] \in Job
    BY BusyHasJob DEF FilesInv
  <2>2. handle'[q] = handle[q]
    BY <1>1, <2>1 DEF AtWork
  <2>3. job[q].kind = "backup" => file'[job[q].to] = file[job[q].to]
    BY <1>2, <2>1, JobNames
  <2>4. QED BY <1>1, <2>1, <2>2, <2>3 DEF AtWork
<1>4. Alone' /\ Closed'
  BY <1>1 DEF FilesInv, Alone, Busy, Lone, Closed
<1>5. Names' /\ Records'
  <2>1. saved \subseteq Id /\ \A r \in taken : r.to \in Second
    BY DEF FilesInv, FilesTypeOK
  <2>2. QED BY <1>1, <1>2, <2>1 DEF FilesInv, Names, Records
<1>6. QED BY <1>3, <1>4, <1>5 DEF FilesInv

LEMMA FilesInvStep == FilesInv /\ [FilesNext]_vars => FilesInv'
<1> SUFFICES ASSUME FilesInv, [FilesNext]_vars PROVE FilesInv'
  OBVIOUS
<1>0. FilesTypeOK'
  BY TypeStep DEF FilesInv
<1>1. ASSUME NEW p \in Proc, CallSave(p) PROVE FilesInv'
  <2> DEFINE j(i) == [kind |-> "save", to |-> i, from |-> Missing, was |-> Missing]
  <2>1. PICK i \in Id : Busy(i) = {} /\ Call(p, j(i), i)
    BY <1>1 DEF CallSave
  <2>2. j(i) \in Job /\ j(i).to = i /\ j(i).kind = "save"
    BY DEF Job, Save
  <2>3. QED BY <2>1, <2>2, CallKeeps, ConstantTypes
<1>2. ASSUME NEW p \in Proc, CallBackup(p) PROVE FilesInv'
  <2> DEFINE j == [kind |-> "backup", to |-> now, from |-> File, was |-> Missing]
  <2>1. j \in Job /\ j.kind = "backup"
    BY DEF Job, Backup, FilesInv, FilesTypeOK
  <2>2. QED BY <1>2, <2>1, CallKeeps, ConstantTypes DEF CallBackup
<1>3. ASSUME NEW p \in Proc, NEW r \in taken, CallRestore(p, r) PROVE FilesInv'
  <2> DEFINE j == [kind |-> "restore", to |-> File, from |-> r.to, was |-> r.was]
  <2>1. r \in [to : Second, was : Content]
    BY DEF FilesInv, FilesTypeOK
  <2>2. j \in Job /\ j.kind = "restore" /\ [to |-> j.from, was |-> j.was] = r
    BY <2>1 DEF Job, Restore
  <2>3. QED BY <1>3, <2>2, CallKeeps, ConstantTypes DEF CallRestore
<1>4. ASSUME NEW p \in Proc, Write(p) PROVE FilesInv'
  <2>1. PICK content \in Filled(p) : Fills(p, content)
    BY <1>4 DEF Write
  <2>2. /\ pc[p] = "write" /\ pc'[p] = "replace" /\ job' = job /\ text' = text /\ clashed' = clashed
        /\ taken' = taken /\ saved' = saved /\ retaken' = retaken
        /\ \A q \in Proc \ {p} : pc'[q] = pc[q]
    BY <1>4 DEF Write, Step, ghosts, FilesInv, FilesTypeOK
  <2>3. QED BY <1>0, <2>1, <2>2, FillsKeeps
<1>5. ASSUME NEW p \in Proc, WriteFails(p) PROVE FilesInv'
  <2>1. /\ pc[p] = "write" /\ Fills(p, Torn) /\ clashed' = clashed /\ taken' = taken
        /\ saved' = saved /\ retaken' = retaken
        /\ \A q \in Proc \ {p} : pc'[q] = pc[q] /\ job'[q] = job[q] /\ text'[q] = text[q]
        /\ \/ pc'[p] = "idle" /\ job'[p] = None
           \/ pc'[p] = "failed" /\ job'[p] = job[p] /\ job[p].kind # "save" /\ text' = text
    BY <1>5 DEF WriteFails, Step, FilesInv, FilesTypeOK
  <2>2. QED BY <1>0, <2>1, FillsKeeps
<1>6. ASSUME NEW p \in Proc, SourceGone(p) \/ TmpGone(p) \/ Kill(p) PROVE FilesInv'
  <2>1. pc[p] # "idle" /\ UNCHANGED <<diskVars, taken, saved, retaken, clashed>>
    BY <1>6 DEF SourceGone, TmpGone, Kill, Step, ghosts
  <2>2. \/ Leave(p)
        \/ Step(p, "open", "failed") /\ UNCHANGED procVars
        \/ Step(p, "replace", "failed") /\ UNCHANGED procVars /\ job[p].kind # "save"
    BY <1>6 DEF SourceGone, TmpGone, Kill
  <2>3. QED BY <1>0, <2>1, <2>2, StopKeeps
<1>7. CASE Tick \/ UNCHANGED vars
  <2>1. UNCHANGED <<diskVars, pc, procVars, ghosts>>
    BY <1>7 DEF Tick, vars
  <2>2. /\ file' = file /\ tmp' = tmp /\ pc' = pc /\ job' = job /\ text' = text /\ handle' = handle
        /\ taken' = taken /\ saved' = saved /\ retaken' = retaken /\ clashed' = clashed
    BY <2>1 DEF diskVars, procVars, ghosts
  <2>3. Alone' /\ Closed' /\ Names' /\ Records'
    BY <2>2 DEF FilesInv, Alone, Busy, Lone, Closed, Names, Records
  <2>4. \A p \in Proc : AtWork(p)'
    BY <2>2 DEF FilesInv, AtWork, Lone
  <2>5. QED BY <1>0, <2>3, <2>4 DEF FilesInv
<1>8. QED
  BY <1>0, <1>1, <1>2, <1>3, <1>4, <1>5, <1>6, <1>7, OpenKeeps, ReplaceSaveKeeps, ReplaceCopyKeeps,
     UnlinkKeeps, EditKeeps DEF FilesNext

\* The invariant that the three properties of the disk follow from.
THEOREM FilesInvariant == FilesSpec => []FilesInv
<1>1. FilesInit => FilesInv
  <2> SUFFICES ASSUME FilesInit PROVE FilesInv
    OBVIOUS
  <2>1. \A p \in Proc : pc[p] = "idle" /\ handle[p] = "none"
    BY DEF FilesInit
  <2>2. Alone /\ Closed /\ \A p \in Proc : AtWork(p)
    BY <2>1 DEF Alone, Busy, Closed, AtWork
  <2>3. \A n \in Target : (n = File => file[n] \in Text) /\ (n # File => file[n] = Missing)
    BY DEF FilesInit
  <2>4. Names
    BY <2>3, SavedFilesAssumption DEF FilesInit, Names, Whole, Target
  <2>5. Records
    BY DEF FilesInit, Records
  <2>6. QED BY <2>2, <2>4, <2>5, InitType DEF FilesInv
<1>2. QED BY <1>1, FilesInvStep, PTL DEF FilesSpec

\* A name of a snapshot never holds half of one, or another one, and a
\* snapshot that was saved stays listed, whatever is killed, fails or meets.
THEOREM SnapshotsKeptSound == FilesSpec => []SnapshotsKept
<1>1. FilesInv => SnapshotsKept
  BY DEF FilesInv, FilesTypeOK, Names, SnapshotsKept, Listed, Whole
<1>2. QED BY <1>1, FilesInvariant, PTL

\* As long as no two calls for one name were under way together, the file
\* and its backups are whole.
THEOREM CopiesWholeSound == FilesSpec => []CopiesWhole
<1>1. FilesInv => CopiesWhole
  BY SavedFilesAssumption DEF FilesInv, Names, CopiesWhole
<1>2. QED BY <1>1, FilesInvariant, PTL

\* A restore puts back what its backup was taken of, unless that backup was
\* overwritten or calls clashed.
THEOREM RestoreBringsBackSound == FilesSpec => RestoreBringsBack
<1> DEFINE Restores(p) ==
      /\ pc[p] = "replace" /\ pc'[p] = "done" /\ job[p].kind = "restore"
      /\ job[p].from \notin retaken /\ ~clashed
<1>1. ASSUME FilesInv, [FilesNext]_vars, NEW p \in Proc, Restores(p) PROVE file'[File] = job[p].was
  <2>1. job[p] \in Job /\ job[p].to = File /\ File \in Target /\ AtWork(p)
    BY <1>1, BusyHasJob, JobNames, ConstantTypes DEF FilesInv
  <2>2. tmp[File] = job[p].was
    BY <1>1, <2>1 DEF AtWork, Lone
  <2>3. ReplaceCopy(p)
    <3> DEFINE Sets(q, at) == pc' = [pc EXCEPT ![q] = at]
    <3>1. ASSUME NEW q \in Proc, NEW at, Sets(q, at) PROVE q = p /\ at = "done"
      <4>1. pc \in [Proc -> {"idle", "open", "write", "replace", "done", "failed"}]
        BY <1>1 DEF FilesInv, FilesTypeOK
      <4>2. pc[p] = "replace" /\ pc'[p] = "done"
        BY <1>1
      <4>3. q = p
        BY <3>1, <4>1, <4>2
      <4>4. pc'[q] = at
        BY <3>1, <4>1
      <4>5. QED BY <4>2, <4>3, <4>4
    <3> HIDE DEF Sets
    <3>2. ~UNCHANGED pc
      BY <1>1
    <3>3. ASSUME NEW q \in Proc, CallSave(q) \/ CallBackup(q) \/ \E r \in taken : CallRestore(q, r) PROVE FALSE
      <4>1. Sets(q, "open")
        BY <3>3 DEF Sets, CallSave, CallBackup, CallRestore, Call
      <4>2. QED BY <3>1, <4>1
    <3>4. ASSUME NEW q \in Proc, Open(q) \/ SourceGone(q) \/ Write(q) \/ TmpGone(q) PROVE FALSE
      <4>1. Sets(q, "write") \/ Sets(q, "failed") \/ Sets(q, "replace")
        BY <3>4 DEF Sets, Open, SourceGone, Write, TmpGone, Step
      <4>2. QED BY <3>1, <4>1
    <3>5. ASSUME NEW q \in Proc, WriteFails(q) \/ ReplaceSave(q) \/ Unlink(q) \/ Kill(q) PROVE FALSE
      <4>1. Sets(q, "idle") \/ Sets(q, "failed")
        BY <3>5 DEF Sets, WriteFails, ReplaceSave, Unlink, Kill, Leave, Step
      <4>2. QED BY <3>1, <4>1
    <3>6. ASSUME NEW q \in Proc, ReplaceCopy(q) PROVE q = p
      <4>1. Sets(q, "done")
        BY <3>6 DEF Sets, ReplaceCopy, Step
      <4>2. QED BY <3>1, <4>1
    <3>7. ASSUME NEW content, Edit(content) PROVE FALSE
      BY <3>2, <3>7 DEF Edit
    <3>8. ~Tick /\ ~UNCHANGED vars
      BY <3>2 DEF Tick, vars
    <3>9. \/ \E q \in Proc : \/ CallSave(q) \/ CallBackup(q) \/ \E r \in taken : CallRestore(q, r)
                             \/ Open(q) \/ SourceGone(q) \/ Write(q) \/ TmpGone(q)
                             \/ WriteFails(q) \/ ReplaceSave(q) \/ Unlink(q) \/ Kill(q)
                             \/ ReplaceCopy(q)
          \/ \E content : Edit(content)
      <4>1. FilesNext
        BY <1>1, <3>8
      <4>2. QED BY <4>1, <3>8, Zenon DEF FilesNext
    <3>10. QED BY <3>3, <3>4, <3>5, <3>6, <3>7, <3>9, Zenon
  <2>4. file' = [file EXCEPT ![File] = tmp[File]]
    BY <2>1, <2>3 DEF ReplaceCopy
  <2>5. QED BY <1>1, <2>1, <2>2, <2>4 DEF FilesInv, FilesTypeOK
<1>2. FilesInv /\ [FilesNext]_vars
      => [\A p \in Proc : Restores(p) => file'[File] = job[p].was]_vars
  BY <1>1
<1>3. QED BY <1>2, FilesInvariant, PTL DEF FilesSpec, RestoreBringsBack
=============================================================================
