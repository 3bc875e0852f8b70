----------------------------- MODULE SavedFiles -----------------------------
(***************************************************************************)
(* SnapshotStore and BackupManager on the file system. A save, a backup    *)
(* and a restore each write a temporary file next to their target and      *)
(* rename it over the target:                                              *)
(*                                                                         *)
(*   save     snapshots/<id>.json                    a random id           *)
(*   backup   <file>.hallfix-backup-<second>         read from the file    *)
(*   restore  <file>                                 read from the backup  *)
(*                                                                         *)
(* The temporary name is the target's, so that calls for one target share  *)
(* it; an open file follows its renames, as in StateFile. A process may    *)
(* be killed between any two system calls, and a write may fail half way.  *)
(*                                                                         *)
(* Abstractions. There is one file to back up; a snapshot is known by its  *)
(* id. A source is read, and an editor saves the file, at one moment.      *)
(***************************************************************************)
EXTENDS Naturals

CONSTANTS
  Proc,       \* hallfix processes
  Text,       \* contents the user gives the file
  File,       \* the name of the file
  Id,         \* snapshot ids
  Missing,    \* no such file
  Empty,      \* a file that has been opened for writing and not yet written
  Torn,       \* a file written in part, or by two processes over each other
  None,       \* no call
  MaxSecond,  \* bound: seconds that pass
  MaxCalls,   \* bound: calls made
  MaxEdits    \* bound: changes the user makes to the file

Second == 1 .. MaxSecond      \* a backup is named by the second of its call
Target == {File} \cup Second \cup Id
Whole  == Text \cup Id        \* a snapshot's content is known by its id
Content == Whole \cup {Missing, Empty, Torn}

\* What save, backup and restore were called with, and the text the backup
\* of a restore was taken of.
Save    == [kind : {"save"}, to : Id, from : {Missing}, was : {Missing}]
Backup  == [kind : {"backup"}, to : Second, from : {File}, was : {Missing}]
Restore == [kind : {"restore"}, to : {File}, from : Second, was : Content]
Job     == Save \cup Backup \cup Restore

ASSUME SavedFilesAssumption ==
  /\ MaxSecond \in Nat \ {0} /\ MaxCalls \in Nat /\ MaxEdits \in Nat
  /\ {Missing, Empty, Torn} \cap Whole = {}
  /\ Missing # Empty /\ Missing # Torn
  /\ Id \cap Text = {}
  /\ ({File} \cup Id) \cap Second = {} /\ File \notin Id
  /\ None \notin Job

VARIABLES
  file,    \* what is under each name
  tmp,     \* what is under each name's temporary name
  pc,      \* where each process is in its call
  job,     \* the call
  text,    \* what it is going to write
  handle,  \* the file its descriptor refers to
  now,     \* the second the clock shows
  calls, edits,  \* counters of the bounds
  taken,   \* history variable: the backup records returned, [to, was]
  saved,   \* history variable: the ids of the saves that returned
  retaken,   \* history variable: seconds whose backup was overwritten by another
  abandoned, \* history variable: targets of killed calls and of failed saves
  clashed    \* history variable: two calls for one target at the same time

diskVars == <<file, tmp>>
procVars == <<job, text, handle>>
bounds   == <<calls, edits>>
ghosts   == <<taken, saved, retaken, abandoned, clashed>>
vars     == <<diskVars, pc, procVars, now, bounds, ghosts>>

FilesTypeOK ==
  /\ file \in [Target -> Content]
  /\ tmp \in [Target -> Content]
  /\ pc \in [Proc -> {"idle", "open", "write", "replace", "done", "failed"}]
  /\ job \in [Proc -> Job \cup {None}]
  /\ \A p \in Proc : pc[p] # "idle" <=> job[p] # None
  /\ text \in [Proc -> Content]
  /\ handle \in [Proc -> {"none", "tmp", "final", "gone"}]
  /\ now \in Second
  /\ calls \in 0 .. MaxCalls
  /\ edits \in 0 .. MaxEdits
  /\ taken \subseteq [to : Second, was : Content]
  /\ saved \subseteq Id
  /\ retaken \subseteq Second
  /\ abandoned \subseteq Target
  /\ clashed \in BOOLEAN

FilesInit ==
  /\ \E t \in Text : file = [n \in Target |-> IF n = File THEN t ELSE Missing]
  /\ tmp = [n \in Target |-> Missing]
  /\ pc = [p \in Proc |-> "idle"]
  /\ job = [p \in Proc |-> None]
  /\ text = [p \in Proc |-> Missing]
  /\ handle = [p \in Proc |-> "none"]
  /\ now = 1
  /\ calls = 0
  /\ edits = 0
  /\ taken = {}
  /\ saved = {}
  /\ retaken = {}
  /\ abandoned = {}
  /\ clashed = FALSE

\* The calls under way for a target.
Busy(n) == {p \in Proc : pc[p] # "idle" /\ job[p].to = n}

\* Names with an underscore are plausible mistakes in the definition that
\* follows them; they show that a property can fail and are used nowhere.

Call(p, j, content) ==
  /\ pc[p] = "idle" /\ calls < MaxCalls
  /\ pc' = [pc EXCEPT ![p] = "open"]
  /\ job' = [job EXCEPT ![p] = j]
  /\ text' = [text EXCEPT ![p] = content]
  /\ calls' = calls + 1
  /\ clashed' = (clashed \/ Busy(j.to) # {})
  /\ UNCHANGED <<diskVars, handle, now, edits, taken, saved, retaken, abandoned>>

CallSave_SameId(p) ==
  \E i \in Id : Call(p, [kind |-> "save", to |-> i, from |-> Missing, was |-> Missing], i)

\* `hallfix snapshot`: a new random id for each.
CallSave(p) ==
  \E i \in Id :
    /\ file[i] = Missing /\ tmp[i] = Missing /\ i \notin abandoned /\ Busy(i) = {}
    /\ Call(p, [kind |-> "save", to |-> i, from |-> Missing, was |-> Missing], i)

\* BackupManager.backup: not of a file that is not there.
CallBackup(p) ==
  /\ file[File] # Missing
  /\ Call(p, [kind |-> "backup", to |-> now, from |-> File, was |-> Missing], Missing)

\* BackupManager.restore of a record some backup returned.
CallRestore(p, r) ==
  /\ file[r.to] # Missing
  /\ Call(p, [kind |-> "restore", to |-> File, from |-> r.to, was |-> r.was], Missing)

Step(p, from, to) == pc[p] = from /\ pc' = [pc EXCEPT ![p] = to]

Leave_KeepsJob(p) ==
  /\ pc' = [pc EXCEPT ![p] = "idle"]
  /\ text' = [text EXCEPT ![p] = Missing]
  /\ handle' = [handle EXCEPT ![p] = "none"]
  /\ UNCHANGED job

\* The call is over: done, failed or killed.
Leave(p) ==
  /\ pc' = [pc EXCEPT ![p] = "idle"]
  /\ job' = [job EXCEPT ![p] = None]
  /\ text' = [text EXCEPT ![p] = Missing]
  /\ handle' = [handle EXCEPT ![p] = "none"]

Source(p) == IF job[p].kind = "save" THEN text[p] ELSE file[job[p].from]

Open_InPlace(p) ==
  /\ Step(p, "open", "write")
  /\ Source(p) # Missing
  /\ text' = [text EXCEPT ![p] = Source(p)]
  /\ file' = [file EXCEPT ![job[p].to] = Empty]
  /\ tmp' = [tmp EXCEPT ![job[p].to] = Empty]
  /\ handle' = [handle EXCEPT ![p] = "final"]
  /\ UNCHANGED <<job, now, bounds, ghosts>>

\* write_text, or copy2 once it has opened its source, opens the temporary
\* file and truncates it ...
Open(p) ==
  /\ Step(p, "open", "write")
  /\ Source(p) # Missing
  /\ text' = [text EXCEPT ![p] = Source(p)]
  /\ tmp' = [tmp EXCEPT ![job[p].to] = Empty]
  /\ handle' = [handle EXCEPT ![p] = "tmp"]
  /\ UNCHANGED <<file, job, now, bounds, ghosts>>

\* ... unless the source has gone since.
SourceGone(p) ==
  /\ Step(p, "open", "failed")
  /\ Source(p) = Missing
  /\ UNCHANGED <<diskVars, procVars, now, bounds, ghosts>>

\* What the file p writes to holds before, and may hold afterwards.
Held(p) == CASE handle[p] = "tmp" -> tmp[job[p].to]
             [] handle[p] = "final" -> file[job[p].to]
             [] OTHER -> Empty
Filled(p) == {text[p]} \cup (IF Held(p) = Empty THEN {} ELSE {Torn})

\* The open file, whatever its name is by now, gets the content.
Fills(p, content) ==
  /\ tmp' = IF handle[p] = "tmp" THEN [tmp EXCEPT ![job[p].to] = content] ELSE tmp
  /\ file' = IF handle[p] = "final" THEN [file EXCEPT ![job[p].to] = content] ELSE file
  /\ handle' = [handle EXCEPT ![p] = "none"]

Write(p) ==
  /\ Step(p, "write", "replace")
  /\ \E content \in Filled(p) : Fills(p, content)
  /\ UNCHANGED <<job, text, now, bounds, ghosts>>

\* The disk is full, or the like: the exception ends a save, and a copy once
\* it has cleaned up.
WriteFails(p) ==
  /\ Fills(p, Torn)
  /\ \/ /\ Step(p, "write", "idle")
        /\ job[p].kind = "save"
        /\ job' = [job EXCEPT ![p] = None]
        /\ text' = [text EXCEPT ![p] = Missing]
        /\ abandoned' = abandoned \cup {job[p].to}
     \/ /\ Step(p, "write", "failed")
        /\ job[p].kind # "save"
        /\ UNCHANGED <<job, text, abandoned>>
  /\ UNCHANGED <<now, bounds, taken, saved, retaken, clashed>>

\* What became of an open file when n's temporary file is renamed over n, and
\* when it is unlinked.
AfterRename(n) ==
  [q \in Proc |-> IF q \notin Busy(n) THEN handle[q]
                  ELSE CASE handle[q] = "tmp" -> "final"
                         [] handle[q] = "final" -> "gone"
                         [] OTHER -> handle[q]]
AfterUnlink(n) ==
  [q \in Proc |-> IF q \in Busy(n) /\ handle[q] = "tmp" THEN "gone" ELSE handle[q]]

\* Path.replace of a save, its last step ...
ReplaceSave(p) ==
  LET n == job[p].to
  IN /\ pc[p] = "replace" /\ job[p].kind = "save"
     /\ tmp[n] # Missing
     /\ file' = [file EXCEPT ![n] = tmp[n]]
     /\ tmp' = [tmp EXCEPT ![n] = Missing]
     /\ saved' = saved \cup {n}
     /\ Leave(p)
     /\ UNCHANGED <<now, bounds, taken, retaken, abandoned, clashed>>

\* ... and of a copy.
ReplaceCopy(p) ==
  LET n == job[p].to
  IN /\ Step(p, "replace", "done") /\ job[p].kind # "save"
     /\ tmp[n] # Missing
     /\ file' = [file EXCEPT ![n] = tmp[n]]
     /\ tmp' = [tmp EXCEPT ![n] = Missing]
     /\ handle' = AfterRename(n)
     /\ retaken' = IF job[p].kind = "backup" /\ file[n] # Missing THEN retaken \cup {n} ELSE retaken
     /\ UNCHANGED <<job, text, now, bounds, taken, saved, abandoned, clashed>>

\* FileNotFoundError: another call for the target was faster.
TmpGone(p) ==
  /\ Step(p, "replace", "failed") /\ job[p].kind # "save"
  /\ tmp[job[p].to] = Missing
  /\ UNCHANGED <<diskVars, procVars, now, bounds, ghosts>>

Unlink_Never(p) ==
  LET j == job[p]
  IN /\ pc[p] \in {"done", "failed"}
     /\ Leave(p)
     /\ taken' = IF pc[p] = "done" /\ j.kind = "backup"
                 THEN taken \cup {[to |-> j.to, was |-> text[p]]} ELSE taken
     /\ UNCHANGED <<diskVars, now, bounds, saved, retaken, abandoned, clashed>>

Unlink_NamesItLater(p) ==
  LET j == job[p]
  IN /\ pc[p] \in {"done", "failed"}
     /\ Leave(p)
     /\ tmp' = [tmp EXCEPT ![j.to] = Missing]
     /\ taken' = IF pc[p] = "done" /\ j.kind = "backup"
                 THEN taken \cup {[to |-> now, was |-> text[p]]} ELSE taken
     /\ UNCHANGED <<file, now, bounds, saved, retaken, abandoned, clashed>>

\* The finally clause of _atomic_copy, and the record that backup returns.
Unlink(p) ==
  LET j == job[p]
  IN /\ pc[p] \in {"done", "failed"}
     /\ tmp' = [tmp EXCEPT ![j.to] = Missing]
     /\ pc' = [pc EXCEPT ![p] = "idle"]
     /\ job' = [job EXCEPT ![p] = None]
     /\ text' = [text EXCEPT ![p] = Missing]
     /\ handle' = AfterUnlink(j.to)
     /\ taken' = IF pc[p] = "done" /\ j.kind = "backup"
                 THEN taken \cup {[to |-> j.to, was |-> text[p]]} ELSE taken
     /\ UNCHANGED <<file, now, bounds, saved, retaken, abandoned, clashed>>

\* Killed: the files stay as they are.
Kill(p) ==
  /\ pc[p] # "idle"
  /\ Leave(p)
  /\ abandoned' = abandoned \cup {job[p].to}
  /\ UNCHANGED <<diskVars, now, bounds, taken, saved, retaken, clashed>>

\* The user changes the file, or deletes it.
Edit(content) ==
  /\ edits < MaxEdits
  /\ file' = [file EXCEPT ![File] = content]
  /\ handle' = [q \in Proc |-> IF q \in Busy(File) /\ handle[q] = "final" /\ content = Missing
                              THEN "gone" ELSE handle[q]]
  /\ edits' = edits + 1
  /\ UNCHANGED <<tmp, pc, job, text, now, calls, ghosts>>

Tick ==
  /\ now < MaxSecond
  /\ now' = now + 1
  /\ UNCHANGED <<diskVars, pc, procVars, bounds, ghosts>>

FilesNext ==
  \/ \E p \in Proc :
       \/ CallSave(p) \/ CallBackup(p) \/ \E r \in taken : CallRestore(p, r)
       \/ Open(p) \/ SourceGone(p) \/ Write(p) \/ WriteFails(p)
       \/ ReplaceSave(p) \/ ReplaceCopy(p) \/ TmpGone(p) \/ Unlink(p) \/ Kill(p)
  \/ \E content \in Text \cup {Missing} : Edit(content)
  \/ Tick

FilesSpec == FilesInit /\ [][FilesNext]_vars

-----------------------------------------------------------------------------
(* Properties.                                                             *)

\* SnapshotStore.list_all: the readable files snapshots/*.json.
Listed == {i \in Id : file[i] \in Whole}

\* snapshot_store.py:4 "a crash mid-write must never leave a half-written
\* snapshot file under its final name": wherever saves are killed or fail,
\* each name holds its own snapshot or nothing, and a snapshot whose save
\* returned is listed from then on.
SnapshotsKept ==
  /\ \A i \in Id : file[i] \in {Missing, i}
  /\ saved \subseteq Listed

\* "atomic on POSIX" (backup.py:17): wherever a backup or restore is killed
\* or fails, the file and its backups are whole, as long as no two calls for
\* one of them were made at the same time. Two share its temporary file: one
\* may rename the file that the other is still writing.
CopiesWhole == ~clashed => \A n \in {File} \cup Second : file[n] \notin {Empty, Torn}

\* What restore puts back is the text that the backup of its record was taken
\* of, whatever was edited, killed and restored in between - unless another
\* backup of the same second has taken its name.
RestoreBringsBack ==
  [][\A p \in Proc :
       /\ pc[p] = "replace" /\ pc'[p] = "done" /\ job[p].kind = "restore"
       /\ job[p].from \notin retaken /\ ~clashed
       => file'[File] = job[p].was]_vars

\* A temporary file belongs to a call at work on its target, or to one that
\* was killed, or to a save that failed: no backup or restore that returned,
\* or failed, leaves one behind.
NoLeftovers ==
  \A n \in Target :
    tmp[n] # Missing =>
      n \in abandoned \/ \E p \in Busy(n) : pc[p] \in {"write", "replace", "done", "failed"}
=============================================================================
