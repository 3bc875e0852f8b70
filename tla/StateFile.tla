------------------------------ MODULE StateFile ------------------------------
(***************************************************************************)
(* StateStore on the file system: every change loads the whole map from    *)
(* state.json, writes the new one to state.json.tmp and renames it over    *)
(* state.json. The temporary name is the same for every process.           *)
(*                                                                         *)
(* A file is known by its name; a process that has opened the temporary    *)
(* file keeps writing to it after another process has renamed it ("final") *)
(* or renamed something else over it ("gone"). A process may be killed     *)
(* between any two system calls.                                           *)
(***************************************************************************)
EXTENDS Naturals

CONSTANTS
  Writer,     \* hallfix processes
  Tool,       \* tool ids
  Requester,  \* profile ids, and the mark of a tracked tool
  Mark,       \* the mark: installed_by_hallfix
  Missing,    \* no such file
  Empty,      \* content of a file that has been opened and not yet written
  Torn,       \* content that two processes have written over each other
  None,       \* no operation
  MaxChanges  \* bound: operations started

VARIABLES
  final,    \* state.json
  tmp,      \* state.json.tmp
  pc,       \* where each process is in its operation
  op,       \* the operation, or None
  new,      \* the map it is going to write
  handle,   \* the file its descriptor refers to
  begun,    \* counter of the bound
  recorded, \* history variable: per tool, everything record_installed was told
  overlapped, \* history variable: two processes were in the store at the same time
  blank       \* history variable: processes whose load could not read state.json

fileVars == <<final, tmp>>
procVars == <<op, new, handle, blank>>
ghosts   == <<recorded, overlapped>>
vars     == <<fileVars, pc, procVars, begun, ghosts>>

NoEntry == [t \in Tool |-> {}]
Entries == [Tool -> SUBSET Requester]
Content == Entries \cup {Missing, Empty, Torn}
Change  == [install : BOOLEAN, tool : Tool, who : SUBSET Requester]

ASSUME StateFileAssumption ==
  /\ Mark \in Requester
  /\ Entries \cap {Missing, Empty, Torn} = {}
  /\ Missing # Empty /\ Missing # Torn
  /\ None \notin Change
  /\ MaxChanges \in Nat

StateTypeOK ==
  /\ final \in Content
  /\ tmp \in Content
  /\ pc \in [Writer -> {"idle", "load", "open", "write", "replace"}]
  /\ op \in [Writer -> Change \cup {None}]
  /\ \A w \in Writer : pc[w] # "idle" <=> op[w] # None
  /\ new \in [Writer -> Entries]
  /\ handle \in [Writer -> {"none", "tmp", "final", "gone"}]
  /\ begun \in 0 .. MaxChanges
  /\ recorded \in Entries
  /\ overlapped \in BOOLEAN
  /\ \A w \in blank : w \in Writer /\ pc[w] \in {"open", "write", "replace"}

\* Names with an underscore are plausible mistakes in the definition that
\* follows them; they show that a property can fail and are used nowhere.

Parsed_KeepTorn(content) == IF content \in Entries THEN content ELSE [t \in Tool |-> Requester]

\* StateStore.load: a missing, empty or torn file is an empty state.
Parsed(content) == IF content \in Entries THEN content ELSE NoEntry

Changed_ToolAsProfile(state, c) ==
  [state EXCEPT ![c.tool] = IF c.install THEN @ \cup c.who \cup {c.tool} ELSE {}]

Changed_DropOthers(state, c) ==
  [NoEntry EXCEPT ![c.tool] = IF c.install THEN state[c.tool] \cup c.who ELSE {}]

\* record_installed and record_removed on a loaded state.
Changed(state, c) == [state EXCEPT ![c.tool] = IF c.install THEN @ \cup c.who ELSE {}]

StateInit ==
  /\ final = Missing
  /\ tmp = Missing
  /\ pc = [w \in Writer |-> "idle"]
  /\ op = [w \in Writer |-> None]
  /\ new = [w \in Writer |-> NoEntry]
  /\ handle = [w \in Writer |-> "none"]
  /\ begun = 0
  /\ recorded = NoEntry
  /\ overlapped = FALSE
  /\ blank = {}

Goto(w, from, to) == pc[w] = from /\ pc' = [pc EXCEPT ![w] = to]

\* The operation is over: done, failed or killed.
Leave(w) ==
  /\ pc' = [pc EXCEPT ![w] = "idle"]
  /\ op' = [op EXCEPT ![w] = None]
  /\ new' = [new EXCEPT ![w] = NoEntry]
  /\ blank' = blank \ {w}

\* Executor._record_ownership calls the store; a profile comes with the mark.
Call(w, c) ==
  /\ Goto(w, "idle", "load")
  /\ begun < MaxChanges
  /\ c.install => Mark \in c.who
  /\ ~c.install => c.who = {}
  /\ op' = [op EXCEPT ![w] = c]
  /\ begun' = begun + 1
  /\ recorded' = IF c.install THEN [recorded EXCEPT ![c.tool] = @ \cup c.who] ELSE recorded
  /\ overlapped' = (overlapped \/ \E v \in Writer : pc[v] # "idle")
  /\ UNCHANGED <<fileVars, new, handle, blank>>

Load(w) ==
  /\ Goto(w, "load", "open")
  /\ new' = [new EXCEPT ![w] = Changed(Parsed(final), op[w])]
  /\ UNCHANGED <<fileVars, op, handle, blank, begun, ghosts>>

\* read_text raises OSError: an intact file reads as an empty state, too.
LoadFails(w) ==
  /\ Goto(w, "load", "open")
  /\ final # Missing
  /\ new' = [new EXCEPT ![w] = Changed(NoEntry, op[w])]
  /\ blank' = blank \cup {w}
  /\ UNCHANGED <<fileVars, op, handle, begun, ghosts>>

OpenTmp_InPlace(w) ==
  /\ Goto(w, "open", "write")
  /\ tmp' = Missing
  /\ final' = Empty
  /\ handle' = [handle EXCEPT ![w] = "final"]
  /\ UNCHANGED <<op, new, blank, begun, ghosts>>

\* write_text opens the temporary file and truncates it ...
OpenTmp(w) ==
  /\ Goto(w, "open", "write")
  /\ tmp' = Empty
  /\ handle' = [handle EXCEPT ![w] = "tmp"]
  /\ UNCHANGED <<final, op, new, blank, begun, ghosts>>

\* What a file holds once w has written to it; over what another process
\* has just written, two maps of different length leave a mixture.
Writes(w, content) == {new[w]} \cup (IF content = Empty THEN {} ELSE {Torn})

\* ... then fills the file it opened, whatever its name is by now.
WriteTmp(w) ==
  /\ Goto(w, "write", "replace")
  /\ \/ handle[w] = "tmp" /\ tmp' \in Writes(w, tmp) /\ UNCHANGED final
     \/ handle[w] = "final" /\ final' \in Writes(w, final) /\ UNCHANGED tmp
     \/ handle[w] = "gone" /\ UNCHANGED fileVars
  /\ handle' = [handle EXCEPT ![w] = "none"]
  /\ UNCHANGED <<op, new, blank, begun, ghosts>>

\* Path.replace, or FileNotFoundError when another process was faster.
Replace(w) ==
  /\ pc[w] = "replace"
  /\ \/ /\ tmp # Missing
        /\ final' = tmp
        /\ tmp' = Missing
        /\ handle' = [v \in Writer |-> CASE handle[v] = "tmp" -> "final"
                                         [] handle[v] = "final" -> "gone"
                                         [] OTHER -> handle[v]]
     \/ tmp = Missing /\ UNCHANGED <<fileVars, handle>>
  /\ Leave(w)
  /\ UNCHANGED <<begun, ghosts>>

\* Killed: the files stay as they are.
Killed(w) ==
  /\ pc[w] # "idle"
  /\ Leave(w)
  /\ handle' = [handle EXCEPT ![w] = "none"]
  /\ UNCHANGED <<fileVars, begun, ghosts>>

StateNext ==
  \E w \in Writer :
    \/ \E c \in Change : Call(w, c)
    \/ Load(w) \/ LoadFails(w) \/ OpenTmp(w) \/ WriteTmp(w) \/ Replace(w) \/ Killed(w)

StateSpec == StateInit /\ [][StateNext]_vars

-----------------------------------------------------------------------------
(* Properties.                                                             *)

\* docs/state.md:5 "a crash mid-write never leaves a half-written file under
\* its final name": wherever processes are killed, as long as no two have been
\* in the store at once. Two share state.json.tmp: one may rename the file
\* that the other is still writing.
NeverTorn == ~overlapped => final \notin {Empty, Torn}

\* state.json read through load() is the map StateStore promises: wherever a
\* process is killed, an operation happens at once and changes its own tool
\* alone, or does not happen; only one that could not read the file starts
\* from an empty map. After a race, nothing is invented.
Promise == INSTANCE StateMap WITH map <- Parsed(final), asked <- op,
                                  told <- recorded, raced <- overlapped, blank <- blank
ImplementsMap == Promise!MapSpec

\* Races may lose or tear state.json; but whatever they do, it never credits
\* hallfix or a profile with a tool that no record_installed ever recorded.
OnlyRecorded == \A t \in Tool : Parsed(final)[t] \subseteq recorded[t]
=============================================================================
