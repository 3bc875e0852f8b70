----------------------------- MODULE HistoryLog -----------------------------
(***************************************************************************)
(* HistoryStore: history.jsonl, one line per operation.                    *)
(*                                                                         *)
(* The file is the sequence of what each append left in it. An append      *)
(* first counts the readable lines to choose its id, then writes its line  *)
(* through an O_APPEND descriptor. A killed process or a full disk may cut *)
(* the line short: "cut" is a strict prefix of the JSON body, "bare" the   *)
(* whole body without its newline. What the next append writes then stands *)
(* on the same line.                                                       *)
(***************************************************************************)
EXTENDS Naturals, Sequences, FiniteSets

CONSTANTS
  Writer,      \* hallfix processes
  MaxAppends   \* bound: appends started

ASSUME LogAssumption == MaxAppends \in Nat

VARIABLES
  file,   \* history.jsonl
  next,   \* the id a process has chosen; 0: it is not appending
  begun,  \* counter of the bound
  overlapped  \* history variable: two processes were appending at the same time

logVars == <<file, next, begun, overlapped>>

Fragment == [id : Nat \ {0}, kind : {"whole", "bare", "cut"}]

LogTypeOK ==
  /\ file \in Seq(Fragment)
  /\ next \in [Writer -> Nat]
  /\ begun \in 0 .. MaxAppends
  /\ overlapped \in BOOLEAN

StartsLine(f, i) == i = 1 \/ f[i - 1].kind = "whole"

\* Names with an underscore are plausible mistakes in the definition that
\* follows them; they show that a property can fail and are used nowhere.

Readable_UpToBadLine(f) ==
  {i \in DOMAIN f : \A j \in 1 .. i : StartsLine(f, j) /\ f[j].kind # "cut"}

\* list_all: the lines that parse. A line is one JSON body only if a single
\* fragment is on it.
Readable(f) ==
  {i \in DOMAIN f : /\ StartsLine(f, i)
                    /\ f[i].kind = "whole" \/ (f[i].kind = "bare" /\ i = Len(f))}

NextId_Lines(f) == Len(f) + 1

\* _next_id: HF-001, HF-002, ...
NextId(f) == Cardinality(Readable(f)) + 1

Names_Latest(f, id, i) ==
  /\ i \in Readable(f) /\ f[i].id = id
  /\ \A j \in Readable(f) : f[j].id = id => j <= i

\* get, and rollback's look-up: the first record with that id.
Names(f, id, i) ==
  /\ i \in Readable(f) /\ f[i].id = id
  /\ \A j \in Readable(f) : f[j].id = id => i <= j

LogInit ==
  /\ file = << >>
  /\ next = [w \in Writer |-> 0]
  /\ begun = 0
  /\ overlapped = FALSE

ChooseId(w) ==
  /\ next[w] = 0
  /\ begun < MaxAppends
  /\ next' = [next EXCEPT ![w] = NextId(file)]
  /\ begun' = begun + 1
  /\ overlapped' = (overlapped \/ \E v \in Writer : next[v] # 0)
  /\ UNCHANGED file

Written_FromZero(w, kind) ==
  /\ next[w] # 0
  /\ file' = Append(file, [id |-> next[w] - 1, kind |-> kind])
  /\ next' = [next EXCEPT ![w] = 0]
  /\ UNCHANGED <<begun, overlapped>>

Written(w, kind) ==
  /\ next[w] # 0
  /\ file' = Append(file, [id |-> next[w], kind |-> kind])
  /\ next' = [next EXCEPT ![w] = 0]
  /\ UNCHANGED <<begun, overlapped>>

WriteLine(w) == Written(w, "whole")
TearLine(w)  == \E kind \in {"bare", "cut"} : Written(w, kind)

Killed(w) ==
  /\ next[w] # 0
  /\ next' = [next EXCEPT ![w] = 0]
  /\ UNCHANGED <<file, begun, overlapped>>

LogNext == \E w \in Writer : ChooseId(w) \/ WriteLine(w) \/ TearLine(w) \/ Killed(w)

LogSpec == LogInit /\ [][LogNext]_logVars

-----------------------------------------------------------------------------
(* Properties.                                                             *)

\* tests/unit/test_history_store.py:15 test_append_assigns_sequential_ids:
\* the k-th record that `hallfix history` lists is HF-k, torn lines and killed
\* processes or not, as long as no two processes have been appending at once.
SequentialIds ==
  ~overlapped =>
    \A i \in Readable(file) : file[i].id = Cardinality({j \in Readable(file) : j <= i})

\* A torn line costs at most one finished record, the one that the next
\* append glued to it: never the records before it nor those that follow.
TearsAreLocal ==
  Cardinality({i \in DOMAIN file : file[i].kind = "whole" /\ i \notin Readable(file)})
    <= Cardinality({i \in DOMAIN file : file[i].kind # "whole"})

\* The operation that `history show HF-k` and `rollback HF-k` pick never
\* changes once its line is finished, even when a race gave k out twice.
StableNames ==
  [][\A i \in DOMAIN file : file[i].kind = "whole" /\ Names(file, file[i].id, i)
       => Names(file', file[i].id, i)]_logVars

\* docs/state.md:33 "a crash mid-write can only corrupt the last line
\* (skipped on read), never the whole history": every record whose append
\* returned is listed.
FinishedListed == \A i \in DOMAIN file : file[i].kind = "whole" => i \in Readable(file)
=============================================================================
