-------------------------- MODULE HistoryLogProofs --------------------------
(***************************************************************************)
(* Proofs about HistoryLog, for any number of appends.                     *)
(***************************************************************************)
EXTENDS HistoryLog, FiniteSetTheorems, FunctionTheorems, TLAPS

\* The log of any number of appending processes has its type.
THEOREM LogTypeCorrect == LogSpec => []LogTypeOK
<1>1. LogInit => LogTypeOK
  <2> SUFFICES ASSUME LogInit PROVE LogTypeOK
    OBVIOUS
  <2>1. overlapped \in BOOLEAN
    BY Zenon DEF LogInit
  <2>2. QED BY <2>1, LogAssumption DEF LogInit, LogTypeOK
<1>2. LogTypeOK /\ [LogNext]_logVars => LogTypeOK'
  <2> SUFFICES ASSUME LogTypeOK, [LogNext]_logVars PROVE LogTypeOK'
    OBVIOUS
  <2>1. IsFiniteSet(Readable(file))
    BY FS_Interval, FS_Subset DEF LogTypeOK, Readable
  <2>2. NextId(file) \in Nat
    BY <2>1, FS_CardinalityType DEF NextId
  <2>3. ASSUME NEW w \in Writer, ChooseId(w) PROVE LogTypeOK'
    BY <2>2, <2>3, LogAssumption DEF LogTypeOK, ChooseId
  <2>4. ASSUME NEW w \in Writer, NEW kind \in {"whole", "bare", "cut"}, Written(w, kind)
        PROVE  LogTypeOK'
    <3>1. [id |-> next[w], kind |-> kind] \in Fragment
      BY <2>4 DEF LogTypeOK, Written, Fragment
    <3>2. QED BY <2>4, <3>1 DEF LogTypeOK, Written
  <2>5. ASSUME NEW w \in Writer, Killed(w) PROVE LogTypeOK'
    BY <2>5 DEF LogTypeOK, Killed
  <2>6. CASE UNCHANGED logVars
    BY <2>6 DEF LogTypeOK, logVars
  <2>7. QED BY <2>3, <2>4, <2>5, <2>6 DEF LogNext, WriteLine, TearLine
<1>3. QED BY <1>1, <1>2, PTL DEF LogSpec

-----------------------------------------------------------------------------
(* What one more fragment does to the readable lines.                      *)

LEMMA ReadableFinite ==
  ASSUME LogTypeOK
  PROVE  /\ Readable(file) \subseteq 1 .. Len(file)
         /\ IsFiniteSet(Readable(file))
         /\ Cardinality(Readable(file)) \in Nat
<1>1. Readable(file) \subseteq 1 .. Len(file) BY DEF Readable, LogTypeOK
<1>2. IsFiniteSet(1 .. Len(file)) BY FS_Interval DEF LogTypeOK
<1>3. QED BY <1>1, <1>2, FS_Subset, FS_CardinalityType

\* What the fragments of f become in g = Append(f, e).
LEMMA AppendedFragments ==
  ASSUME NEW f \in Seq(Fragment), NEW e \in Fragment, NEW g, g = Append(f, e)
  PROVE  /\ Len(f) \in Nat /\ Len(g) = Len(f) + 1
         /\ DOMAIN f = 1 .. Len(f) /\ DOMAIN g = 1 .. Len(f) + 1
         /\ \A i \in 1 .. Len(f) : g[i] = f[i] /\ (StartsLine(g, i) <=> StartsLine(f, i))
         /\ g[Len(f) + 1] = e
         /\ StartsLine(g, Len(f) + 1) <=> Len(f) = 0 \/ f[Len(f)].kind = "whole"
<1>1. /\ Len(f) \in Nat /\ Len(g) = Len(f) + 1
      /\ DOMAIN f = 1 .. Len(f) /\ DOMAIN g = 1 .. Len(f) + 1
      /\ \A i \in 1 .. Len(f) : g[i] = f[i]
      /\ g[Len(f) + 1] = e
  OBVIOUS
<1>2. ASSUME NEW i \in 1 .. Len(f) PROVE StartsLine(g, i) <=> StartsLine(f, i)
  <2>1. i = 1 \/ i - 1 \in 1 .. Len(f) BY <1>1
  <2>2. QED BY <1>1, <2>1 DEF StartsLine
<1>3. StartsLine(g, Len(f) + 1) <=> Len(f) = 0 \/ f[Len(f)].kind = "whole"
  <2>1. (Len(f) + 1) - 1 = Len(f) /\ (Len(f) + 1 = 1 <=> Len(f) = 0) BY <1>1
  <2>2. Len(f) = 0 \/ g[Len(f)] = f[Len(f)]
    <3>1. Len(f) \in Nat BY <1>1
    <3>2. Len(f) = 0 \/ Len(f) \in 1 .. Len(f) BY ONLY <3>1
    <3>3. QED BY <1>1, <3>2
  <2>3. QED BY <2>1, <2>2 DEF StartsLine
<1>4. QED BY <1>1, <1>2, <1>3

\* After a finished line: the new fragment starts a line of its own.
LEMMA AppendFresh ==
  ASSUME NEW f \in Seq(Fragment), NEW e \in Fragment, NEW g, g = Append(f, e),
         Len(f) = 0 \/ f[Len(f)].kind = "whole"
  PROVE  Readable(g) = Readable(f) \cup (IF e.kind = "cut" THEN {} ELSE {Len(f) + 1})
<1> DEFINE n == Len(f)
<1>1. /\ n \in Nat /\ Len(g) = n + 1 /\ DOMAIN f = 1 .. n /\ DOMAIN g = 1 .. n + 1
      /\ \A i \in 1 .. n : g[i] = f[i] /\ (StartsLine(g, i) <=> StartsLine(f, i))
      /\ g[n + 1] = e /\ StartsLine(g, n + 1)
  BY AppendedFragments
<1>2. n = 0 \/ f[n].kind = "whole"
  OBVIOUS
<1> HIDE DEF n
<1>3. ASSUME NEW i \in 1 .. n PROVE i \in Readable(g) <=> i \in Readable(f)
  <2>1. i \in 1 .. n + 1 /\ i # n + 1 BY <1>1
  <2>2. i = n => f[i].kind = "whole" BY <1>1, <1>2
  <2>3. QED BY <1>1, <2>1, <2>2 DEF Readable, n
<1>4. n + 1 \in Readable(g) <=> e.kind # "cut"
  BY <1>1 DEF Readable, Fragment
<1>5. Readable(g) \subseteq 1 .. n + 1 /\ Readable(f) \subseteq 1 .. n
  BY <1>1 DEF Readable
<1>6. 1 .. n + 1 = 1 .. n \cup {n + 1}
  BY <1>1
<1>7. QED BY <1>3, <1>4, <1>5, <1>6 DEF n

\* After a torn line: the new fragment is glued to it, and both are lost.
LEMMA AppendGlued ==
  ASSUME NEW f \in Seq(Fragment), NEW e \in Fragment, NEW g, g = Append(f, e),
         Len(f) # 0, f[Len(f)].kind # "whole"
  PROVE  Readable(g) = Readable(f) \ {Len(f)}
<1> DEFINE n == Len(f)
<1>1. /\ n \in Nat /\ Len(g) = n + 1 /\ DOMAIN f = 1 .. n /\ DOMAIN g = 1 .. n + 1
      /\ \A i \in 1 .. n : g[i] = f[i] /\ (StartsLine(g, i) <=> StartsLine(f, i))
  BY AppendedFragments
<1>2. ~StartsLine(g, n + 1) /\ f[n].kind # "whole"
  <2>1. StartsLine(g, n + 1) <=> n = 0 \/ f[n].kind = "whole"
    BY AppendedFragments
  <2>2. QED BY <2>1
<1> HIDE DEF n
<1>3. ASSUME NEW i \in 1 .. n PROVE i \in Readable(g) <=> i \in Readable(f) /\ i # n
  <2>1. i \in 1 .. n + 1 /\ i # n + 1 BY <1>1
  <2>2. QED BY <1>1, <1>2, <2>1 DEF Readable, n
<1>4. n + 1 \notin Readable(g)
  BY <1>1, <1>2 DEF Readable
<1>5. Readable(g) \subseteq 1 .. n + 1 /\ Readable(f) \subseteq 1 .. n
  BY <1>1 DEF Readable
<1>6. 1 .. n + 1 = 1 .. n \cup {n + 1}
  BY <1>1
<1>7. QED BY <1>3, <1>4, <1>5, <1>6 DEF n

-----------------------------------------------------------------------------
(* Sequential ids. While no two appends overlap, at most one process has   *)
(* chosen an id, and that id is still the next one when it writes.         *)

LEMMA WrittenSequential ==
  ASSUME LogTypeOK, SequentialIds, ~overlapped,
         NEW w \in Writer, NEW kind \in {"whole", "bare", "cut"},
         Written(w, kind), next[w] = NextId(file)
  PROVE  SequentialIds'
<1> DEFINE e == [id |-> next[w], kind |-> kind]
           R == Readable(file)
           n == Len(file)
<1>1. e \in Fragment /\ file' = Append(file, e) /\ file \in Seq(Fragment) /\ n \in Nat
  BY DEF LogTypeOK, Written, Fragment
<1>2. /\ R \subseteq 1 .. n /\ IsFiniteSet(R) /\ Cardinality(R) \in Nat
  BY ReadableFinite
<1>3. \A i \in 1 .. n : file'[i] = file[i]
  BY <1>1
<1>4. file'[n + 1].id = Cardinality(R) + 1
  BY <1>1 DEF NextId
<1>5. CASE n = 0 \/ file[n].kind = "whole"
  <2>1. Readable(file') = R \cup (IF kind = "cut" THEN {} ELSE {n + 1})
    BY <1>1, <1>5, AppendFresh
  <2>2. ASSUME NEW i \in Readable(file'), i \in R
        PROVE  file'[i].id = Cardinality({j \in Readable(file') : j <= i})
    <3>1. {j \in Readable(file') : j <= i} = {j \in R : j <= i}
      BY <1>1, <1>2, <2>1, <2>2
    <3>2. QED BY <1>2, <1>3, <2>2, <3>1 DEF SequentialIds
  <2>3. ASSUME n + 1 \in Readable(file')
        PROVE  file'[n + 1].id = Cardinality({j \in Readable(file') : j <= n + 1})
    <3>1. {j \in Readable(file') : j <= n + 1} = R \cup {n + 1} /\ n + 1 \notin R
      BY <1>1, <1>2, <2>1, <2>3
    <3>2. Cardinality(R \cup {n + 1}) = Cardinality(R) + 1
      BY <1>2, <3>1, FS_AddElement
    <3>3. QED BY <1>4, <3>1, <3>2
  <2>4. QED BY <2>1, <2>2, <2>3 DEF SequentialIds
<1>6. CASE n # 0 /\ file[n].kind # "whole"
  <2>1. Readable(file') = R \ {n}
    BY <1>1, <1>6, AppendGlued
  <2>2. ASSUME NEW i \in Readable(file')
        PROVE  file'[i].id = Cardinality({j \in Readable(file') : j <= i})
    <3>1. {j \in Readable(file') : j <= i} = {j \in R : j <= i}
      BY <1>1, <1>2, <2>1, <2>2
    <3>2. QED BY <1>2, <1>3, <2>1, <2>2, <3>1 DEF SequentialIds
  <2>3. QED BY <2>2 DEF SequentialIds
<1>7. QED BY <1>5, <1>6

OneChosen == \A v, w \in Writer : next[v] # 0 /\ next[w] # 0 => v = w
ChosenIsNext == \A w \in Writer : next[w] # 0 => next[w] = NextId(file)
Undisturbed == ~overlapped => OneChosen /\ ChosenIsNext

\* Processes that do not overlap number their records HF-001, HF-002, ... in
\* the order they are listed, whatever lines are torn in between.
THEOREM SequentialIdsSound == LogSpec => []SequentialIds
<1>1. LogInit => SequentialIds /\ Undisturbed
  BY DEF LogInit, SequentialIds, Readable, Undisturbed, OneChosen, ChosenIsNext
<1>2. LogTypeOK /\ SequentialIds /\ Undisturbed /\ [LogNext]_logVars
        => (SequentialIds /\ Undisturbed)'
  <2> SUFFICES ASSUME LogTypeOK, SequentialIds, Undisturbed, [LogNext]_logVars, ~overlapped'
               PROVE  SequentialIds' /\ OneChosen' /\ ChosenIsNext'
    BY DEF SequentialIds, Undisturbed
  <2>1. ~overlapped
    BY DEF LogNext, ChooseId, WriteLine, TearLine, Written, Killed, logVars
  <2>2. OneChosen /\ ChosenIsNext
    BY <2>1 DEF Undisturbed
  <2>3. ASSUME NEW w \in Writer, NEW kind \in {"whole", "bare", "cut"}, Written(w, kind)
        PROVE  SequentialIds' /\ OneChosen' /\ ChosenIsNext'
    <3>1. next[w] = NextId(file)
      BY <2>2, <2>3 DEF Written, ChosenIsNext
    <3>2. SequentialIds'
      BY <2>1, <2>3, <3>1, WrittenSequential
    <3>3. \A v \in Writer : next'[v] = 0
      BY <2>2, <2>3 DEF Written, OneChosen, LogTypeOK
    <3>4. QED BY <3>2, <3>3 DEF OneChosen, ChosenIsNext
  <2>4. ASSUME NEW w \in Writer, ChooseId(w)
        PROVE  SequentialIds' /\ OneChosen' /\ ChosenIsNext'
    <3>1. \A v \in Writer : next[v] = 0
      BY <2>4 DEF ChooseId
    <3>2. file' = file /\ next' = [next EXCEPT ![w] = NextId(file)]
      BY <2>4 DEF ChooseId
    <3>3. SequentialIds'
      BY <2>1, <3>2 DEF SequentialIds
    <3>4. QED BY <3>1, <3>2, <3>3 DEF OneChosen, ChosenIsNext, LogTypeOK
  <2>5. ASSUME NEW w \in Writer, Killed(w)
        PROVE  SequentialIds' /\ OneChosen' /\ ChosenIsNext'
    BY <2>1, <2>2, <2>5 DEF Killed, LogTypeOK, SequentialIds, OneChosen, ChosenIsNext
  <2>6. CASE UNCHANGED logVars
    BY <2>1, <2>2, <2>6 DEF logVars, SequentialIds, OneChosen, ChosenIsNext
  <2>7. QED BY <2>3, <2>4, <2>5, <2>6 DEF LogNext, WriteLine, TearLine
<1>3. QED BY <1>1, <1>2, LogTypeCorrect, PTL DEF LogSpec

-----------------------------------------------------------------------------
(* What holds for any number of processes.                                 *)

\* A finished record is unreadable only when the fragment just before it is
\* torn: "one before" maps the lost records one-to-one to tears.
THEOREM TearsAreLocalSound == LogSpec => []TearsAreLocal
<1>1. LogTypeOK => TearsAreLocal
  <2> SUFFICES ASSUME LogTypeOK PROVE TearsAreLocal
    OBVIOUS
  <2> DEFINE S == {i \in DOMAIN file : file[i].kind = "whole" /\ i \notin Readable(file)}
             T == {i \in DOMAIN file : file[i].kind # "whole"}
             before == [i \in S |-> i - 1]
  <2>1. IsFiniteSet(T)
    <3>1. DOMAIN file = 1 .. Len(file) /\ Len(file) \in Nat BY DEF LogTypeOK
    <3>2. IsFiniteSet(DOMAIN file) BY <3>1, FS_Interval
    <3>3. QED BY <3>2, FS_Subset
  <2>2. \A i \in S : i - 1 \in T
    BY DEF LogTypeOK, Readable, StartsLine
  <2>3. \A i, j \in S : i - 1 = j - 1 => i = j
    BY DEF LogTypeOK
  <2>4. before \in Injection(S, T)
    BY <2>2, <2>3 DEF Injection, IsInjective
  <2>5. Cardinality(S) <= Cardinality(T)
    BY <2>1, <2>4, FS_Injection
  <2>6. QED BY <2>5 DEF TearsAreLocal
<1>2. QED BY <1>1, LogTypeCorrect, PTL

\* `get` keeps naming the same operation by an id, also after a race.
THEOREM StableNamesSound == LogSpec => StableNames
<1> DEFINE A == \A i \in DOMAIN file : file[i].kind = "whole" /\ Names(file, file[i].id, i)
                  => Names(file', file[i].id, i)
<1>1. LogTypeOK /\ [LogNext]_logVars => [A]_logVars
  <2> SUFFICES ASSUME LogTypeOK, LogNext, NEW i \in DOMAIN file, file[i].kind = "whole",
                      Names(file, file[i].id, i)
               PROVE  Names(file', file[i].id, i)
    OBVIOUS
  <2>1. ASSUME NEW w \in Writer, NEW kind \in {"whole", "bare", "cut"}, Written(w, kind)
        PROVE  Names(file', file[i].id, i)
    <3> DEFINE e == [id |-> next[w], kind |-> kind]
               n == Len(file)
    <3>1. e \in Fragment /\ file' = Append(file, e) /\ file \in Seq(Fragment) /\ n \in Nat
      BY <2>1 DEF LogTypeOK, Written, Fragment
    <3>2. /\ \A j \in 1 .. n : file'[j] = file[j]
          /\ DOMAIN file = 1 .. n
      BY <3>1
    <3>3. Readable(file') \subseteq Readable(file) \cup {n + 1} /\ i \in Readable(file')
      <4>1. CASE n = 0 \/ file[n].kind = "whole"
        <5>1. Readable(file') = Readable(file) \cup (IF e.kind = "cut" THEN {} ELSE {n + 1})
          BY <3>1, <4>1, AppendFresh
        <5>2. QED BY <5>1 DEF Names
      <4>2. CASE n # 0 /\ file[n].kind # "whole"
        <5>1. Readable(file') = Readable(file) \ {n}
          BY <3>1, <4>2, AppendGlued
        <5>2. QED BY <4>2, <5>1 DEF Names
      <4>3. QED BY <4>1, <4>2
    <3>4. Readable(file) \subseteq 1 .. n
      BY <3>2 DEF Readable
    <3>5. QED BY <3>1, <3>2, <3>3, <3>4 DEF Names
  <2>2. CASE file' = file
    BY <2>2 DEF Names, Readable, StartsLine
  <2>3. QED BY <2>1, <2>2 DEF LogNext, WriteLine, TearLine, ChooseId, Killed
<1>2. QED BY <1>1, LogTypeCorrect, PTL DEF LogSpec, StableNames
=============================================================================
