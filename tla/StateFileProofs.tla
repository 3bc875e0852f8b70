--------------------------- MODULE StateFileProofs ---------------------------
(***************************************************************************)
(* Proofs about StateFile, for any tools, profiles and number of changes.  *)
(***************************************************************************)
EXTENDS StateFile, TLAPS

LEMMA ParsedType == \A content : Parsed(content) \in Entries
BY DEF Parsed, NoEntry, Entries

LEMMA EmptyType == NoEntry \in Entries
BY DEF NoEntry, Entries

LEMMA ChangedType ==
  ASSUME NEW m \in Entries, NEW c \in Change
  PROVE  Changed(m, c) \in Entries
BY DEF Changed, Entries, Change

\* state.json, its temporary file and the processes have their types.
THEOREM StateTypeCorrect == StateSpec => []StateTypeOK
<1>1. StateInit => StateTypeOK
  <2> SUFFICES ASSUME StateInit PROVE StateTypeOK
    OBVIOUS
  <2>1. overlapped \in BOOLEAN
    BY Zenon DEF StateInit
  <2>2. QED
    BY <2>1, StateFileAssumption DEF StateInit, StateTypeOK, Content, Entries, NoEntry
<1>2. StateTypeOK /\ [StateNext]_vars => StateTypeOK'
  <2> SUFFICES ASSUME StateTypeOK, [StateNext]_vars PROVE StateTypeOK'
    OBVIOUS
  <2>1. ASSUME NEW w \in Writer, NEW c \in Change, Call(w, c) PROVE StateTypeOK'
    <3>1. recorded' \in Entries BY <2>1 DEF StateTypeOK, Call, Change, Entries
    <3>2. overlapped' \in BOOLEAN BY <2>1, Zenon DEF Call
    <3>3. QED BY <2>1, <3>1, <3>2, StateFileAssumption DEF StateTypeOK, Call, Goto, fileVars
  <2>2. ASSUME NEW w \in Writer, Load(w) PROVE StateTypeOK'
    <3>1. op[w] \in Change BY <2>2 DEF StateTypeOK, Load, Goto
    <3>2. Changed(Parsed(final), op[w]) \in Entries BY <3>1, ParsedType, ChangedType
    <3>3. QED BY <2>2, <3>2 DEF StateTypeOK, Load, Goto, fileVars, ghosts
  <2>3. ASSUME NEW w \in Writer, LoadFails(w) PROVE StateTypeOK'
    <3>1. op[w] \in Change BY <2>3 DEF StateTypeOK, LoadFails, Goto
    <3>2. Changed(NoEntry, op[w]) \in Entries BY <3>1, EmptyType, ChangedType
    <3>3. QED BY <2>3, <3>2 DEF StateTypeOK, LoadFails, Goto, fileVars, ghosts
  <2>4. ASSUME NEW w \in Writer, OpenTmp(w) PROVE StateTypeOK'
    BY <2>4 DEF StateTypeOK, OpenTmp, Goto, Content, ghosts
  <2>5. ASSUME NEW w \in Writer, WriteTmp(w) PROVE StateTypeOK'
    <3>1. \A content : Writes(w, content) \subseteq Content
      BY DEF Writes, StateTypeOK, Content
    <3>2. QED BY <2>5, <3>1 DEF StateTypeOK, WriteTmp, Goto, fileVars, ghosts
  <2>6. ASSUME NEW w \in Writer, Replace(w) PROVE StateTypeOK'
    BY <2>6 DEF StateTypeOK, Replace, Leave, Content, Entries, NoEntry, fileVars, ghosts
  <2>7. ASSUME NEW w \in Writer, Killed(w) PROVE StateTypeOK'
    BY <2>7 DEF StateTypeOK, Killed, Leave, Entries, NoEntry, fileVars, ghosts
  <2>8. CASE UNCHANGED vars
    BY <2>8 DEF StateTypeOK, vars, fileVars, procVars, ghosts
  <2>9. QED BY <2>1, <2>2, <2>4, <2>5, <2>6, <2>7, <2>8, <2>3 DEF StateNext
<1>3. QED BY <1>1, <1>2, PTL DEF StateSpec

-----------------------------------------------------------------------------
(* Any number of processes: what is in the files or about to be written    *)
(* was recorded.                                                           *)

Within(m) == \A t \in Tool : m[t] \subseteq recorded[t]

AllRecorded ==
  /\ Within(Parsed(final))
  /\ Within(Parsed(tmp))
  /\ \A w \in Writer : Within(new[w])
  /\ \A w \in Writer : op[w] \in Change /\ op[w].install => op[w].who \subseteq recorded[op[w].tool]

LEMMA WithinEmpty ==
  ASSUME StateTypeOK
  PROVE  /\ Within(NoEntry)
         /\ \A content \in {Missing, Empty, Torn} : Within(Parsed(content))
BY StateFileAssumption DEF Within, Parsed, NoEntry

LEMMA AllRecordedInvariant == StateSpec => []AllRecorded
<1>1. StateInit => AllRecorded
  BY StateFileAssumption
     DEF StateInit, AllRecorded, Within, Parsed, NoEntry
<1>2. StateTypeOK /\ AllRecorded /\ [StateNext]_vars => AllRecorded'
  <2> SUFFICES ASSUME StateTypeOK, AllRecorded, [StateNext]_vars PROVE AllRecorded'
    OBVIOUS
  <2>1. ASSUME NEW w \in Writer, NEW c \in Change, Call(w, c) PROVE AllRecorded'
    <3>1. \A t \in Tool : recorded[t] \subseteq recorded'[t]
      BY <2>1 DEF Call, StateTypeOK, Entries
    <3>2. \A m : Within(m) => Within(m)'
      BY <3>1 DEF Within
    <3>3. UNCHANGED <<final, tmp, new>>
      BY <2>1 DEF Call, fileVars
    <3>4. c.install => c.who \subseteq recorded'[c.tool]
      BY <2>1 DEF Call, StateTypeOK, Entries, Change
    <3>5. \A v \in Writer : op'[v] \in Change /\ op'[v].install
            => op'[v].who \subseteq recorded'[op'[v].tool]
      BY <2>1, <3>1, <3>4 DEF Call, StateTypeOK, AllRecorded, Change
    <3>6. Within(Parsed(final))' /\ Within(Parsed(tmp))' /\ \A v \in Writer : Within(new[v])'
      BY <3>1, <3>3 DEF Within, AllRecorded
    <3>7. QED BY <2>1, <3>5, <3>6 DEF AllRecorded, Call, Goto, StateTypeOK
  <2>2. ASSUME NEW w \in Writer, Load(w) PROVE AllRecorded'
    <3> DEFINE m == Changed(Parsed(final), op[w])
    <3>1. op[w] \in Change BY <2>2 DEF StateTypeOK, Load, Goto
    <3>2. Parsed(final) \in Entries BY ParsedType
    <3>3. \A t \in Tool : m[t] \subseteq recorded[t]
      BY <3>1, <3>2 DEF Changed, AllRecorded, Within, Entries, Change
    <3>4. UNCHANGED <<final, tmp, op, recorded>> /\ new' = [new EXCEPT ![w] = m]
      BY <2>2 DEF Load, fileVars, ghosts
    <3>5. QED BY <2>2, <3>3, <3>4 DEF AllRecorded, Within, Load, Goto, StateTypeOK
  <2>3. ASSUME NEW w \in Writer, LoadFails(w) PROVE AllRecorded'
    <3> DEFINE m == Changed(NoEntry, op[w])
    <3>1. op[w] \in Change BY <2>3 DEF StateTypeOK, LoadFails, Goto
    <3>2. NoEntry \in Entries /\ Within(NoEntry) BY EmptyType, WithinEmpty
    <3>3. \A t \in Tool : m[t] \subseteq recorded[t]
      BY <3>1, <3>2 DEF Changed, AllRecorded, Within, Entries, Change
    <3>4. UNCHANGED <<final, tmp, op, recorded>> /\ new' = [new EXCEPT ![w] = m]
      BY <2>3 DEF LoadFails, fileVars, ghosts
    <3>5. QED BY <2>3, <3>3, <3>4 DEF AllRecorded, Within, LoadFails, Goto, StateTypeOK
  <2>4. ASSUME NEW w \in Writer, OpenTmp(w) PROVE AllRecorded'
    <3>1. Within(Parsed(Empty)) BY WithinEmpty
    <3>2. QED BY <2>4, <3>1 DEF AllRecorded, Within, OpenTmp, Goto, StateTypeOK, ghosts
  <2>5. ASSUME NEW w \in Writer, WriteTmp(w) PROVE AllRecorded'
    <3>1. \A content : \A m \in Writes(w, content) : Within(Parsed(m))
      BY WithinEmpty DEF Writes, AllRecorded, Parsed, StateTypeOK
    <3>2. UNCHANGED <<op, new, recorded>> BY <2>5 DEF WriteTmp, ghosts
    <3>3. Within(Parsed(final'))
      BY <2>5, <3>1 DEF WriteTmp, AllRecorded, fileVars
    <3>4. Within(Parsed(tmp'))
      BY <2>5, <3>1 DEF WriteTmp, AllRecorded, fileVars
    <3>5. QED BY <2>5, <3>2, <3>3, <3>4 DEF AllRecorded, Within, WriteTmp, Goto, StateTypeOK
  <2>6. ASSUME NEW w \in Writer, Replace(w) \/ Killed(w) PROVE AllRecorded'
    <3>1. Within(NoEntry) /\ Within(Parsed(Missing)) BY WithinEmpty
    <3>2. Leave(w) /\ recorded' = recorded BY <2>6 DEF Replace, Killed, ghosts
    <3>3. \A v \in Writer : Within(new'[v])
      BY <3>1, <3>2 DEF Leave, AllRecorded, StateTypeOK
    <3>4. \A v \in Writer : /\ op'[v] \in Change /\ op'[v].install
                                 => op'[v].who \subseteq recorded[op'[v].tool]
                            /\ pc'[v] # "idle" => op'[v] \in Change
      BY <3>2, StateFileAssumption DEF Leave, AllRecorded, StateTypeOK
    <3>5. Within(Parsed(final')) /\ Within(Parsed(tmp'))
      BY <2>6, <3>1 DEF Replace, Killed, AllRecorded, fileVars
    <3>6. QED BY <3>2, <3>3, <3>4, <3>5 DEF AllRecorded, Within
  <2>7. CASE UNCHANGED vars
    BY <2>7 DEF AllRecorded, Within, vars, fileVars, procVars, ghosts
  <2>8. QED BY <2>1, <2>2, <2>4, <2>5, <2>6, <2>7, <2>3 DEF StateNext
<1>3. QED BY <1>1, <1>2, StateTypeCorrect, PTL DEF StateSpec

\* However many processes race on state.json and its temporary file, no tool
\* is credited to anyone for whom it was not recorded.
THEOREM OnlyRecordedSound == StateSpec => []OnlyRecorded
<1>1. AllRecorded => OnlyRecorded
  BY DEF AllRecorded, Within, OnlyRecorded
<1>2. QED BY <1>1, AllRecordedInvariant, PTL

-----------------------------------------------------------------------------
(* As long as no two processes meet, the temporary file belongs to the one *)
(* that is in the store, and what it is about to rename is its operation   *)
(* applied to what state.json holds, or to the empty map if it could not   *)
(* read the file.                                                          *)

Base(w) == IF w \in blank THEN NoEntry ELSE Parsed(final)

OneInside == \A v, w \in Writer : pc[v] # "idle" /\ pc[w] # "idle" => v = w

Quiet ==
  /\ OneInside
  /\ final \in Entries \cup {Missing}
  /\ \A w \in Writer :
       /\ handle[w] = IF pc[w] = "write" THEN "tmp" ELSE "none"
       /\ pc[w] \in {"open", "write", "replace"} => new[w] = Changed(Base(w), op[w])
       /\ pc[w] = "write" => tmp = Empty
       /\ pc[w] = "replace" => tmp = new[w]

Undisturbed == ~overlapped => Quiet

LEMMA UndisturbedInvariant == StateSpec => []Undisturbed
<1>1. StateInit => Undisturbed
  BY DEF StateInit, Undisturbed, Quiet, OneInside
<1>2. StateTypeOK /\ Undisturbed /\ [StateNext]_vars => Undisturbed'
  <2> SUFFICES ASSUME StateTypeOK, Undisturbed, [StateNext]_vars, ~overlapped'
               PROVE  Quiet'
    BY DEF Undisturbed
  <2>1. ~overlapped
    BY DEF StateNext, Call, Load, LoadFails, OpenTmp, WriteTmp, Replace, Killed, ghosts, vars
  <2>2. Quiet
    BY <2>1 DEF Undisturbed
  <2>3. ASSUME NEW w \in Writer, NEW c \in Change, Call(w, c) PROVE Quiet'
    <3>1. \A v \in Writer : pc[v] = "idle"
      BY <2>3 DEF Call
    <3>2. QED
      BY <2>2, <2>3, <3>1 DEF Quiet, Base, OneInside, Call, Goto, fileVars, StateTypeOK
  <2>4. ASSUME NEW w \in Writer, pc[w] # "idle" PROVE \A v \in Writer \ {w} : pc[v] = "idle"
    BY <2>2, <2>4 DEF Quiet, OneInside
  <2>5. ASSUME NEW w \in Writer, Load(w) PROVE Quiet'
    BY <2>2, <2>4, <2>5 DEF Quiet, Base, OneInside, Load, Goto, fileVars, StateTypeOK
  <2>6. ASSUME NEW w \in Writer, LoadFails(w) PROVE Quiet'
    BY <2>2, <2>4, <2>6 DEF Quiet, Base, OneInside, LoadFails, Goto, fileVars, StateTypeOK
  <2>7. ASSUME NEW w \in Writer, OpenTmp(w) PROVE Quiet'
    BY <2>2, <2>4, <2>7 DEF Quiet, Base, OneInside, OpenTmp, Goto, StateTypeOK
  <2>8. ASSUME NEW w \in Writer, WriteTmp(w) PROVE Quiet'
    BY <2>2, <2>4, <2>8 DEF Quiet, Base, OneInside, WriteTmp, Writes, Goto, StateTypeOK
  <2>9. ASSUME NEW w \in Writer, Replace(w) PROVE Quiet'
    <3>1. tmp \in Entries /\ tmp # Missing
      BY <2>2, <2>9, StateFileAssumption DEF Quiet, Replace, StateTypeOK
    <3>2. \A v \in Writer : handle[v] = "none" /\ (v # w => pc[v] = "idle")
      BY <2>2, <2>4, <2>9 DEF Quiet, Replace
    <3>3. /\ final' \in Entries
          /\ \A v \in Writer : handle'[v] = "none"
      BY <2>9, <3>1, <3>2 DEF Replace
    <3>4. \A v \in Writer : pc'[v] = "idle"
      BY <2>9, <3>2 DEF Replace, Leave, StateTypeOK
    <3>5. QED BY <3>3, <3>4 DEF Quiet, OneInside
  <2>10. ASSUME NEW w \in Writer, Killed(w) PROVE Quiet'
    BY <2>2, <2>4, <2>10 DEF Quiet, Base, OneInside, Killed, Leave, fileVars, StateTypeOK
  <2>11. CASE UNCHANGED vars
    BY <2>2, <2>11 DEF Quiet, Base, OneInside, vars, fileVars, procVars
  <2>12. QED BY <2>3, <2>5, <2>7, <2>8, <2>9, <2>10, <2>11, <2>6 DEF StateNext
<1>3. QED BY <1>1, <1>2, StateTypeCorrect, PTL DEF StateSpec

\* As long as no two processes are in the store at once, no kill leaves a
\* half-written state.json under its final name.
THEOREM NeverTornSound == StateSpec => []NeverTorn
<1>1. Undisturbed => NeverTorn
  BY StateFileAssumption DEF Undisturbed, Quiet, NeverTorn
<1>2. QED BY <1>1, UndisturbedInvariant, PTL

LEMMA SameChange == Promise!Change = Change /\ Promise!Map = Entries
BY DEF Promise!Change, Change, Promise!Map, Entries

\* The file protocol, any number of processes, implements the atomic map up
\* to the first race, and after it invents nothing.
THEOREM StateFileImplementsMap == StateSpec => ImplementsMap
<1>1. StateInit => Promise!MapInit
  BY StateFileAssumption DEF StateInit, Promise!MapInit, Parsed, NoEntry
<1>2. StateTypeOK /\ Undisturbed /\ AllRecorded' /\ [StateNext]_vars
        => [Promise!MapNext]_<<Parsed(final), op, recorded, overlapped, blank>>
  <2> SUFFICES ASSUME StateTypeOK, Undisturbed, AllRecorded', [StateNext]_vars
               PROVE  \/ Promise!MapNext
                      \/ /\ Parsed(final)' = Parsed(final) /\ op' = op
                         /\ recorded' = recorded /\ overlapped' = overlapped /\ blank' = blank
    OBVIOUS
  <2>1. ASSUME NEW w \in Writer, NEW c \in Change, Call(w, c) PROVE Promise!MapNext
    <3>1. /\ op[w] = None /\ op' = [op EXCEPT ![w] = c] /\ final' = final
          /\ \A v \in Writer : pc[v] # "idle" <=> op[v] # None
      BY <2>1 DEF StateTypeOK, Call, Goto, fileVars
    <3>2. overlapped' = (overlapped \/ \E v \in Writer : op[v] # None)
      BY <2>1, <3>1 DEF Call
    <3>3. Promise!Ask(w, c)
      BY <2>1, <3>1, <3>2 DEF Promise!Ask, Call, Parsed
    <3>4. QED BY <3>3, SameChange DEF Promise!MapNext
  <2>2. ASSUME NEW w \in Writer, Load(w) \/ OpenTmp(w)
        PROVE  Parsed(final)' = Parsed(final) /\ op' = op
               /\ recorded' = recorded /\ overlapped' = overlapped /\ blank' = blank
    BY <2>2 DEF Load, OpenTmp, fileVars, ghosts, Parsed
  <2>3. ASSUME NEW w \in Writer, overlapped, UNCHANGED ghosts,
               op' = op \/ op' = [op EXCEPT ![w] = None],
               blank' = blank \/ blank' = blank \ {w}
        PROVE  Promise!MapNext
    <3>1. Parsed(final)' \in Entries
      BY ParsedType
    <3>2. \A t \in Tool : Parsed(final)'[t] \subseteq recorded[t]
      BY <2>3 DEF AllRecorded, Within, ghosts
    <3>3. Promise!Disturb(w)
      BY <2>3, <3>1, <3>2, SameChange DEF Promise!Disturb, ghosts
    <3>4. QED BY <3>3 DEF Promise!MapNext
  <2>4. ASSUME NEW w \in Writer, WriteTmp(w), ~overlapped
        PROVE  Parsed(final)' = Parsed(final) /\ op' = op
               /\ recorded' = recorded /\ overlapped' = overlapped /\ blank' = blank
    <3>1. handle[w] = "tmp"
      BY <2>4 DEF Undisturbed, Quiet, WriteTmp, Goto
    <3>2. QED BY <2>4, <3>1 DEF WriteTmp, ghosts, Parsed
  <2>5. ASSUME NEW w \in Writer, Replace(w), ~overlapped PROVE Promise!MapNext
    <3>1. tmp \in Entries /\ tmp # Missing /\ op[w] # None
      BY <2>5, StateFileAssumption DEF Undisturbed, Quiet, Replace, StateTypeOK
    <3>2. final' = Changed(Base(w), op[w]) /\ final' \in Entries
      BY <2>5, <3>1 DEF Undisturbed, Quiet, Replace
    <3>3. Parsed(final') = final'
      BY <3>2 DEF Parsed
    <3>4. Promise!Apply(w)
      BY <2>5, <3>1, <3>2, <3>3 DEF Promise!Apply, Replace, Leave, Changed, Base, NoEntry, ghosts
    <3>5. QED BY <3>4 DEF Promise!MapNext
  <2>6. ASSUME NEW w \in Writer, Killed(w) PROVE Promise!MapNext
    <3>1. Promise!Lose(w)
      BY <2>6 DEF Promise!Lose, Killed, Leave, fileVars, ghosts, Parsed
    <3>2. QED BY <3>1 DEF Promise!MapNext
  <2>7. ASSUME NEW w \in Writer, LoadFails(w) PROVE Promise!MapNext
    <3>1. op[w] # None
      BY <2>7 DEF StateTypeOK, LoadFails, Goto
    <3>2. Promise!Miss(w)
      BY <2>7, <3>1 DEF Promise!Miss, LoadFails, fileVars, ghosts, Parsed
    <3>3. QED BY <3>2 DEF Promise!MapNext
  <2>8. ASSUME NEW w \in Writer, WriteTmp(w) \/ Replace(w), overlapped PROVE Promise!MapNext
    BY <2>3, <2>8 DEF WriteTmp, Replace, Leave
  <2>9. CASE UNCHANGED vars
    BY <2>9 DEF vars, fileVars, procVars, ghosts, Parsed
  <2>10. QED
    BY <2>1, <2>2, <2>4, <2>5, <2>6, <2>8, <2>9, <2>7 DEF StateNext
<1>3. QED
  BY <1>1, <1>2, StateTypeCorrect, UndisturbedInvariant, AllRecordedInvariant, PTL
     DEF StateSpec, ImplementsMap, Promise!MapSpec, Promise!mapVars
=============================================================================
