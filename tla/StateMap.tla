------------------------------ MODULE StateMap ------------------------------
(***************************************************************************)
(* What StateStore promises: a map from tools to those who requested them, *)
(* and processes that ask for a change of one tool's entry. A change is    *)
(* applied at once, to the map as it is then, or is lost with its process. *)
(* A process that cannot read the map takes it for empty.                  *)
(* Nothing locks the map: once two requests have overlapped, all that is   *)
(* left of the promise is that nobody is credited with what was never      *)
(* asked for.                                                              *)
(***************************************************************************)
CONSTANTS
  Writer,     \* hallfix processes
  Tool,       \* tool ids
  Requester,  \* profile ids, and the mark of a tracked tool
  None        \* no change asked for

VARIABLES
  map,    \* the ownership map
  asked,  \* the change each process has asked for
  told,   \* per tool, everybody an installation was asked for
  raced,  \* two requests have overlapped
  blank   \* processes that could not read the map for their change

mapVars == <<map, asked, told, raced, blank>>

Change == [install : BOOLEAN, tool : Tool, who : SUBSET Requester]
Map == [Tool -> SUBSET Requester]

MapInit ==
  /\ map = [t \in Tool |-> {}]
  /\ asked = [w \in Writer |-> None]
  /\ told = [t \in Tool |-> {}]
  /\ raced = FALSE
  /\ blank = {}

Ask(w, c) ==
  /\ asked[w] = None
  /\ asked' = [asked EXCEPT ![w] = c]
  /\ told' = IF c.install THEN [told EXCEPT ![c.tool] = @ \cup c.who] ELSE told
  /\ raced' = (raced \/ \E v \in Writer : asked[v] # None)
  /\ UNCHANGED <<map, blank>>

Miss(w) ==
  /\ asked[w] # None
  /\ blank' = blank \cup {w}
  /\ UNCHANGED <<map, asked, told, raced>>

Apply(w) ==
  /\ asked[w] # None
  /\ LET c == asked[w]
         seen == IF w \in blank THEN [t \in Tool |-> {}] ELSE map
     IN map' = [seen EXCEPT ![c.tool] = IF c.install THEN @ \cup c.who ELSE {}]
  /\ asked' = [asked EXCEPT ![w] = None]
  /\ blank' = blank \ {w}
  /\ UNCHANGED <<told, raced>>

Lose(w) ==
  /\ asked' = [asked EXCEPT ![w] = None]
  /\ blank' = blank \ {w}
  /\ UNCHANGED <<map, told, raced>>

\* After a race: changes are lost or mixed, not invented.
Disturb(w) ==
  /\ raced
  /\ map' \in Map
  /\ \A t \in Tool : map'[t] \subseteq told[t]
  /\ asked' = asked \/ asked' = [asked EXCEPT ![w] = None]
  /\ blank' = blank \/ blank' = blank \ {w}
  /\ UNCHANGED <<told, raced>>

MapNext ==
  \E w \in Writer : (\E c \in Change : Ask(w, c)) \/ Miss(w) \/ Apply(w) \/ Lose(w) \/ Disturb(w)

MapSpec == MapInit /\ [][MapNext]_mapVars
=============================================================================
