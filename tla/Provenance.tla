----------------------------- MODULE Provenance -----------------------------
(***************************************************************************)
(* Workflow with history variables that remember where a package came      *)
(* from and who asked for it. They constrain nothing; they let the         *)
(* sentences of docs/ be stated: what was there before hallfix, what a     *)
(* profile still needs, what hallfix has changed and must track.           *)
(***************************************************************************)
EXTENDS Workflow

VARIABLES
  native,    \* tools whose present package was put there without hallfix
  wanted,    \* profiles whose install completed for a tool and that were not removed since
  standing   \* tools whose latest reported effect of hallfix is a fresh install

provVars == <<native, wanted, standing>>
allVars  == <<vars, provVars>>

ProvInit ==
  /\ Init
  /\ native = {t \in Tool : Installed(t)}
  /\ wanted = [t \in Tool |-> {}]
  /\ standing = {}

\* An upgrade by hallfix of a package that was there leaves it the user's.
NativeNext ==
  native' = {t \in Tool : /\ pkg'[t] # "absent"
                          /\ t \in native \/ (pkg[t] = "absent" /\ outside' # outside)}

\* The process that appends the record of a command it carried out.
Completes(p, kind) ==
  /\ history' # history /\ pc[p] = "log" /\ pc'[p] = "idle"
  /\ cmd[p].kind = kind /\ ~cmd[p].dry
  /\ \A r \in res[p] : r.ok

WantedNext ==
  wanted' = [t \in Tool |->
    IF pkg'[t] = "absent" THEN {}
    ELSE (wanted[t] \cup {cmd[p].profile : p \in {q \in Proc : /\ Completes(q, "profileInstall")
                                                               /\ t \in cmd[q].tools}})
         \ {cmd[p].profile : p \in {q \in Proc : /\ Completes(q, "profileRemove")
                                                 /\ t \in cmd[q].tools}}]

NewResults == UNION {res'[p] \ res[p] : p \in Proc}
Killed == {p \in Proc : pc[p] # "idle" /\ pc'[p] = "idle" /\ history' = history}

StandingNext ==
  standing' = (standing \cup {r.tool : r \in {x \in NewResults : Undoes(x)}})
              \ ({r.tool : r \in {x \in NewResults : x.op = "remove" /\ x.ok}}
                 \cup {r.tool : r \in UNION {res[p] : p \in Killed}})

ProvNext == Next /\ NativeNext /\ WantedNext /\ StandingNext

ProvSpec == ProvInit /\ [][ProvNext]_allVars

-----------------------------------------------------------------------------
\* docs/state.md:3 "Hallfix tracks what *it* changed": once all processes are
\* idle, each tool whose latest reported effect is a fresh install is claimed
\* in state.json (tools in the hands of a killed process excepted). It needs
\* hallfix to run one process at a time: load, change and save are not one step.
TracksChanges == (\A p \in Proc : pc[p] = "idle") => \A t \in standing : Owned(store, t)

\* Process p's `profile remove` removes the package of t in this step.
ProfileRemoves(p, t) ==
  Acts(p, t) /\ cmd[p].kind = "profileRemove" /\ Installed(t) /\ pkg'[t] = "absent"

\* profile.py:255 "skipping any still shared with another profile": when two
\* profiles have been installed completely and share a tool, removing one of
\* them keeps it for the other.
SharedToolsKept ==
  [][\A p \in Proc, t \in Tool :
       ProfileRemoves(p, t) /\ cmd[p].profile \in wanted[t]
         => wanted[t] = {cmd[p].profile}]_allVars

\* docs/profiles.md:59 "A tool that was already present before Hallfix
\* touched it [...] is never removed by profile remove".
PreexistingKept ==
  [][\A p \in Proc, t \in Tool : ProfileRemoves(p, t) => t \notin native]_allVars
=============================================================================
