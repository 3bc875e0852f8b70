--------------------------- MODULE MCMaintenance ---------------------------
(***************************************************************************)
(* Instances of Maintenance for TLC. Processes are interchangeable.        *)
(***************************************************************************)
EXTENDS Maintenance, TLC

CONSTANTS h1, h2

MCProc == {h1, h2}
Symmetry == Permutations(MCProc)

\* A machine with milder findings beside what `machine` varies: no gateway, no
\* name server. hallfix runs as root there, so that it sees apt's lock.
PoorHost ==
  [cpu |-> TRUE, ram |-> TRUE, disk |-> {}, root |-> TRUE, sudo |-> FALSE, systemd |-> FALSE,
   interface |-> TRUE, gateway |-> FALSE, nameservers |-> FALSE, online |-> TRUE,
   dns |-> "untested", manager |-> TRUE, lock |-> "unchecked", packages |-> "unchecked",
   tools |-> {}, environ |-> TRUE]

Ext4(used) == [type |-> "ext4", used |-> used]
Snap == [type |-> "squashfs", used |-> 100]

\* Around the threshold for an error, with a snap image mounted.
Boundary == {{Ext4(84), Snap}, {Ext4(10), Ext4(85), Snap}}

Ask(kind, id, yes, dry) == [kind |-> kind, id |-> id, yes |-> yes, dry |-> dry]

Doctors == {Ask("doctor", "none", FALSE, FALSE), Ask("networkDoctor", "none", FALSE, FALSE)}
Fixes ==
  {Ask("repair", "none", FALSE, FALSE), Ask("repair", "none", FALSE, TRUE)}
  \cup {Ask("fix", id, FALSE, FALSE) : id \in {"package.broken_state", "system.disk"}}
Updates == {Ask("updateSystem", "none", yes, FALSE) : yes \in BOOLEAN}

AllCommands == Doctors \cup Fixes \cup Updates
=============================================================================
