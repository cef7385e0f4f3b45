----------------------------- MODULE ChangeLog -----------------------------
(***************************************************************************)
(* What a workspace's ledger promises its replicas, whatever the server    *)
(* does to keep it: a log of changes, each of one operation.  Within an    *)
(* epoch the log only grows, so a cursor stays meaningful; a restore takes *)
(* it back to an earlier point and says so by a new epoch.                 *)
(***************************************************************************)
EXTENDS Naturals, Sequences

VARIABLES
  log,    \* the changes, in the order of their sequence numbers
  epoch   \* sync_epoch

LogInit == log = <<>> /\ epoch = 0

StartsWith(s, t) == Len(t) <= Len(s) /\ \A i \in 1..Len(t) : s[i] = t[i]
OncePerOperation(s) == \A i, j \in DOMAIN s : s[i].id = s[j].id => i = j

\* Any number of operations are added, each once in the whole log.
AddChanges ==
  /\ StartsWith(log', log) /\ OncePerOperation(log')
  /\ epoch' = epoch

GoBack ==
  /\ StartsWith(log, log')
  /\ epoch' > epoch

LogNext == AddChanges \/ GoBack
LogSpec == LogInit /\ [][LogNext]_<<log, epoch>>
=============================================================================
