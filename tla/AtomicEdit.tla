----------------------------- MODULE AtomicEdit -----------------------------
(***************************************************************************)
(* What edit_configuration promises the operator and the deployments of a  *)
(* task, whatever file operations stand behind it: an edit changes .env,   *)
(* compose.yaml, the digests of both and the directory rules in one step,  *)
(* or nothing; a deployment is of the configuration there is; and only a   *)
(* crash, or a failure after an earlier one, can tear an edit, leaving     *)
(* each file as it was or as the edit had it, under the old rules.         *)
(*                                                                         *)
(* A part of the configuration is the number of the edit it comes from.    *)
(***************************************************************************)
EXTENDS Naturals

CONSTANT MaxEdits

VARIABLES
  config,               \* the configuration between edits
  deployed,             \* the parts of it the last deployment used
  failures, crashes     \* operations that failed, deaths of the process

vars == <<config, deployed, failures, crashes>>

All(n) == [env |-> n, compose |-> n, sums |-> [env |-> n, compose |-> n], rules |-> n]

Init ==
  /\ config = All(0)
  /\ deployed = [env |-> 0, compose |-> 0, rules |-> 0]
  /\ failures = 0 /\ crashes = 0

Newer(n) ==
  /\ config.env < n /\ config.compose < n /\ config.rules < n
  /\ config.sums.env < n /\ config.sums.compose < n

Fails   == failures' = failures + 1 /\ crashes' = crashes
Crashes == crashes' = crashes + 1 /\ failures' = failures

Save ==
  /\ \E n \in 1..MaxEdits : Newer(n) /\ config' = All(n)
  /\ UNCHANGED <<deployed, failures, crashes>>

Deploy ==
  /\ deployed' = [env |-> config.env, compose |-> config.compose, rules |-> config.rules]
  /\ UNCHANGED <<config, failures, crashes>>

\* A failure or a crash that changes nothing the operator sees.
Absorb ==
  /\ Fails \/ Crashes
  /\ UNCHANGED <<config, deployed>>

Tear ==
  /\ (failures > 0 /\ Fails) \/ Crashes
  /\ \E n \in 1..MaxEdits :
       /\ Newer(n)
       /\ \E env \in {config.env, n}, compose \in {config.compose, n},
             sums \in {config.sums, [env |-> n, compose |-> n]} :
            config' = [env |-> env, compose |-> compose, sums |-> sums, rules |-> config.rules]
  /\ UNCHANGED deployed

Next == Save \/ Deploy \/ Absorb \/ Tear

Spec == Init /\ [][Next]_vars
=============================================================================
