------------------------------ MODULE MC_Network ------------------------------
(***************************************************************************)
(* An instance for TLC of the two that ask a server of the internet, which *)
(* may answer late, wrongly or never: the provider and the update check.   *)
(* Neither writes a variable the other one reads, so what holds of each    *)
(* alone holds of them together: a behaviour of the instance moves one of  *)
(* them, chosen at its start.                                              *)
(***************************************************************************)
EXTENDS CloudflareProvider, UpdateCheck

MCCurrent == [core |-> <<0, 2, 0>>, prerelease |-> FALSE]

\* Older, newer in one part and lower in the next, a candidate, garbage.
MCTags ==
  {[core |-> <<0, 1, 9>>, prerelease |-> FALSE],
   [core |-> <<1, 0, 0>>, prerelease |-> FALSE],
   [core |-> <<0, 3, 0>>, prerelease |-> TRUE],
   [core |-> <<>>, prerelease |-> FALSE]}

VARIABLE asking

networkVars == <<asking, vars, updateVars>>

\* The one that does not move starts in one state.
InitNetwork ==
  /\ asking \in {"provider", "update"}
  /\ Init /\ InitUpdate
  /\ asking # "provider" => owner = "keeps"
  /\ asking # "update" => ~check_updates

NextNetwork ==
  \/ asking = "provider" /\ Next /\ UNCHANGED <<asking, updateVars>>
  \/ asking = "update" /\ NextUpdate /\ UNCHANGED <<asking, vars>>

\* The fairness of both specifications, each as long as it is the one that moves.
FairNetwork ==
  /\ WF_vars(asking = "provider" /\ Tick)
  /\ WF_vars(asking = "provider" /\ SendTimeout)
  /\ WF_vars(asking = "provider" /\ EndDownload)
  /\ WF_vars(asking = "provider" /\ EndBody /\ deadline <= now)
  /\ WF_vars(asking = "provider" /\ UploadTimeout)
  /\ WF_updateVars(asking = "update" /\ Answer)

SpecNetwork == InitNetwork /\ [][NextNetwork]_networkVars /\ FairNetwork
=============================================================================
