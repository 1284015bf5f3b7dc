-------------------------- MODULE SettingsRegister --------------------------
(***************************************************************************)
(* What a settings file promises, whatever the way it is written: a reader *)
(* finds the old content or one that somebody asked to save, whole, at any *)
(* moment and after any crash or power cut.  The promise is for saves that *)
(* do not overlap; while two of them do, nothing is promised.              *)
(***************************************************************************)
EXTENDS Naturals

CONSTANTS
  Askers,     \* who may ask for a save, one at a time each
  Values,     \* the settings a file can hold
  Absent,     \* there is no file
  Broken      \* a file left by a hand edit that does not parse

VARIABLES
  stored,     \* what a reader finds
  durable,    \* what a power cut leaves once the directory is on the disk
  earlier,    \* what else a power cut may bring back
  asked,      \* the value each asker is saving, or Absent
  shared      \* two saves have overlapped since the last that began alone

register == <<stored, durable, earlier, asked, shared>>

Saving == {a \in Askers : asked[a] # Absent}

Ask(a) ==
  /\ asked[a] = Absent
  /\ \E value \in Values : asked' = [asked EXCEPT ![a] = value]
  /\ shared' = (Saving # {})
  /\ UNCHANGED <<stored, durable, earlier>>

\* The new content takes the place of the old one in one step.
Store(a) ==
  /\ asked[a] # Absent
  /\ stored' = asked[a]
  /\ durable' = asked[a]
  /\ earlier' = earlier \cup {durable}
  /\ asked' = [asked EXCEPT ![a] = Absent]
  /\ UNCHANGED shared

\* Saves that fail, or whose program ends.
Abort ==
  /\ \E gone \in SUBSET Saving :
       asked' = [a \in Askers |-> IF a \in gone THEN Absent ELSE asked[a]]
  /\ UNCHANGED <<stored, durable, earlier, shared>>

\* What was stored has reached the disk.
Settle == earlier' = {} /\ UNCHANGED <<stored, durable, asked, shared>>

PowerCut ==
  /\ stored' \in earlier \cup {durable}
  /\ durable' = stored'
  /\ earlier' = {}
  /\ asked' = [a \in Askers |-> Absent]
  /\ UNCHANGED shared

HandEdit ==
  /\ stored # Absent
  /\ stored' \in Values \cup {Broken}
  /\ durable' = stored'
  /\ earlier' = {}
  /\ UNCHANGED <<asked, shared>>

\* Between overlapping saves anything may be found.
Overlap ==
  /\ shared /\ shared'
  /\ \A a \in Askers : asked'[a] \in {asked[a], Absent}

InitRegister ==
  /\ stored = Absent
  /\ durable = Absent
  /\ earlier = {}
  /\ asked = [a \in Askers |-> Absent]
  /\ shared = FALSE

NextRegister ==
  \/ \E a \in Askers : Ask(a) \/ Store(a)
  \/ Abort \/ Settle \/ PowerCut \/ HandEdit \/ Overlap

RegisterSpec == InitRegister /\ [][NextRegister]_register
=============================================================================
