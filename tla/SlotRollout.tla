----------------------------- MODULE SlotRollout -----------------------------
(***************************************************************************)
(* What `apply', the image rollouts and `rollback' promise for one slot.   *)
(* What is installed, four files that belong together, changes in one step *)
(* and only in two ways: a new image takes their place, or a recovery      *)
(* point that was saved earlier comes back whole.  A recovery point is     *)
(* what was installed when it was saved, or the import of a backup of an   *)
(* older layout, and no such backup is imported twice.                     *)
(***************************************************************************)
EXTENDS Integers, Sequences

CONSTANTS
  Image,        \* the images a slot may run: wrapper and product digest
  Importable    \* the backups of older layouts: for each, what it may hold

Absent     == "absent"       \* a file that is not there
Unrecorded == "unrecorded"   \* a legacy backup that says nothing of .env

Content  == Image \cup {Absent}

\* The four files of a slot, each known by the image it was written for.
Files    == [env : Content, compose : Content, manifest : Content, state : Content]

\* What a backup directory holds of them.
Snapshot == [env : Content \cup {Unrecorded},
             compose : Content, manifest : Content, state : Content]

\* A recovery point: what it holds, and the older backup it was imported from.
Own == 0
Point(s, from) == [files |-> s, from |-> from]

Uniform(c) == [env |-> c, compose |-> c, manifest |-> c, state |-> c]

\* The files after all of snapshot s has been restored over f.
Restored(s, f) ==
  [env      |-> IF s.env = Unrecorded THEN f.env ELSE s.env,
   compose  |-> s.compose, manifest |-> s.manifest, state |-> s.state]

VARIABLES
  installed,    \* the files the slot is committed to
  saved         \* the recovery points, oldest first

vars == <<installed, saved>>

Init ==
  /\ installed \in {Uniform(c) : c \in Content}
  /\ saved = <<>>

\* A rollout also writes .env; `apply' takes .env as it is.
Switch(v) ==
  /\ installed' \in {Uniform(v), [Uniform(v) EXCEPT !.env = installed.env]}
  /\ UNCHANGED saved

Revert(i) ==
  /\ installed' = Restored(saved[i].files, installed)
  /\ UNCHANGED saved

Save ==
  /\ saved' = Append(saved, Point(installed, Own))
  /\ UNCHANGED installed

Import(b) ==
  /\ \A i \in DOMAIN saved : saved[i].from # b
  /\ \E s \in Importable[b] : saved' = Append(saved, Point(s, b))
  /\ UNCHANGED installed

Next ==
  \/ \E v \in Image : Switch(v)
  \/ \E i \in DOMAIN saved : Revert(i)
  \/ Save
  \/ \E b \in DOMAIN Importable : Import(b)

Spec == Init /\ [][Next]_vars
==============================================================================
