------------------------------- MODULE Keymap -------------------------------
(***************************************************************************)
(* The settings of the bridge (keymap.c, keymap_store.c) and the           *)
(* applications that change them (mapping.py).                             *)
(*                                                                         *)
(* The firmware works with the settings in RAM.  A save goes to flash      *)
(* first; power may be lost before, between and after, and a failed save   *)
(* may have reached the flash or not.  Settings of older firmware are in   *)
(* blobs of their own and are migrated in RAM when no newer blob exists.   *)
(* Several applications read, compare revisions, write and read back; the  *)
(* feature channel lets one request through at a time (module Feature) and *)
(* its answer may get lost.                                                *)
(***************************************************************************)
EXTENDS Integers

CONSTANTS
  Clients,       \* applications
  Values,        \* contents of the settings
  Default,       \* the content of keymap_init
  Migrated,      \* what becomes of a content of the older format
  Revisions,     \* 2^16
  None,
  MaxCrashes, MaxFaults,  \* bounds
  MaxSaves       \* bound: saves while an application has settings open

ASSUME KeymapAssumption ==
  /\ Revisions \in Nat \ {0}
  /\ MaxSaves \in Nat /\ MaxSaves < Revisions
  /\ MaxCrashes \in Nat /\ MaxFaults \in Nat
  /\ Default \in Values /\ Migrated \in [Values -> Values]
  /\ None \notin [rev : 0..Revisions - 1, val : Values]
  /\ None \notin [rev : 0..Revisions - 1, val : Values, base : Values,
                  stored : BOOLEAN]

VARIABLES
  ram,           \* entries, mouse_speed and revision
  mapV3, mapOld, \* blobs in flash, or None
  saving,        \* the keymap_apply under way, or None
  pc,            \* per application: its step, or what came of its last save
  seen, want,    \* per application: what it read and wants
  crashes, faults, saves

device  == <<ram, mapV3, mapOld, saving>>
clients == <<pc, seen, want>>
vars    == <<device, clients, crashes, faults, saves>>

Settings == [rev : 0..Revisions - 1, val : Values]

\* A save on its way to flash, with a ghost: the content it is based on.
Saves == [rev : 0..Revisions - 1, val : Values, base : Values, stored : BOOLEAN]

\* What save_settings tells the user.
Outcomes == {"saved", "conflict", "unknown"}

TypeOK ==
  /\ ram \in Settings
  /\ mapV3 \in Settings \cup {None} /\ mapOld \in Settings \cup {None}
  /\ saving \in Saves \cup {None}
  /\ pc \in [Clients -> {"idle", "edit", "write", "verify"} \cup Outcomes]
  /\ seen \in [Clients -> Settings] /\ want \in [Clients -> Values]
  /\ crashes \in 0..MaxCrashes /\ faults \in 0..MaxFaults
  /\ saves \in 0..MaxSaves

-----------------------------------------------------------------------------
(* The firmware.                                                           *)

\* Mutant: the older blob is preferred.
Boot_OldFirst ==
  IF mapOld # None THEN [rev |-> mapOld.rev, val |-> Migrated[mapOld.val]]
  ELSE IF mapV3 # None THEN mapV3
  ELSE [rev |-> 0, val |-> Default]

\* What keymap_init works with after a restart.
Boot ==
  IF mapV3 # None THEN mapV3
  ELSE IF mapOld # None THEN [rev |-> mapOld.rev, val |-> Migrated[mapOld.val]]
  ELSE [rev |-> 0, val |-> Default]

Init ==
  /\ mapV3 \in Settings \cup {None} /\ mapOld \in Settings \cup {None}
  /\ ram = Boot /\ saving = None
  /\ pc = [c \in Clients |-> "idle"]
  /\ seen \in [Clients -> {ram}] /\ want \in [Clients -> {ram.val}]
  /\ crashes = 0 /\ faults = 0 /\ saves = 0

\* Mutant: the next revision does not wrap.
Next16_Unwrapped(rev) == rev + 1

Next16(rev) == IF rev = Revisions - 1 THEN 0 ELSE rev + 1

\* Mutant: the revision is not compared.
Accepts_Always(c) == TRUE

\* keymap_apply goes on to save: the revision is the one the sender has read.
Accepts(c) == seen[c].rev = ram.rev

\* The blob of the save under way.
Blob == [rev |-> saving.rev, val |-> saving.val]

\* keymap_storage_save has written and committed the blob.
Store ==
  /\ saving # None /\ ~saving.stored
  /\ mapV3' = Blob
  /\ saving' = [saving EXCEPT !.stored = TRUE]
  /\ UNCHANGED <<ram, mapOld, clients, crashes, faults, saves>>

\* Mutant: the settings in RAM change although the save failed.
StoreFails_UsesAnyway ==
  /\ saving # None /\ ~saving.stored
  /\ faults < MaxFaults /\ faults' = faults + 1
  /\ mapV3' \in {mapV3, Blob}
  /\ ram' = Blob
  /\ saving' = None
  /\ UNCHANGED <<mapOld, clients, crashes, saves>>

\* It failed: in nvs_open, nvs_set_blob or nvs_commit.
StoreFails ==
  /\ saving # None /\ ~saving.stored
  /\ faults < MaxFaults /\ faults' = faults + 1
  /\ mapV3' \in {mapV3, Blob}
  /\ saving' = None
  /\ UNCHANGED <<ram, mapOld, clients, crashes, saves>>

\* Mutant: the settings are used before they are in flash.
Use_First ==
  /\ saving # None /\ ~saving.stored
  /\ ram' = Blob
  /\ UNCHANGED <<mapV3, mapOld, saving, clients, crashes, faults, saves>>

\* keymap_apply uses the new settings.
Use ==
  /\ saving # None /\ saving.stored
  /\ ram' = Blob
  /\ saving' = None
  /\ UNCHANGED <<mapV3, mapOld, clients, crashes, faults, saves>>

\* Power is lost and comes back.  A save in doubt is judged by what is read
\* after the reconnect; other applications keep what the user has edited.
Restart ==
  /\ crashes < MaxCrashes /\ crashes' = crashes + 1
  /\ ram' = Boot /\ saving' = None
  /\ pc' = [c \in Clients |->
              IF pc[c] \in {"write", "verify"} THEN "unknown" ELSE pc[c]]
  /\ UNCHANGED <<mapV3, mapOld, seen, want, faults, saves>>

-----------------------------------------------------------------------------
(* The applications.                                                       *)

\* read_settings; the user edits what it shows.
Read(c) ==
  /\ pc[c] \notin {"write", "verify"} /\ saving = None
  /\ seen' = [seen EXCEPT ![c] = ram]
  /\ \E v \in Values : want' = [want EXCEPT ![c] = v]
  /\ pc' = [pc EXCEPT ![c] = "edit"]
  /\ UNCHANGED <<device, crashes, faults, saves>>

\* save_settings reads the revision once more.
Check(c) ==
  /\ pc[c] = "edit" /\ saving = None
  /\ pc' = [pc EXCEPT ![c] =
              IF ram.rev = seen[c].rev THEN "write" ELSE "conflict"]
  /\ UNCHANGED <<device, seen, want, crashes, faults, saves>>

\* The report reaches keymap_apply.
Write(c) ==
  /\ pc[c] = "write" /\ saving = None
  /\ IF Accepts(c)
     THEN /\ saves < MaxSaves /\ saves' = saves + 1
          /\ saving' = [rev |-> Next16(ram.rev), val |-> want[c],
                        base |-> seen[c].val, stored |-> FALSE]
     ELSE UNCHANGED <<saving, saves>>
  /\ pc' = [pc EXCEPT ![c] = "verify"]
  /\ UNCHANGED <<ram, mapV3, mapOld, seen, want, crashes, faults>>

\* The device has the settings that were sent, with the next revision.
Verified(c) == ram = [rev |-> Next16(seen[c].rev), val |-> want[c]]

\* Mutant: the application waits for the settings it has sent.
Verify_Waits(c) ==
  /\ pc[c] = "verify" /\ saving = None /\ Verified(c)
  /\ pc' = [pc EXCEPT ![c] = "saved"]
  /\ UNCHANGED <<device, seen, want, crashes, faults, saves>>

\* The read-back.
Verify(c) ==
  /\ pc[c] = "verify" /\ saving = None
  /\ pc' = [pc EXCEPT ![c] = IF Verified(c) THEN "saved" ELSE "unknown"]
  /\ UNCHANGED <<device, seen, want, crashes, faults, saves>>

\* The write or the read-back fails or times out, the save goes on regardless.
\* Once MaxSaves is reached, every further write is one that fails.
TransferFails(c) ==
  /\ pc[c] \in {"write", "verify"}
  /\ \/ faults < MaxFaults /\ faults' = faults + 1
     \/ saves = MaxSaves /\ UNCHANGED faults
  /\ pc' = [pc EXCEPT ![c] = "unknown"]
  /\ UNCHANGED <<device, seen, want, crashes, saves>>

-----------------------------------------------------------------------------
Firmware == Store \/ StoreFails \/ Use \/ Restart

Client(c) == Read(c) \/ Check(c) \/ Write(c) \/ Verify(c) \/ TransferFails(c)

Next == Firmware \/ \E c \in Clients : Client(c)

Spec == Init /\ [][Next]_vars

\* The owner finishes a save.  The host serves control transfers in turn, so an
\* application that began to write gets its turn however often others do.
LiveSpec ==
  /\ Spec /\ WF_vars(Store \/ StoreFails \/ Use)
  /\ \A c \in Clients : SF_vars(Write(c) \/ Verify(c) \/ TransferFails(c))

-----------------------------------------------------------------------------
(* Properties.                                                             *)

\* Settings replace only those they were made from: of two applications that
\* edit the same revision, the second is refused at any interleaving of their
\* reads, comparisons and writes, also when the first one's save failed, timed
\* out or was cut off by a restart.
NoLostUpdate == [][Use => saving.base = ram.val]_vars

\* A restart never takes back settings in use: flash holds those in RAM, or a
\* save one revision later that failed or is not finished.
Durable ==
  \/ Boot = ram
  \/ mapV3 # None /\ Boot.rev = Next16(ram.rev)

\* When the user is told that the settings are saved, the flash has them.
SavedIsStored ==
  [][\A c \in Clients :
       Verify(c) /\ pc'[c] = "saved" =>
         \/ Boot = [rev |-> Next16(seen[c].rev), val |-> want[c]]
         \/ Boot.rev = Next16(Next16(seen[c].rev))]_vars

\* The settings in use implement the register that never goes back.
Register == INSTANCE KeymapRegister WITH settings <- ram

ImplementsRegister == Register!Spec

\* Whoever begins to write is told the outcome.
VerdictComes ==
  \A c \in Clients : pc[c] = "write" ~> pc[c] \in {"saved", "unknown"}

\* Flash holds the settings in use, or those of a save one revision later.
KeymapSafety ==
  /\ TypeOK
  /\ Durable
=============================================================================
