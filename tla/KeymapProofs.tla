---------------------------- MODULE KeymapProofs ----------------------------
(***************************************************************************)
(* Proofs about Keymap: the flash never falls behind the settings in use,  *)
(* a save replaces only what it was made from, and the settings implement  *)
(* KeymapRegister, for any number of applications, contents and revisions. *)
(*                                                                         *)
(* That revisions identify contents cannot hold for ever, as they wrap.    *)
(* It is a matter of counting: what an application has read is at most as  *)
(* many revisions old as saves were begun, and these are fewer than there  *)
(* are revisions.                                                          *)
(*                                                                         *)
(* The second half is about Feature, the channel by which settings come    *)
(* and go, the part F of FeatureChannel.                                   *)
(***************************************************************************)
EXTENDS Keymap, FeatureChannel, TLAPS

\* How many saves lead from revision a to revision b.
Steps(a, b) == IF b >= a THEN b - a ELSE b - a + Revisions

\* A revision that may yet come into use without another save.
Coming == IF saving # None \/ Boot # ram THEN 1 ELSE 0

\* The save under way was made from the settings in use.
SavingOK ==
  saving # None =>
    /\ saving.rev = Next16(ram.rev) /\ saving.base = ram.val
    /\ saving.stored => mapV3 = Blob

\* What an application has read is the settings in use or of an older revision.
SeenOK ==
  \A c \in Clients :
    /\ Steps(seen[c].rev, ram.rev) + Coming <= saves
    /\ seen[c].rev = ram.rev => seen[c] = ram

Inv == TypeOK /\ SavingOK /\ Durable /\ SeenOK

-----------------------------------------------------------------------------

\* Revisions stay in range.
LEMMA NextType ==
  ASSUME NEW r \in 0..Revisions - 1
  PROVE  Next16(r) \in 0..Revisions - 1
BY KeymapAssumption DEF Next16

\* The wrap of Next16 is the remainder of KeymapRegister.
LEMMA NextIsRemainder ==
  ASSUME NEW r \in 0..Revisions - 1
  PROVE  (r + 1) % Revisions = Next16(r)
BY KeymapAssumption DEF Next16

\* One revision further is one step more, unless it closes the circle.
LEMMA OneStepMore ==
  ASSUME NEW a \in 0..Revisions - 1, NEW b \in 0..Revisions - 1,
         Steps(a, b) + 1 < Revisions
  PROVE  /\ Steps(a, Next16(b)) = Steps(a, b) + 1
         /\ a # Next16(b)
BY KeymapAssumption DEF Steps, Next16

LEMMA StepsType ==
  ASSUME NEW a \in 0..Revisions - 1, NEW b \in 0..Revisions - 1
  PROVE  Steps(a, b) \in Nat /\ Steps(a, a) = 0
BY KeymapAssumption DEF Steps

\* A restart finds settings.
LEMMA BootType == TypeOK => Boot \in Settings
BY KeymapAssumption DEF TypeOK, Boot, Settings

\* The blob of a save is settings.
LEMMA BlobType == TypeOK /\ saving # None => Blob \in Settings
BY DEF TypeOK, Blob, Settings, Saves

-----------------------------------------------------------------------------
(* Type correctness.                                                       *)

LEMMA TypeInit == Init => TypeOK
<1> SUFFICES ASSUME Init PROVE TypeOK OBVIOUS
<1>1. ram \in Settings
  <2>1. mapV3 \in Settings \cup {None} /\ mapOld \in Settings \cup {None} /\ ram = Boot
    BY DEF Init
  <2>2. QED BY <2>1, KeymapAssumption DEF Boot, Settings
<1>2. seen \in [Clients -> Settings] /\ want \in [Clients -> Values]
  BY <1>1 DEF Init, Settings
<1>3. pc \in [Clients -> {"idle", "edit", "write", "verify"} \cup Outcomes]
  BY DEF Init
<1>4. crashes \in 0..MaxCrashes /\ faults \in 0..MaxFaults /\ saves \in 0..MaxSaves
  BY KeymapAssumption DEF Init
<1>5. QED BY <1>1, <1>2, <1>3, <1>4 DEF Init, TypeOK

LEMMA TypeFirmware == TypeOK /\ Firmware => TypeOK'
<1> SUFFICES ASSUME TypeOK, Firmware PROVE TypeOK' OBVIOUS
<1>1. CASE Store
  <2>1. Blob \in Settings BY <1>1, BlobType DEF Store
  <2>2. saving' \in Saves BY <1>1 DEF Store, TypeOK, Saves
  <2>3. QED BY <1>1, <2>1, <2>2 DEF Store, TypeOK, clients
<1>2. CASE StoreFails
  <2>1. Blob \in Settings BY <1>2, BlobType DEF StoreFails
  <2>2. faults' \in 0..MaxFaults BY <1>2, KeymapAssumption DEF StoreFails, TypeOK
  <2>3. QED BY <1>2, <2>1, <2>2 DEF StoreFails, TypeOK, clients
<1>3. CASE Use
  <2>1. Blob \in Settings BY <1>3, BlobType DEF Use
  <2>2. QED BY <1>3, <2>1 DEF Use, TypeOK, clients
<1>4. CASE Restart
  <2>1. Boot \in Settings BY BootType
  <2>2. crashes' \in 0..MaxCrashes BY <1>4, KeymapAssumption DEF Restart, TypeOK
  <2>3. pc' \in [Clients -> {"idle", "edit", "write", "verify"} \cup Outcomes]
    BY <1>4 DEF Restart, TypeOK, Outcomes
  <2>4. QED BY <1>4, <2>1, <2>2, <2>3 DEF Restart, TypeOK
<1>5. QED BY <1>1, <1>2, <1>3, <1>4 DEF Firmware

LEMMA TypeClient ==
  ASSUME NEW c \in Clients, TypeOK, Client(c)
  PROVE  TypeOK'
<1> DEFINE PC == {"idle", "edit", "write", "verify"} \cup Outcomes
<1>0. "edit" \in PC /\ "write" \in PC /\ "verify" \in PC /\ "conflict" \in PC
      /\ "saved" \in PC /\ "unknown" \in PC
  BY DEF Outcomes
<1>a. pc \in [Clients -> PC] BY DEF TypeOK
<1> HIDE DEF PC
<1>1. CASE Read(c)
  <2>1. pc' \in [Clients -> PC] BY <1>0, <1>a, <1>1 DEF Read
  <2>2. seen' \in [Clients -> Settings] /\ want' \in [Clients -> Values]
    BY <1>1 DEF Read, TypeOK
  <2>3. QED BY <1>1, <2>1, <2>2 DEF Read, TypeOK, device, PC
<1>2. CASE Check(c)
  <2>1. pc' \in [Clients -> PC] BY <1>0, <1>a, <1>2 DEF Check
  <2>2. QED BY <1>2, <2>1 DEF Check, TypeOK, device, PC
<1>3. CASE Write(c)
  <2>1. pc' \in [Clients -> PC] BY <1>0, <1>a, <1>3 DEF Write
  <2>2. saving' \in Saves \cup {None} /\ saves' \in 0..MaxSaves
    <3>1. CASE Accepts(c)
      <4>1. ram.rev \in 0..Revisions - 1 /\ seen[c].val \in Values /\ want[c] \in Values
        BY DEF TypeOK, Settings
      <4>2. Next16(ram.rev) \in 0..Revisions - 1 BY <4>1, NextType
      <4>3. saving' \in Saves
        <5>1. saving' = [rev |-> Next16(ram.rev), val |-> want[c],
                         base |-> seen[c].val, stored |-> FALSE]
          BY <1>3, <3>1 DEF Write
        <5>2. FALSE \in BOOLEAN OBVIOUS
        <5>3. QED BY <4>1, <4>2, <5>1, <5>2, Zenon DEF Saves
      <4>4. saves' \in 0..MaxSaves BY <1>3, <3>1, KeymapAssumption DEF Write, TypeOK
      <4>5. QED BY <4>3, <4>4
    <3>2. CASE ~Accepts(c) BY <1>3, <3>2 DEF Write, TypeOK
    <3>3. QED BY <3>1, <3>2
  <2>3. QED BY <1>3, <2>1, <2>2 DEF Write, TypeOK, PC
<1>4. CASE Verify(c)
  <2>1. pc' \in [Clients -> PC] BY <1>0, <1>a, <1>4 DEF Verify
  <2>2. QED BY <1>4, <2>1 DEF Verify, TypeOK, device, PC
<1>5. CASE TransferFails(c)
  <2>1. pc' \in [Clients -> PC] BY <1>0, <1>a, <1>5 DEF TransferFails
  <2>2. faults' \in 0..MaxFaults BY <1>5, KeymapAssumption DEF TransferFails, TypeOK
  <2>3. QED BY <1>5, <2>1, <2>2 DEF TransferFails, TypeOK, device, PC
<1>6. QED BY <1>1, <1>2, <1>3, <1>4, <1>5 DEF Client

LEMMA TypeStep == TypeOK /\ [Next]_vars => TypeOK'
<1> SUFFICES ASSUME TypeOK, [Next]_vars PROVE TypeOK' OBVIOUS
<1>1. CASE Firmware BY <1>1, TypeFirmware
<1>2. CASE \E c \in Clients : Client(c) BY <1>2, TypeClient
<1>3. CASE UNCHANGED vars BY <1>3 DEF vars, device, clients, TypeOK
<1>4. QED BY <1>1, <1>2, <1>3 DEF Next

\* Every variable stays in its type, at any number of applications,
\* revisions and bounds.
THEOREM TypeCorrect == Spec => []TypeOK
BY TypeInit, TypeStep, PTL DEF Spec

-----------------------------------------------------------------------------
(* The invariant.                                                          *)

LEMMA InvInit == Init => Inv
<1> SUFFICES ASSUME Init PROVE Inv OBVIOUS
<1>1. TypeOK BY TypeInit
<1>2. SavingOK BY DEF Init, SavingOK
<1>3. Durable BY DEF Init, Durable
<1>4. ram = Boot /\ saving = None /\ saves = 0 BY DEF Init
<1>5. Coming = 0 BY <1>4 DEF Coming
<1>6. SeenOK
  <2> SUFFICES ASSUME NEW c \in Clients
               PROVE  /\ Steps(seen[c].rev, ram.rev) + Coming <= saves
                      /\ seen[c].rev = ram.rev => seen[c] = ram
    BY DEF SeenOK
  <2>1. seen[c] = ram BY DEF Init
  <2>2. ram.rev \in 0..Revisions - 1 BY <1>1 DEF TypeOK, Settings
  <2>3. Steps(ram.rev, ram.rev) = 0 BY <2>2, StepsType
  <2>4. QED BY <1>4, <1>5, <2>1, <2>3
<1>7. QED BY <1>1, <1>2, <1>3, <1>6 DEF Inv

\* Whatever an application has read, the numbers behind SeenOK are numbers.
LEMMA Ranges ==
  ASSUME TypeOK, NEW c \in Clients
  PROVE  /\ ram.rev \in 0..Revisions - 1 /\ seen[c].rev \in 0..Revisions - 1
         /\ Steps(seen[c].rev, ram.rev) \in Nat /\ Coming \in 0..1
         /\ saves \in Nat /\ saves <= MaxSaves
<1>1. ram.rev \in 0..Revisions - 1 /\ seen[c].rev \in 0..Revisions - 1
  BY DEF TypeOK, Settings
<1>2. Steps(seen[c].rev, ram.rev) \in Nat BY <1>1, StepsType
<1>3. saves \in Nat /\ saves <= MaxSaves BY KeymapAssumption DEF TypeOK
<1>4. Coming \in 0..1 BY DEF Coming
<1>5. QED BY <1>1, <1>2, <1>3, <1>4

\* The settings in use move on by the one revision that was coming.
LEMMA MovesOn ==
  ASSUME Inv, Coming = 1, ram' \in Settings, ram'.rev = Next16(ram.rev),
         Coming' = 0, UNCHANGED <<seen, saves>>
  PROVE  SeenOK'
<1> SUFFICES ASSUME NEW c \in Clients
             PROVE  /\ Steps(seen'[c].rev, ram'.rev) + Coming' <= saves'
                    /\ seen'[c].rev = ram'.rev => seen'[c] = ram'
  BY DEF SeenOK
<1> USE DEF Inv
<1>1. /\ ram.rev \in 0..Revisions - 1 /\ seen[c].rev \in 0..Revisions - 1
      /\ Steps(seen[c].rev, ram.rev) \in Nat
      /\ saves \in Nat /\ saves <= MaxSaves
  BY Ranges
<1>2. Steps(seen[c].rev, ram.rev) + 1 <= saves BY DEF SeenOK
<1>3. Steps(seen[c].rev, ram.rev) + 1 < Revisions
  BY <1>1, <1>2, KeymapAssumption
<1>4. /\ Steps(seen[c].rev, ram'.rev) = Steps(seen[c].rev, ram.rev) + 1
      /\ seen[c].rev # ram'.rev
  BY <1>1, <1>3, OneStepMore
<1>5. QED BY <1>1, <1>2, <1>4

\* Nothing in use changes, and nothing more is coming than was.
LEMMA StaysSeen ==
  ASSUME Inv, UNCHANGED <<ram, seen, saves>>, Coming' \in 0..1, Coming' <= Coming
  PROVE  SeenOK'
<1> SUFFICES ASSUME NEW c \in Clients
             PROVE  /\ Steps(seen[c].rev, ram.rev) + Coming' <= saves
                    /\ seen[c].rev = ram.rev => seen[c] = ram
  BY DEF SeenOK
<1>1. /\ Steps(seen[c].rev, ram.rev) \in Nat /\ Coming \in 0..1 /\ saves \in Nat
  BY Ranges DEF Inv
<1>2. Steps(seen[c].rev, ram.rev) + Coming <= saves BY DEF Inv, SeenOK
<1>3. seen[c].rev = ram.rev => seen[c] = ram BY DEF Inv, SeenOK
<1>4. QED BY <1>1, <1>2, <1>3

LEMMA StoreKeeps == Inv /\ Store => SavingOK' /\ Durable' /\ SeenOK'
<1> SUFFICES ASSUME Inv, Store PROVE SavingOK' /\ Durable' /\ SeenOK' OBVIOUS
<1>1. TypeOK /\ SavingOK BY DEF Inv
<1>2. /\ saving # None /\ mapV3' = Blob /\ ram' = ram
      /\ saving' = [saving EXCEPT !.stored = TRUE]
  BY DEF Store
<1>3. saving \in Saves BY <1>1, <1>2 DEF TypeOK
<1>4. /\ saving'.rev = saving.rev /\ saving'.val = saving.val
      /\ saving'.base = saving.base
  BY <1>2, <1>3 DEF Saves
<1>5. Blob' = Blob BY <1>4 DEF Blob
<1>6. saving.rev = Next16(ram.rev) /\ saving.base = ram.val
  BY <1>1, <1>2 DEF SavingOK
<1>7. SavingOK' BY <1>2, <1>4, <1>5, <1>6 DEF SavingOK
<1>8. Blob \in Settings /\ Blob # None
  <2>1. Blob \in Settings BY <1>1, <1>2, BlobType
  <2>2. QED BY <2>1, KeymapAssumption DEF Settings
<1>9. Durable'
  <2>1. Boot' = Blob BY <1>2, <1>8 DEF Boot
  <2>2. Blob.rev = Next16(ram.rev) BY <1>6 DEF Blob
  <2>3. QED BY <1>2, <1>8, <2>1, <2>2 DEF Durable
<1>10. SeenOK'
  <2>1. Coming = 1 BY <1>2 DEF Coming
  <2>2. Coming' \in 0..1 BY DEF Coming
  <2>3. UNCHANGED <<ram, seen, saves>> BY DEF Store, clients
  <2>4. QED BY <2>1, <2>2, <2>3, StaysSeen
<1>11. QED BY <1>7, <1>9, <1>10

LEMMA StoreFailsKeeps == Inv /\ StoreFails => SavingOK' /\ Durable' /\ SeenOK'
<1> SUFFICES ASSUME Inv, StoreFails PROVE SavingOK' /\ Durable' /\ SeenOK' OBVIOUS
<1>1. TypeOK /\ SavingOK /\ Durable BY DEF Inv
<1>2. /\ saving # None /\ saving' = None
      /\ mapV3' \in {mapV3, Blob} /\ UNCHANGED <<ram, mapOld, seen, saves>>
  BY DEF StoreFails, clients
<1>3. SavingOK' BY <1>2 DEF SavingOK
<1>4. saving.rev = Next16(ram.rev) BY <1>1, <1>2 DEF SavingOK
<1>5. Blob \in Settings /\ Blob # None
  <2>1. Blob \in Settings BY <1>1, <1>2, BlobType
  <2>2. QED BY <2>1, KeymapAssumption DEF Settings
<1>6. Durable'
  <2>1. CASE mapV3' = mapV3
    <3>1. Boot' = Boot BY <1>2, <2>1 DEF Boot
    <3>2. QED BY <1>1, <1>2, <2>1, <3>1 DEF Durable
  <2>2. CASE mapV3' = Blob
    <3>1. Boot' = Blob BY <1>5, <2>2 DEF Boot
    <3>2. Blob.rev = Next16(ram.rev) BY <1>4 DEF Blob
    <3>3. QED BY <1>2, <1>5, <2>2, <3>1, <3>2 DEF Durable
  <2>3. QED BY <1>2, <2>1, <2>2
<1>7. SeenOK'
  <2>1. Coming = 1 BY <1>2 DEF Coming
  <2>2. Coming' \in 0..1 BY DEF Coming
  <2>3. QED BY <1>2, <2>1, <2>2, StaysSeen
<1>8. QED BY <1>3, <1>6, <1>7

LEMMA UseKeeps == Inv /\ Use => SavingOK' /\ Durable' /\ SeenOK'
<1> SUFFICES ASSUME Inv, Use PROVE SavingOK' /\ Durable' /\ SeenOK' OBVIOUS
<1>1. TypeOK /\ SavingOK BY DEF Inv
<1>2. /\ saving # None /\ saving.stored /\ ram' = Blob /\ saving' = None
      /\ UNCHANGED <<mapV3, mapOld, seen, saves>>
  BY DEF Use, clients
<1>3. saving.rev = Next16(ram.rev) /\ mapV3 = Blob BY <1>1, <1>2 DEF SavingOK
<1>4. Blob \in Settings /\ Blob # None
  <2>1. Blob \in Settings BY <1>1, <1>2, BlobType
  <2>2. QED BY <2>1, KeymapAssumption DEF Settings
<1>5. SavingOK' BY <1>2 DEF SavingOK
<1>6. Boot' = ram' BY <1>2, <1>3, <1>4 DEF Boot
<1>7. Durable' BY <1>6 DEF Durable
<1>8. SeenOK'
  <2>1. Coming = 1 BY <1>2 DEF Coming
  <2>2. Coming' = 0 BY <1>2, <1>6 DEF Coming
  <2>3. ram'.rev = Next16(ram.rev) BY <1>2, <1>3 DEF Blob
  <2>4. QED BY <1>2, <1>4, <2>1, <2>2, <2>3, MovesOn
<1>9. QED BY <1>5, <1>7, <1>8

LEMMA RestartKeeps == Inv /\ Restart => SavingOK' /\ Durable' /\ SeenOK'
<1> SUFFICES ASSUME Inv, Restart PROVE SavingOK' /\ Durable' /\ SeenOK' OBVIOUS
<1>1. TypeOK /\ Durable BY DEF Inv
<1>2. /\ ram' = Boot /\ saving' = None
      /\ UNCHANGED <<mapV3, mapOld, seen, saves>>
  BY DEF Restart
<1>3. SavingOK' BY <1>2 DEF SavingOK
<1>4. Boot' = ram' BY <1>2 DEF Boot
<1>5. Durable' BY <1>4 DEF Durable
<1>6. Coming' = 0 BY <1>2, <1>4 DEF Coming
<1>7. SeenOK'
  <2>1. CASE Boot = ram
    <3>1. Coming \in 0..1 BY DEF Coming
    <3>2. QED BY <1>2, <1>6, <2>1, <3>1, StaysSeen
  <2>2. CASE Boot # ram
    <3>1. Coming = 1 BY <2>2 DEF Coming
    <3>2. Boot \in Settings BY <1>1, BootType
    <3>3. Boot.rev = Next16(ram.rev) BY <1>1, <2>2 DEF Durable
    <3>4. QED BY <1>2, <1>6, <3>1, <3>2, <3>3, MovesOn
  <2>3. QED BY <2>1, <2>2
<1>8. QED BY <1>3, <1>5, <1>7

\* Steps that leave the device alone keep what is said of it alone.
LEMMA DeviceKept ==
  ASSUME Inv, UNCHANGED device
  PROVE  SavingOK' /\ Durable' /\ Coming' = Coming
<1>1. UNCHANGED <<ram, mapV3, mapOld, saving>> BY DEF device
<1>2. Boot' = Boot /\ Blob' = Blob BY <1>1 DEF Boot, Blob
<1>3. QED BY <1>1, <1>2 DEF Inv, SavingOK, Durable, Coming

LEMMA ReadKeeps ==
  ASSUME Inv, NEW c \in Clients, Read(c)
  PROVE  SavingOK' /\ Durable' /\ SeenOK'
<1>1. SavingOK' /\ Durable' /\ Coming' = Coming BY DeviceKept DEF Read
<1>2. UNCHANGED <<ram, saves>> /\ seen' = [seen EXCEPT ![c] = ram]
  BY DEF Read, device
<1>3. SeenOK'
  <2> SUFFICES ASSUME NEW d \in Clients
               PROVE  /\ Steps(seen'[d].rev, ram.rev) + Coming <= saves
                      /\ seen'[d].rev = ram.rev => seen'[d] = ram
    BY <1>1, <1>2 DEF SeenOK
  <2>1. /\ Steps(seen[d].rev, ram.rev) + Coming <= saves
        /\ seen[d].rev = ram.rev => seen[d] = ram
    BY DEF Inv, SeenOK
  <2>2. /\ ram.rev \in 0..Revisions - 1 /\ Steps(seen[d].rev, ram.rev) \in Nat
        /\ Coming \in 0..1 /\ saves \in Nat
    BY Ranges DEF Inv
  <2>3. CASE d = c
    <3>1. seen'[d] = ram BY <1>2, <2>3 DEF Inv, TypeOK
    <3>2. Steps(ram.rev, ram.rev) = 0 BY <2>2, StepsType
    <3>3. QED BY <2>1, <2>2, <3>1, <3>2
  <2>4. CASE d # c
    <3>1. seen'[d] = seen[d] BY <1>2, <2>4 DEF Inv, TypeOK
    <3>2. QED BY <2>1, <3>1
  <2>5. QED BY <2>3, <2>4
<1>4. QED BY <1>1, <1>3

LEMMA WriteKeeps ==
  ASSUME Inv, NEW c \in Clients, Write(c)
  PROVE  SavingOK' /\ Durable' /\ SeenOK'
<1>1. UNCHANGED <<ram, mapV3, mapOld, seen>> /\ saving = None BY DEF Write
<1>2. Boot' = Boot BY <1>1 DEF Boot
<1>3. Durable' BY <1>1, <1>2 DEF Inv, Durable
<1>4. CASE Accepts(c)
  <2>1. /\ saves' = saves + 1
        /\ saving' = [rev |-> Next16(ram.rev), val |-> want[c],
                      base |-> seen[c].val, stored |-> FALSE]
    BY <1>4 DEF Write
  <2>2. seen[c] = ram BY <1>4 DEF Inv, SeenOK, Accepts
  <2>3. /\ saving'.rev = Next16(ram.rev) /\ saving'.base = ram.val
        /\ saving'.stored = FALSE
    BY <2>1, <2>2
  <2>4. SavingOK' BY <1>1, <2>3 DEF SavingOK
  <2>5. SeenOK'
    <3> SUFFICES ASSUME NEW d \in Clients
                 PROVE  /\ Steps(seen[d].rev, ram.rev) + Coming' <= saves + 1
                        /\ seen[d].rev = ram.rev => seen[d] = ram
      BY <1>1, <2>1 DEF SeenOK
    <3>1. /\ Steps(seen[d].rev, ram.rev) + Coming <= saves
          /\ seen[d].rev = ram.rev => seen[d] = ram
      BY DEF Inv, SeenOK
    <3>2. /\ Steps(seen[d].rev, ram.rev) \in Nat /\ Coming \in 0..1
          /\ saves \in Nat
      BY Ranges DEF Inv
    <3>3. Coming' \in 0..1 BY DEF Coming
    <3>4. QED BY <3>1, <3>2, <3>3
  <2>6. QED BY <1>3, <2>4, <2>5
<1>5. CASE ~Accepts(c)
  <2>1. UNCHANGED <<saving, saves>> BY <1>5 DEF Write
  <2>2. UNCHANGED device BY <1>1, <2>1 DEF device
  <2>3. SavingOK' /\ Coming' = Coming BY <2>2, DeviceKept
  <2>4. Coming \in 0..1 BY DEF Coming
  <2>5. SeenOK' BY <1>1, <2>1, <2>3, <2>4, StaysSeen
  <2>6. QED BY <1>3, <2>3, <2>5
<1>6. QED BY <1>4, <1>5

LEMMA InvStep == Inv /\ [Next]_vars => Inv'
<1> SUFFICES ASSUME Inv, [Next]_vars PROVE Inv' OBVIOUS
<1>1. TypeOK' BY TypeStep DEF Inv
<1>2. ASSUME UNCHANGED <<device, seen, saves>>
      PROVE  SavingOK' /\ Durable' /\ SeenOK'
  <2>1. SavingOK' /\ Durable' /\ Coming' = Coming BY <1>2, DeviceKept
  <2>2. Coming \in 0..1 BY DEF Coming
  <2>3. UNCHANGED <<ram, seen, saves>> BY <1>2 DEF device
  <2>4. QED BY <2>1, <2>2, <2>3, StaysSeen
<1>3. CASE Firmware
  BY <1>3, StoreKeeps, StoreFailsKeeps, UseKeeps, RestartKeeps, <1>1
     DEF Firmware, Inv
<1>4. CASE \E c \in Clients : Client(c)
  <2>1. PICK c \in Clients : Client(c) BY <1>4
  <2>2. CASE Read(c) BY <1>1, <2>2, ReadKeeps DEF Inv
  <2>3. CASE Write(c) BY <1>1, <2>3, WriteKeeps DEF Inv
  <2>4. CASE Check(c) \/ Verify(c) \/ TransferFails(c)
    <3>1. UNCHANGED <<device, seen, saves>>
      BY <2>4 DEF Check, Verify, TransferFails
    <3>2. QED BY <1>1, <1>2, <3>1 DEF Inv
  <2>5. QED BY <2>1, <2>2, <2>3, <2>4 DEF Client
<1>5. CASE UNCHANGED vars
  <2>1. UNCHANGED <<device, seen, saves>> BY <1>5 DEF vars, clients
  <2>2. QED BY <1>1, <1>2, <2>1 DEF Inv
<1>6. QED BY <1>3, <1>4, <1>5 DEF Next

LEMMA Invariant == Spec => []Inv
BY InvInit, InvStep, PTL DEF Spec

-----------------------------------------------------------------------------
(* The properties.                                                         *)

\* keymap_apply, keymap_storage_save and keymap_init: whenever power is lost,
\* the bridge comes back with the settings in use or those of one later save.
THEOREM DurableAlways == Spec => []Durable
<1>1. Inv => Durable BY DEF Inv
<1>2. QED BY <1>1, Invariant, PTL

\* keymap_apply: of any number of applications that save at the same time,
\* none replaces settings it has not read.
THEOREM NothingIsLost == Spec => NoLostUpdate
<1>1. Inv /\ [Next]_vars => [Use => saving.base = ram.val]_vars
  BY DEF Inv, SavingOK, Use
<1>2. QED BY <1>1, Invariant, PTL DEF Spec, NoLostUpdate

\* save_settings: settings reported as saved are in flash.
THEOREM SavedMeansStored == Spec => SavedIsStored
<1> DEFINE Kept ==
      \A c \in Clients :
        Verify(c) /\ pc'[c] = "saved" =>
          \/ Boot = [rev |-> Next16(seen[c].rev), val |-> want[c]]
          \/ Boot.rev = Next16(Next16(seen[c].rev))
<1>1. Inv /\ [Next]_vars => [Kept]_vars
  <2> SUFFICES ASSUME Inv, NEW c \in Clients, Verify(c), pc'[c] = "saved"
               PROVE  \/ Boot = [rev |-> Next16(seen[c].rev), val |-> want[c]]
                      \/ Boot.rev = Next16(Next16(seen[c].rev))
    OBVIOUS
  <2>1. Verified(c) BY DEF Verify, Inv, TypeOK
  <2>2. ram = [rev |-> Next16(seen[c].rev), val |-> want[c]]
    BY <2>1 DEF Verified
  <2>3. ram.rev = Next16(seen[c].rev) BY <2>2
  <2>4. Boot = ram \/ Boot.rev = Next16(ram.rev) BY DEF Inv, Durable
  <2>5. QED BY <2>2, <2>3, <2>4
<1>2. QED BY <1>1, Invariant, PTL DEF Spec, SavedIsStored

\* The settings in use change one revision at a time and never go back,
\* through failed saves and losses of power.
THEOREM Refinement == Spec => ImplementsRegister
<1>1. Init => Register!Init
  <2> SUFFICES ASSUME Init PROVE Register!Init OBVIOUS
  <2>1. ram \in Settings BY TypeInit DEF TypeOK
  <2>2. QED BY <2>1 DEF Settings, Register!Init
<1>2. Inv /\ [Next]_vars => [Register!Change]_ram
  <2> SUFFICES ASSUME Inv, [Next]_vars PROVE Register!Change \/ ram' = ram
    OBVIOUS
  <2>a. ram.rev \in 0..Revisions - 1 /\ Next16(ram.rev) = (ram.rev + 1) % Revisions
    <3>1. ram.rev \in 0..Revisions - 1 BY DEF Inv, TypeOK, Settings
    <3>2. QED BY <3>1, NextIsRemainder
  <2>b. ASSUME ram' \in Settings, ram'.rev = Next16(ram.rev)
        PROVE  Register!Change
    <3>1. ram' = [rev |-> (ram.rev + 1) % Revisions, val |-> ram'.val]
      BY <2>a, <2>b DEF Settings
    <3>2. ram'.val \in Values BY <2>b DEF Settings
    <3>3. QED BY <3>1, <3>2 DEF Register!Change
  <2>1. CASE Use
    <3>1. saving # None /\ ram' = Blob BY <2>1 DEF Use
    <3>2. Blob \in Settings BY <3>1, BlobType DEF Inv
    <3>3. Blob.rev = Next16(ram.rev) BY <3>1 DEF Inv, SavingOK, Blob
    <3>4. QED BY <2>b, <3>1, <3>2, <3>3
  <2>2. CASE Restart
    <3>1. ram' = Boot BY <2>2 DEF Restart
    <3>2. Boot \in Settings BY BootType DEF Inv
    <3>3. Boot = ram \/ Boot.rev = Next16(ram.rev) BY DEF Inv, Durable
    <3>4. QED BY <2>b, <3>1, <3>2, <3>3
  <2>3. CASE Store \/ StoreFails BY <2>3 DEF Store, StoreFails
  <2>4. CASE \E c \in Clients : Client(c)
    <3>1. PICK c \in Clients : Client(c) BY <2>4
    <3>2. CASE Read(c) BY <3>2 DEF Read, device
    <3>3. CASE Check(c) BY <3>3 DEF Check, device
    <3>4. CASE Write(c) BY <3>4 DEF Write
    <3>5. CASE Verify(c) BY <3>5 DEF Verify, device
    <3>6. CASE TransferFails(c) BY <3>6 DEF TransferFails, device
    <3>7. QED BY <3>1, <3>2, <3>3, <3>4, <3>5, <3>6 DEF Client
  <2>5. CASE UNCHANGED vars BY <2>5 DEF vars, device
  <2>6. QED BY <2>1, <2>2, <2>3, <2>4, <2>5 DEF Next, Firmware
<1>3. QED BY <1>1, <1>2, Invariant, PTL
       DEF Spec, ImplementsRegister, Register!Spec

\* Flash and RAM hold well-formed settings that a save or the migration meant,
\* whatever power cuts and failures of the flash there are.
THEOREM KeymapIsSafe == Spec => []KeymapSafety
<1>1. TypeOK /\ Durable
      => KeymapSafety
  BY DEF KeymapSafety
<1> QED
  BY <1>1, TypeCorrect, DurableAlways, PTL

-----------------------------------------------------------------------------
(***************************************************************************)
(* Feature, the channel by which the settings come and go: what the two    *)
(* tasks share, the slot, the payload and the semaphore, is about one      *)
(* request at a time; and a request whose caller gave up neither starts    *)
(* nor undoes what a later read-back showed.                               *)
(*                                                                         *)
(* The invariant says who owns the slot.  It is the caller's from Accept   *)
(* to Post, the event's until Check, the owner's until Answer.  It is      *)
(* never passed on before it was freed, and the deadline of the slot runs  *)
(* out no later than the caller's patience.                                *)
(***************************************************************************)
\* Every use of the slot leaves it busy, and a queued event finds the owner
\* where it can take it.
SlotIsPassedOn ==
  /\ F!SlotIsHeld
  /\ event => busy /\ owner = "idle"
  /\ caller = "post" => busy /\ ~event /\ owner = "idle" /\ ~done

\* A completion that a waiting caller can take is the one of its own request.
CompletionIsOwn ==
  /\ caller = "wait" /\ done => ~busy /\ answered = calls
  /\ caller = "read" => ~busy /\ answered = calls

\* What the payload holds if the request went well (ok) and was a read.
Fresh(ok) ==
  ok /\ ~request.write =>
    payload = IF request.kind = "keymap" THEN stored ELSE answer

PayloadIsFresh ==
  /\ owner = "answer" => Fresh(rc)
  /\ ~busy => Fresh(result)

\* The owner's deadline is never later than the end of the caller's wait.
DeadlineIsEarlier ==
  busy /\ deadline > 0 => caller = "post" \/ (caller = "wait" /\ wait >= deadline)

\* A request in the slot is later than every read that was returned.
ConfirmedIsOlder ==
  /\ confirmed <= calls
  /\ busy => confirmed < calls

FeatureInv ==
  /\ F!TypeOK
  /\ SlotIsPassedOn /\ CompletionIsOwn /\ PayloadIsFresh
  /\ DeadlineIsEarlier /\ ConfirmedIsOlder

-----------------------------------------------------------------------------

LEMMA FeatureInit ==
  ASSUME F!Init
  PROVE  FeatureInv
<1>1. PICK v \in Contents : stored = [rev |-> 0, val |-> v]
  BY DEF F!Init
<1>2. stored \in F!Settings /\ payload = stored /\ answer = stored
  BY <1>1 DEF F!Init, F!Settings
<1>3. request \in F!Requests
  BY DEF F!Init, F!Requests, F!Kinds
<1>4. Timeout \in Nat
  BY ChannelAssumption
<1>5. /\ mounted \in BOOLEAN /\ started \in BOOLEAN /\ busy \in BOOLEAN /\ result \in BOOLEAN
      /\ done \in BOOLEAN /\ event \in BOOLEAN /\ rc \in BOOLEAN
  BY Zenon DEF F!Init
<1>6. F!TypeOK
  BY <1>2, <1>3, <1>4, <1>5 DEF F!Init, F!TypeOK
<1> QED
  BY <1>6 DEF F!Init, FeatureInv, SlotIsPassedOn, F!SlotIsHeld, CompletionIsOwn, PayloadIsFresh,
       Fresh, DeadlineIsEarlier, ConfirmedIsOlder

\* A new request takes a slot that is free.
LEMMA AcceptInv ==
  ASSUME FeatureInv,
         NEW kind \in F!Kinds, NEW write \in BOOLEAN, NEW content \in F!Settings,
         F!Accept(kind, write, content)
  PROVE  FeatureInv'
<1> USE DEF FeatureInv, F!Accept
<1>1. ~busy /\ owner = "idle" /\ ~event
  BY DEF F!Refused, SlotIsPassedOn, F!SlotIsHeld
<1>2. F!TypeOK'
  <2>1. request' \in F!Requests
    BY DEF F!TypeOK, F!Requests
  <2>2. payload' \in F!Settings
    BY DEF F!TypeOK
  <2>3. deadline' \in 0..Timeout
    BY ChannelAssumption
  <2>4. busy' \in BOOLEAN /\ done' \in BOOLEAN
    BY Zenon DEF F!DrainDone
  <2> QED
    BY <2>1, <2>2, <2>3, <2>4 DEF F!TypeOK, F!ownerVars, F!linkVars, F!DrainDone
<1>3. SlotIsPassedOn'
  BY <1>1 DEF SlotIsPassedOn, F!SlotIsHeld, F!ownerVars, F!DrainDone
<1>4. CompletionIsOwn' /\ PayloadIsFresh' /\ DeadlineIsEarlier'
  BY <1>1 DEF CompletionIsOwn, PayloadIsFresh, DeadlineIsEarlier, F!ownerVars
<1>5. ConfirmedIsOlder'
  BY DEF ConfirmedIsOlder, F!TypeOK
<1> QED BY <1>2, <1>3, <1>4, <1>5

\* What the caller does after that leaves the slot to the owner.
LEMMA UsbTaskInv ==
  ASSUME FeatureInv, F!UsbTask
  PROVE  FeatureInv'
<1> USE DEF FeatureInv
<1>1. CASE F!Post
  <2>1. busy /\ ~event /\ owner = "idle" /\ ~done /\ caller = "post"
    BY <1>1 DEF F!Post, SlotIsPassedOn
  <2>2. F!TypeOK' /\ ConfirmedIsOlder'
    BY <1>1, ChannelAssumption DEF F!Post, F!TypeOK, ConfirmedIsOlder, F!linkVars, F!ownerVars
  <2>3. DeadlineIsEarlier'
    BY <1>1 DEF F!Post, F!TypeOK, DeadlineIsEarlier
  <2> QED
    BY <1>1, <2>1, <2>2, <2>3
       DEF F!Post, SlotIsPassedOn, F!SlotIsHeld, CompletionIsOwn, PayloadIsFresh, F!ownerVars
<1>2. CASE F!TakeDone
  <2>1. ~busy /\ answered = calls /\ caller = "wait"
    BY <1>2 DEF F!TakeDone, CompletionIsOwn
  <2>2. F!TypeOK' /\ ConfirmedIsOlder'
    BY <1>2 DEF F!TakeDone, F!TypeOK, ConfirmedIsOlder, F!linkVars, F!ownerVars
  <2> QED
    BY <1>2, <2>1, <2>2
       DEF F!TakeDone, SlotIsPassedOn, F!SlotIsHeld, CompletionIsOwn, PayloadIsFresh, Fresh,
           DeadlineIsEarlier, F!ownerVars
<1>3. CASE F!GiveUp
  <2>1. F!TypeOK' /\ ConfirmedIsOlder'
    BY <1>3 DEF F!GiveUp, F!TypeOK, ConfirmedIsOlder, F!linkVars, F!slotVars, F!ownerVars
  <2>2. DeadlineIsEarlier'
    BY <1>3 DEF F!GiveUp, F!TypeOK, DeadlineIsEarlier, F!slotVars
  <2> QED
    BY <1>3, <2>1, <2>2
       DEF F!GiveUp, SlotIsPassedOn, F!SlotIsHeld, CompletionIsOwn, PayloadIsFresh, Fresh,
           F!slotVars, F!ownerVars
<1>4. CASE F!Return
  <2>1. ~busy
    BY <1>4 DEF F!Return, CompletionIsOwn
  <2>2. F!TypeOK' /\ ConfirmedIsOlder'
    BY <1>4, <2>1 DEF F!Return, F!TypeOK, ConfirmedIsOlder, F!linkVars, F!slotVars, F!ownerVars
  <2> QED
    BY <1>4, <2>1, <2>2
       DEF F!Return, SlotIsPassedOn, F!SlotIsHeld, CompletionIsOwn, PayloadIsFresh, Fresh,
           DeadlineIsEarlier, F!slotVars, F!ownerVars
<1> QED
  BY <1>1, <1>2, <1>3, <1>4 DEF F!UsbTask

\* The payload is written, and the settings change, only while the owner holds
\* the slot; the result is published together with the free slot.
LEMMA OwnerTaskInv ==
  ASSUME FeatureInv, F!OwnerTask
  PROVE  FeatureInv'
<1> USE DEF FeatureInv
<1>1. CASE F!Check
  <2>1. busy /\ owner = "idle"
    BY <1>1 DEF F!Check, SlotIsPassedOn
  <2>2. F!TypeOK' /\ ConfirmedIsOlder'
    BY <1>1 DEF F!Check, F!TypeOK, ConfirmedIsOlder, F!linkVars
  <2> QED
    BY <1>1, <2>1, <2>2
       DEF F!Check, SlotIsPassedOn, F!SlotIsHeld, CompletionIsOwn, PayloadIsFresh, Fresh,
           DeadlineIsEarlier
<1>2. CASE F!ApplyKeymap \/ F!ApplyMacro \/ F!ReadBack
  <2>1. owner = "execute" /\ owner' = "answer" /\ busy /\ executing = calls
    BY <1>2 DEF F!ApplyKeymap, F!ApplyMacro, F!ReadBack, F!Executed, SlotIsPassedOn, F!SlotIsHeld
  <2>2. /\ UNCHANGED <<mounted, started, generation, busy, request, result, deadline>>
        /\ UNCHANGED <<done, event, caller, wait, executing, calls, answered, confirmed>>
    BY <1>2 DEF F!ApplyKeymap, F!ApplyMacro, F!ReadBack, F!Executed, F!linkVars
  <2>3. payload' \in F!Settings /\ stored' \in F!Settings /\ answer' \in F!Settings /\ rc' \in BOOLEAN
    <3>1. CASE F!ApplyKeymap
      <4>1. PICK r \in Nat, v \in Contents : stored.rev = r /\ payload.val = v
        BY DEF F!TypeOK, F!Settings
      <4>2. [rev |-> r + 1, val |-> v] \in F!Settings
        BY DEF F!Settings
      <4>3. stored' \in F!Settings
        BY <3>1, <4>1, <4>2 DEF F!ApplyKeymap, F!TypeOK
      <4>4. rc' \in BOOLEAN
        BY <3>1, Zenon DEF F!ApplyKeymap
      <4> QED
        BY <3>1, <4>3, <4>4 DEF F!ApplyKeymap, F!TypeOK
    <3>2. CASE F!ApplyMacro \/ F!ReadBack
      BY <3>2 DEF F!ApplyMacro, F!ReadBack, F!TypeOK
    <3> QED BY <1>2, <3>1, <3>2
  <2>4. F!TypeOK'
    BY <2>1, <2>2, <2>3 DEF F!TypeOK
  <2>5. Fresh(rc)'
    BY <1>2, <2>2 DEF F!ApplyKeymap, F!ApplyMacro, F!ReadBack, Fresh
  <2> QED
    BY <2>1, <2>2, <2>4, <2>5
       DEF SlotIsPassedOn, F!SlotIsHeld, CompletionIsOwn, PayloadIsFresh, DeadlineIsEarlier,
           ConfirmedIsOlder
<1>3. CASE F!Answer
  <2>1. owner = "answer" /\ busy /\ executing = calls /\ ~event /\ caller # "post"
    BY <1>3 DEF F!Answer, SlotIsPassedOn, F!SlotIsHeld
  <2>2. Fresh(result)'
    BY <1>3, <2>1 DEF F!Answer, PayloadIsFresh, Fresh
  <2>3. F!TypeOK' /\ ConfirmedIsOlder'
    BY <1>3 DEF F!Answer, F!TypeOK, ConfirmedIsOlder, F!linkVars
  <2> QED
    BY <1>3, <2>1, <2>2, <2>3
       DEF F!Answer, SlotIsPassedOn, F!SlotIsHeld, CompletionIsOwn, PayloadIsFresh,
           DeadlineIsEarlier
<1> QED
  BY <1>1, <1>2, <1>3 DEF F!OwnerTask

\* Time takes from the caller's wait what it takes from the deadline.
LEMMA OutsideInv ==
  ASSUME FeatureInv, F!Tick \/ F!LinkChange \/ F!Restart \/ UNCHANGED F!vars
  PROVE  FeatureInv'
<1> USE DEF FeatureInv
<1>1. CASE F!Tick
  <2>1. deadline' \in 0..Timeout /\ wait' \in 0..Timeout
    BY <1>1, ChannelAssumption DEF F!Tick, F!After, F!TypeOK
  <2>2. DeadlineIsEarlier'
    BY <1>1 DEF F!Tick, F!After, F!TypeOK, DeadlineIsEarlier
  <2>3. F!TypeOK'
    BY <1>1, <2>1 DEF F!Tick, F!TypeOK, F!linkVars, F!ownerVars
  <2> QED
    BY <1>1, <2>2, <2>3
       DEF F!Tick, SlotIsPassedOn, F!SlotIsHeld, CompletionIsOwn, PayloadIsFresh, Fresh,
           ConfirmedIsOlder, F!ownerVars
<1>2. CASE F!LinkChange \/ F!Restart \/ UNCHANGED F!vars
  <2>1. /\ UNCHANGED F!slotVars /\ UNCHANGED F!ownerVars
        /\ UNCHANGED <<caller, wait, calls, answered, confirmed>>
    BY <1>2 DEF F!LinkChange, F!Restart, F!vars, F!slotVars, F!ownerVars
  <2>2. generation' \in Nat
    BY <1>2 DEF F!LinkChange, F!Restart, F!vars, F!TypeOK
  <2>3. mounted' \in BOOLEAN /\ started' \in BOOLEAN
    BY <1>2, Zenon DEF F!LinkChange, F!Restart, F!vars, F!TypeOK
  <2>4. F!TypeOK'
    BY <2>1, <2>2, <2>3 DEF F!TypeOK, F!slotVars, F!ownerVars
  <2> QED
    BY <2>1, <2>4
       DEF SlotIsPassedOn, F!SlotIsHeld, CompletionIsOwn, PayloadIsFresh, Fresh,
           DeadlineIsEarlier, ConfirmedIsOlder, F!slotVars, F!ownerVars
<1> QED BY <1>1, <1>2

LEMMA FeatureStep ==
  ASSUME FeatureInv, [F!Next]_(F!vars)
  PROVE  FeatureInv'
<1>1. CASE F!SetReport
  <2>1. PICK kind \in F!Kinds, v \in Contents, r \in 0..stored.rev :
               F!Accept(kind, TRUE, [rev |-> r, val |-> v])
    BY <1>1 DEF F!SetReport
  <2>2. [rev |-> r, val |-> v] \in F!Settings
    BY DEF FeatureInv, F!TypeOK, F!Settings
  <2> QED BY <2>1, <2>2, AcceptInv
<1>2. CASE F!GetReport
  <2>1. PICK kind \in F!Kinds : F!Accept(kind, FALSE, payload)
    BY <1>2 DEF F!GetReport
  <2>2. payload \in F!Settings
    BY DEF FeatureInv, F!TypeOK
  <2> QED BY <2>1, <2>2, AcceptInv
<1> QED
  BY <1>1, <1>2, UsbTaskInv, OwnerTaskInv, OutsideInv DEF F!Next

-----------------------------------------------------------------------------

\* The semaphore, the slot and the payload are shared by all requests, and yet
\* a caller gets the completion, the result and the data of its own one: the
\* drain, busy and the owner's two sections in usb_hid.c suffice for it.
THEOREM RequestIsSafe == F!Spec => []RequestSafety
<1>1. FeatureInv => RequestSafety
  BY DEF FeatureInv, RequestSafety, F!RequestSafety, F!ReplyIsOwn, SlotIsPassedOn, CompletionIsOwn, F!ReadIsCurrent,
         PayloadIsFresh, Fresh
<1> QED
  BY <1>1, FeatureInit, FeatureStep, PTL DEF F!Spec

\* A request is begun only while its caller waits, for the deadline in the slot
\* ends first; and no write that began before a read-back takes effect after it.
THEOREM LateNeverHarms == F!Spec => LateDoesNothing
<1>1. FeatureInv /\ [F!Next]_(F!vars) =>
        [owner = "idle" /\ owner' = "execute" => F!Waiting /\ executing' = calls]_(F!vars)
  <2> SUFFICES ASSUME FeatureInv, F!Next, owner = "idle", owner' = "execute"
               PROVE  F!Waiting /\ executing' = calls
    BY DEF F!vars
  <2>1. F!Check /\ F!Valid
    BY DEF F!Next, F!SetReport, F!GetReport, F!Accept, F!UsbTask, F!Post, F!TakeDone, F!GiveUp, F!Return,
           F!OwnerTask, F!Check, F!ApplyKeymap, F!ApplyMacro, F!ReadBack, F!Executed, F!Answer, F!Tick,
           F!LinkChange, F!Restart, F!ownerVars
  <2> QED
    BY <2>1 DEF F!Check, F!Valid, FeatureInv, DeadlineIsEarlier, F!Waiting
<1>2. FeatureInv /\ [F!Next]_(F!vars) => [stored' # stored => executing > confirmed]_(F!vars)
  <2> SUFFICES ASSUME FeatureInv, F!Next, stored' # stored
               PROVE  executing > confirmed
    BY DEF F!vars
  <2>1. F!ApplyKeymap
    BY DEF F!Next, F!SetReport, F!GetReport, F!Accept, F!UsbTask, F!Post, F!TakeDone, F!GiveUp, F!Return,
           F!OwnerTask, F!Check, F!ApplyMacro, F!ReadBack, F!Executed, F!Answer, F!Tick,
           F!LinkChange, F!Restart, F!ownerVars
  <2> QED
    BY <2>1 DEF F!ApplyKeymap, F!Executed, FeatureInv, F!TypeOK, SlotIsPassedOn, F!SlotIsHeld, ConfirmedIsOlder
<1> QED
  BY <1>1, <1>2, FeatureInit, FeatureStep, PTL
     DEF F!Spec, LateDoesNothing, F!LateDoesNothing, F!BeginsInTime, F!ReadBackSettles

=============================================================================
