------------------------- MODULE MacroUploadProofs -------------------------
(***************************************************************************)
(* Theorems of MacroUpload, for any number of applications, slots, macros  *)
(* and chunks: what the bridge commits and what an application shows is    *)
(* never put together from two macros, a commit is the application's own   *)
(* and replaces what it has read, and who is told so can rely on it.       *)
(*                                                                         *)
(* Two arguments meet.  The tokens: an upload that an application adds to  *)
(* was begun in the same call, because the reply to the begin came from it *)
(* and nothing but its own begin brings its token back.  The revisions:    *)
(* they tell macros apart although they wrap, as what was read is at most  *)
(* as many revisions old as saves were made.                               *)
(***************************************************************************)
EXTENDS MacroUpload, TLAPS

Pieces == Macros \X Nat

Uploads ==
  [token : Clients, rev : Revs, total : Nat, expired : BOOLEAN, data : Seq(Pieces)]

\* x is the beginning of y.
Begins(x, y) ==
  /\ Len(x) <= Len(y)
  /\ \A i \in 1..Len(x) : x[i] = y[i]

\* How many saves lead from revision a to revision b.
Steps(a, b) == IF b >= a THEN b - a ELSE b - a + Revisions

\* A failed save may come into use without another one, by a restart.
Coming(s) == IF Boot(s) # slots[s] THEN 1 ELSE 0

DeviceOK ==
  /\ slots \in [Slots -> Blobs] /\ stored \in [Slots -> Blobs \cup {None}]
  /\ saves \in 0..MaxSaves
  /\ \A s \in Slots :
       /\ Boot(s) = slots[s] \/ Boot(s).rev = Next16(slots[s].rev)
       /\ Coming(s) <= saves

\* What an application keeps belongs to the exchange it is at.
ClientsOK ==
  /\ task \in [Clients -> Exchanges \cup {"idle", "saved"}]
  /\ sent \in [Clients -> BOOLEAN] /\ want \in [Clients -> Macros]
  /\ shown \in [Clients -> Blobs \cup {None}] /\ done \in [Clients -> Seq(Pieces)]
  /\ part \in [Clients -> Parts \cup {None}]
  /\ \A c \in Clients :
       /\ Free(c) => ~sent[c]
       /\ task[c] \in Uploading \cup {"verify"} => shown[c] # None
       /\ task[c] \notin {"read", "verify", "chunk"} => done[c] = <<>>
       /\ task[c] \notin {"read", "verify"} => part[c] = None
       /\ part[c] = None /\ task[c] # "chunk" => done[c] = <<>>

\* The reply in the buffer is to the begin of application c.
HasBegun(c) ==
  /\ response # None /\ response.to = c /\ sent[c]
  /\ response.cmd = "begin" /\ response.status = "ok"

\* An upload that its application goes on with was begun in the same call.
UploadOK ==
  upload # None =>
    /\ upload \in Uploads /\ Len(upload.data) <= upload.total /\ stopped = None
    /\ task[upload.token] \in {"chunk", "commit"} =>
         Begins(upload.data, Chunks(want[upload.token]))
    /\ HasBegun(upload.token) => upload.data = <<>>

\* The piece that the application of the last request may take is of the macro
\* in use.
ResponseOK ==
  response # None =>
    /\ response.to \in Clients
    /\ sent[response.to] /\ response.cmd = "read" /\ response.status = "ok" =>
         LET held == Slot(response.to)
         IN  /\ response.rev = held.rev /\ response.total = Len(held.data)
             /\ response.data \in Seq(Pieces) /\ response.offset \in Nat
             /\ Len(response.data) = 1 =>
                  /\ response.offset < Len(held.data)
                  /\ response.data[1] = held.data[response.offset + 1]

\* A revision that an application has seen identifies the macro, and is at most
\* as old as there were saves.
Recent(c, rev) == Steps(rev, Slot(c).rev) + Coming(SlotOf[c]) <= saves

ShownOK ==
  \A c \in Clients : shown[c] # None =>
    /\ Recent(c, shown[c].rev)
    /\ shown[c].rev = Slot(c).rev => shown[c].data = Slot(c).data

PartOK ==
  \A c \in Clients : part[c] # None =>
    /\ Recent(c, part[c].rev)
    /\ part[c].rev = Slot(c).rev =>
         part[c].total = Len(Slot(c).data) /\ Begins(done[c], Slot(c).data)

Inv == DeviceOK /\ ClientsOK /\ UploadOK /\ ResponseOK /\ ShownOK /\ PartOK

-----------------------------------------------------------------------------
(* Revisions, chunks and blobs.                                            *)

LEMMA NextType ==
  ASSUME NEW r \in Revs
  PROVE  Next16(r) \in Revs /\ Next16(r) = IF r + 1 = Revisions THEN 0 ELSE r + 1
BY MacroUploadAssumption DEF Next16, Revs

\* One revision further is one step more, unless it closes the circle.
LEMMA OneStepMore ==
  ASSUME NEW a \in Revs, NEW b \in Revs, Steps(a, b) + 1 < Revisions
  PROVE  /\ Steps(a, Next16(b)) = Steps(a, b) + 1
         /\ a # Next16(b)
<1>1. Next16(b) = IF b + 1 = Revisions THEN 0 ELSE b + 1
  BY NextType
<1> QED BY <1>1, MacroUploadAssumption DEF Steps, Revs

LEMMA StepsType ==
  ASSUME NEW a \in Revs, NEW b \in Revs
  PROVE  Steps(a, b) \in Nat /\ Steps(a, a) = 0
BY MacroUploadAssumption DEF Steps, Revs

LEMMA ChunksType ==
  ASSUME NEW m \in Macros
  PROVE  Chunks(m) \in Seq(Pieces) /\ Len(Chunks(m)) = Size[m] /\ Size[m] \in Nat \ {0}
<1>1. Size[m] \in Nat \ {0}
  BY MacroUploadAssumption
<1>2. \A i \in 1..Size[m] : <<m, i>> \in Pieces
  BY <1>1 DEF Pieces
<1> QED BY <1>1, <1>2 DEF Chunks

LEMMA BlobType ==
  ASSUME NEW b \in Blobs
  PROVE  /\ b.rev \in Revs /\ b.data \in Contents
         /\ b.data \in Seq(Pieces) /\ Len(b.data) \in Nat \ {0}
         /\ b = [rev |-> b.rev, data |-> b.data]
<1>1. b.rev \in Revs /\ b.data \in Contents /\ b = [rev |-> b.rev, data |-> b.data]
  BY DEF Blobs
<1>2. PICK m \in Macros : b.data = Chunks(m)
  BY <1>1 DEF Contents
<1>3. Chunks(m) \in Seq(Pieces) /\ Len(Chunks(m)) \in Nat \ {0}
  BY ChunksType
<1> QED BY <1>1, <1>2, <1>3

\* What begins a sequence and is as long is the sequence.
LEMMA WholeIsEqual ==
  ASSUME NEW x \in Seq(Pieces), NEW y \in Seq(Pieces), Begins(x, y), Len(x) >= Len(y)
  PROVE  x = y
<1>1. Len(x) = Len(y) /\ \A i \in 1..Len(x) : x[i] = y[i]
  BY DEF Begins
<1> QED BY <1>1

\* One more chunk of a sequence goes to the end of its beginning.
LEMMA OneMore ==
  ASSUME NEW x \in Seq(Pieces), NEW y \in Seq(Pieces), Begins(x, y), Len(x) < Len(y),
         NEW z \in Pieces, z = y[Len(x) + 1]
  PROVE  Append(x, z) \in Seq(Pieces) /\ Begins(Append(x, z), y) /\ x \o <<z>> = Append(x, z)
<1>1. Append(x, z) \in Seq(Pieces) /\ Len(Append(x, z)) = Len(x) + 1
  OBVIOUS
<1>2. ASSUME NEW i \in 1..Len(x) + 1
      PROVE  Append(x, z)[i] = y[i]
  BY DEF Begins
<1>3. x \o <<z>> = Append(x, z)
  OBVIOUS
<1> QED BY <1>1, <1>2, <1>3 DEF Begins

LEMMA BootType ==
  ASSUME stored \in [Slots -> Blobs \cup {None}], NEW s \in Slots
  PROVE  Boot(s) \in Blobs
<1>1. [rev |-> 0, data |-> Chunks(Default)] \in Blobs
  BY MacroUploadAssumption DEF Blobs, Revs, Contents
<1> QED BY <1>1 DEF Boot

LEMMA SlotType ==
  ASSUME DeviceOK, NEW c \in Clients
  PROVE  SlotOf[c] \in Slots /\ Slot(c) = slots[SlotOf[c]] /\ Slot(c) \in Blobs
BY MacroUploadAssumption DEF DeviceOK, Slot

-----------------------------------------------------------------------------
(* The device.                                                             *)

\* A step leaves revisions that were seen behind, or the macro as it is.
Unambiguous ==
  \A c \in Clients, rev \in Revs :
    Recent(c, rev) => Recent(c, rev)' /\ (Slot(c)' = Slot(c) \/ rev # Slot(c)'.rev)

\* For one slot: which saves it has seen, and how its revision moves on.
LEMMA SlotMoves ==
  ASSUME DeviceOK, NEW s \in Slots, NEW rev \in Revs, NEW n \in 0..MaxSaves,
         Steps(rev, slots[s].rev) + Coming(s) <= n, n < MaxSaves \/ Coming(s) = 1
  PROVE  LET next == Next16(slots[s].rev)
         IN  rev # next /\ Steps(rev, next) = Steps(rev, slots[s].rev) + 1
<1>1. slots[s].rev \in Revs
  BY BlobType DEF DeviceOK
<1>2. Steps(rev, slots[s].rev) \in Nat
  BY <1>1, StepsType
<1>3. Coming(s) \in 0..1
  BY DEF Coming
<1>4. MaxSaves \in Nat /\ Revisions \in Nat /\ MaxSaves < Revisions
  BY MacroUploadAssumption
<1>5. Steps(rev, slots[s].rev) + 1 < Revisions
  BY <1>2, <1>3, <1>4
<1> QED BY <1>1, <1>5, OneStepMore

\* What has to be shown for each slot, to know it for the applications.
LEMMA SlotsSuffice ==
  ASSUME DeviceOK, DeviceOK', saves' >= saves,
         \A s \in Slots :
           \/ slots'[s] = slots[s] /\ Coming(s)' <= Coming(s) + (saves' - saves)
           \/ /\ slots'[s].rev = Next16(slots[s].rev) /\ Coming(s)' = 0
              /\ saves' = saves + 1 \/ (saves' = saves /\ Coming(s) = 1)
  PROVE  Unambiguous
<1> SUFFICES ASSUME NEW c \in Clients, NEW rev \in Revs, Recent(c, rev)
             PROVE  Recent(c, rev)' /\ (Slot(c)' = Slot(c) \/ rev # Slot(c)'.rev)
  BY DEF Unambiguous
<1>0. SlotOf[c] \in Slots
  BY MacroUploadAssumption
<1>1. PICK s \in Slots : s = SlotOf[c]
  BY <1>0
<1>2. Slot(c) = slots[s] /\ Slot(c)' = slots'[s]
  BY <1>1 DEF Slot
<1>3. slots[s].rev \in Revs /\ saves \in 0..MaxSaves /\ saves' \in 0..MaxSaves
  BY BlobType DEF DeviceOK
<1>4. Coming(s) \in 0..1 /\ Coming(s)' \in 0..1
  BY DEF Coming
<1>5. Steps(rev, slots[s].rev) \in Nat /\ Steps(rev, slots[s].rev) + Coming(s) <= saves
  BY <1>1, <1>2, <1>3, StepsType DEF Recent
<1>6. SUFFICES /\ Steps(rev, slots'[s].rev) + Coming(s)' <= saves'
               /\ slots'[s] = slots[s] \/ rev # slots'[s].rev
  BY <1>1, <1>2 DEF Recent
<1>7. CASE slots'[s] = slots[s] /\ Coming(s)' <= Coming(s) + (saves' - saves)
  BY <1>3, <1>4, <1>5, <1>7
<1>8. CASE /\ slots'[s].rev = Next16(slots[s].rev) /\ Coming(s)' = 0
           /\ saves' = saves + 1 \/ (saves' = saves /\ Coming(s) = 1)
  <2>1. saves < MaxSaves \/ Coming(s) = 1
    BY <1>3, <1>8, MacroUploadAssumption
  <2>2. rev # slots'[s].rev /\ Steps(rev, slots'[s].rev) = Steps(rev, slots[s].rev) + 1
    BY <1>3, <1>5, <1>8, <2>1, SlotMoves
  <2>3. Steps(rev, slots[s].rev) + 1 <= saves'
    BY <1>3, <1>4, <1>5, <1>8
  <2> QED BY <1>3, <1>5, <1>8, <2>2, <2>3
<1> QED BY <1>7, <1>8

LEMMA DeviceKeeps ==
  ASSUME DeviceOK, Keeps
  PROVE  DeviceOK' /\ Unambiguous
<1>1. \A s \in Slots : Boot(s)' = Boot(s) /\ Coming(s)' = Coming(s)
  BY DEF Keeps, Boot, Coming
<1>2. DeviceOK'
  BY <1>1 DEF Keeps, DeviceOK
<1>3. \A s \in Slots : slots'[s] = slots[s] /\ Coming(s) \in 0..1 /\ saves' = saves
  BY DEF Keeps, Coming
<1>4. saves \in Nat
  BY MacroUploadAssumption DEF DeviceOK
<1>5. saves' >= saves
  BY <1>4 DEF Keeps
<1>6. \A s \in Slots : Coming(s)' <= Coming(s) + (saves' - saves)
  BY <1>1, <1>3, <1>4
<1> QED BY <1>2, <1>3, <1>5, <1>6, SlotsSuffice

\* A blob for slot t is written, and used or not.
LEMMA DeviceSaves ==
  ASSUME DeviceOK, NEW t \in Slots, NEW b \in Blobs, b.rev = Next16(slots[t].rev),
         saves < MaxSaves, saves' = saves + 1,
         \/ slots' = slots /\ stored' \in {stored, [stored EXCEPT ![t] = b]}
         \/ slots' = [slots EXCEPT ![t] = b] /\ stored' = [stored EXCEPT ![t] = b]
  PROVE  DeviceOK' /\ Unambiguous
<1>1. /\ slots' \in [Slots -> Blobs] /\ stored' \in [Slots -> Blobs \cup {None}]
      /\ saves' \in 0..MaxSaves /\ saves \in Nat
  BY MacroUploadAssumption DEF DeviceOK
<1>2. b # None
  BY NoneAssumption
<1>3. ASSUME NEW s \in Slots
      PROVE  \/ slots'[s] = slots[s] /\ Boot(s)' = Boot(s)
             \/ slots'[s] = slots[s] /\ Boot(s)'.rev = Next16(slots[s].rev)
             \/ slots'[s].rev = Next16(slots[s].rev) /\ Boot(s)' = slots'[s]
  <2>1. CASE s = t /\ stored' = [stored EXCEPT ![t] = b]
    <3>1. Boot(s)' = b
      BY <1>2, <2>1 DEF Boot, DeviceOK
    <3>2. CASE slots' = slots
      BY <2>1, <3>1, <3>2
    <3>3. CASE slots' = [slots EXCEPT ![t] = b]
      <4>1. slots'[s] = b
        BY <2>1, <3>3 DEF DeviceOK
      <4> QED BY <2>1, <3>1, <4>1
    <3> QED BY <3>2, <3>3
  <2>2. CASE slots' = slots /\ stored' = stored
    BY <2>2 DEF Boot
  <2>3. CASE s # t
    <3>1. slots'[s] = slots[s] /\ stored'[s] = stored[s]
      BY <2>3 DEF DeviceOK
    <3> QED BY <3>1 DEF Boot
  <2> QED BY <2>1, <2>2, <2>3
<1>4. ASSUME NEW s \in Slots
      PROVE  /\ Boot(s)' = slots'[s] \/ Boot(s)'.rev = Next16(slots'[s].rev)
             /\ Coming(s)' <= saves'
             /\ \/ slots'[s] = slots[s] /\ Coming(s)' <= Coming(s) + (saves' - saves)
                \/ slots'[s].rev = Next16(slots[s].rev) /\ Coming(s)' = 0
  <2>1. Boot(s) = slots[s] \/ Boot(s).rev = Next16(slots[s].rev)
    BY DEF DeviceOK
  <2>2. Boot(s)' = slots'[s] \/ Boot(s)'.rev = Next16(slots'[s].rev)
    BY <1>3, <2>1
  <2>3. Coming(s) \in 0..1 /\ Coming(s)' \in 0..1
    BY DEF Coming
  <2>4. Boot(s)' = slots'[s] => Coming(s)' = 0
    BY DEF Coming
  <2> QED BY <1>1, <1>3, <2>2, <2>3, <2>4
<1>5. DeviceOK'
  BY <1>1, <1>4 DEF DeviceOK
<1>6. saves' >= saves
  BY <1>1
<1> QED BY <1>1, <1>4, <1>5, <1>6, SlotsSuffice

LEMMA DeviceRestarts ==
  ASSUME DeviceOK, slots' = [s \in Slots |-> Boot(s)], UNCHANGED <<stored, saves>>
  PROVE  DeviceOK' /\ Unambiguous
<1>1. ASSUME NEW s \in Slots
      PROVE  Boot(s)' = Boot(s) /\ slots'[s] = Boot(s) /\ Coming(s)' = 0
  BY DEF Boot, Coming
<1>2. saves \in Nat /\ saves' = saves
  BY MacroUploadAssumption DEF DeviceOK
<1>3. DeviceOK'
  <2>1. slots' \in [Slots -> Blobs]
    BY BootType DEF DeviceOK
  <2> QED BY <1>1, <1>2, <2>1 DEF DeviceOK
<1>4. ASSUME NEW s \in Slots
      PROVE  \/ slots'[s] = slots[s] /\ Coming(s)' <= Coming(s) + (saves' - saves)
             \/ slots'[s].rev = Next16(slots[s].rev) /\ Coming(s)' = 0 /\ Coming(s) = 1
  <2>1. CASE Boot(s) = slots[s]
    <3>1. Coming(s) = 0
      BY <2>1 DEF Coming
    <3> QED BY <1>1, <1>2, <2>1, <3>1
  <2>2. CASE Boot(s) # slots[s]
    <3>1. Coming(s) = 1 /\ Boot(s).rev = Next16(slots[s].rev)
      BY <2>2 DEF Coming, DeviceOK
    <3> QED BY <1>1, <3>1
  <2> QED BY <2>1, <2>2
<1> QED BY <1>2, <1>3, <1>4, SlotsSuffice

\* What was shown, and what was read of a macro, stays right.
Known(c)  == Recent(c, shown[c].rev)
               /\ (shown[c].rev = Slot(c).rev => shown[c].data = Slot(c).data)
Joined(c) == Recent(c, part[c].rev)
               /\ (part[c].rev = Slot(c).rev =>
                    part[c].total = Len(Slot(c).data) /\ Begins(done[c], Slot(c).data))

LEMMA SeenStays ==
  ASSUME ClientsOK, ShownOK, PartOK, Unambiguous
  PROVE  \A c \in Clients :
           /\ shown'[c] = shown[c] /\ shown[c] # None => Known(c)'
           /\ part'[c] = part[c] /\ done'[c] = done[c] /\ part[c] # None => Joined(c)'
<1>1. ASSUME NEW c \in Clients, shown'[c] = shown[c], shown[c] # None
      PROVE  Known(c)'
  <2>1. PICK rev \in Revs : rev = shown[c].rev
    BY <1>1 DEF ClientsOK, Blobs
  <2>2. Recent(c, rev)
    BY <1>1, <2>1 DEF ShownOK
  <2>3. Recent(c, rev)' /\ (Slot(c)' = Slot(c) \/ rev # Slot(c)'.rev)
    BY <2>2 DEF Unambiguous
  <2>4. shown[c].rev = Slot(c).rev => shown[c].data = Slot(c).data
    BY <1>1 DEF ShownOK
  <2> QED BY <1>1, <2>1, <2>3, <2>4 DEF Known, Recent
<1>2. ASSUME NEW c \in Clients, part'[c] = part[c], done'[c] = done[c], part[c] # None
      PROVE  Joined(c)'
  <2>1. PICK rev \in Revs : rev = part[c].rev
    BY <1>2 DEF ClientsOK, Parts
  <2>2. Recent(c, rev)
    BY <1>2, <2>1 DEF PartOK
  <2>3. Recent(c, rev)' /\ (Slot(c)' = Slot(c) \/ rev # Slot(c)'.rev)
    BY <2>2 DEF Unambiguous
  <2>4. part[c].rev = Slot(c).rev =>
          part[c].total = Len(Slot(c).data) /\ Begins(done[c], Slot(c).data)
    BY <1>2 DEF PartOK
  <2> QED BY <1>2, <2>1, <2>3, <2>4 DEF Joined, Recent, Begins
<1> QED BY <1>1, <1>2

-----------------------------------------------------------------------------
(* The requests.                                                           *)

LEMMA InitInv == Init => Inv
<1> SUFFICES ASSUME Init PROVE Inv
  OBVIOUS
<1>1. stored \in [Slots -> Blobs \cup {None}]
  BY MacroUploadAssumption DEF Init, Blobs, Revs
<1>2. slots \in [Slots -> Blobs]
  BY <1>1, BootType DEF Init
<1>3. saves = 0 /\ MaxSaves \in Nat
  BY MacroUploadAssumption DEF Init
<1>4. \A s \in Slots : Boot(s) = slots[s] /\ Coming(s) = 0
  BY DEF Init, Coming
<1>5. DeviceOK
  BY <1>1, <1>2, <1>3, <1>4 DEF DeviceOK
<1>6. ClientsOK
  BY MacroUploadAssumption DEF Init, ClientsOK, Free, Exchanges, Uploading
<1> QED BY <1>5, <1>6 DEF Inv, Init, UploadOK, ResponseOK, ShownOK, PartOK

LEMMA ReplyIs ==
  ASSUME NEW c, NEW status, NEW rev, NEW total, NEW data,
         response' = Reply(c, status, rev, total, data)
  PROVE  /\ response'.to = c /\ response'.cmd = Cmd(c) /\ response'.offset = Offset(c)
         /\ response'.status = status /\ response'.rev = rev /\ response'.total = total
         /\ response'.data = data
BY DEF Reply

\* A reply that acknowledges no begin leaves the upload what it is.
LEMMA UploadKept ==
  ASSUME UploadOK, UNCHANGED <<task, want>>,
         upload' = None \/ (upload' = upload /\ stopped' = stopped),
         \A d \in Clients : ~HasBegun(d)'
  PROVE  UploadOK'
<1>1. CASE upload' = None
  BY <1>1 DEF UploadOK
<1>2. CASE upload' # None
  <2>1. upload # None /\ upload' = upload /\ stopped' = stopped
    BY <1>2
  <2>2. upload.token \in Clients
    BY <2>1 DEF UploadOK, Uploads
  <2> QED BY <2>1, <2>2 DEF UploadOK, Begins
<1> QED BY <1>1, <1>2

\* A reply that brings no piece.
LEMMA Refusal ==
  ASSUME NEW c \in Clients, response'.to = c,
         response'.cmd # "read" \/ response'.status # "ok"
  PROVE  ResponseOK'
BY DEF ResponseOK

\* A request touches nothing that its application keeps.
LEMMA AskClients ==
  ASSUME Inv, NEW c \in Clients, Ask(c)
  PROVE  ClientsOK'
<1>1. /\ UNCHANGED <<task, done, part, shown, want>>
      /\ sent' = [sent EXCEPT ![c] = TRUE] /\ ~Free(c)
  BY DEF Ask, Free
<1> QED BY <1>1 DEF Inv, ClientsOK, Free

\* macro_request with the request of c.
LEMMA AskInv ==
  ASSUME Inv, NEW c \in Clients, Ask(c)
  PROVE  Inv'
<1>1. /\ UNCHANGED <<task, done, part, shown, want>>
      /\ sent' = [sent EXCEPT ![c] = TRUE] /\ ~Free(c)
  BY DEF Ask, Free
<1>2. ClientsOK'
  BY AskClients
<1>3. /\ DeviceOK /\ ClientsOK /\ UploadOK /\ ShownOK /\ PartOK
      /\ SlotOf[c] \in Slots /\ Slot(c) = slots[SlotOf[c]] /\ Slot(c) \in Blobs
  BY SlotType DEF Inv
<1>4. ASSUME DeviceOK', Unambiguous, UploadOK', ResponseOK'
      PROVE  Inv'
  <2>1. ShownOK'
    BY <1>1, <1>3, <1>4, SeenStays DEF ShownOK, Known
  <2>2. PartOK'
    BY <1>1, <1>3, <1>4, SeenStays DEF PartOK, Joined
  <2> QED BY <1>2, <1>4, <2>1, <2>2 DEF Inv
<1>5. ASSUME response'.to = c, response'.cmd # "begin" \/ response'.status # "ok"
      PROVE  \A d \in Clients : ~HasBegun(d)'
  BY <1>5 DEF HasBegun
<1>6. CASE HandleStop(c)
  <2>1. response'.to = c /\ response'.cmd = "stop"
    BY <1>6, ReplyIs DEF HandleStop, Status
  <2>2. upload' = None
    BY <1>6 DEF HandleStop, Cancel
  <2>3. UploadOK' /\ ResponseOK'
    BY <1>1, <1>3, <1>5, <2>1, <2>2, UploadKept, Refusal
  <2> QED BY <1>3, <1>4, <1>6, <2>3, DeviceKeeps DEF HandleStop
<1>7. CASE HandleRead(c)
  <2> DEFINE held == Slot(c)
             size == Len(held.data)
             at   == Offset(c)
             end  == IF at < size THEN at + 1 ELSE size
  <2>1. /\ Cmd(c) = "read" /\ upload' = upload /\ stopped' = stopped /\ Keeps
        /\ response' = IF at > size THEN Status(c, "invalid")
                       ELSE Reply(c, "ok", held.rev, size, SubSeq(held.data, at + 1, end))
    BY <1>7 DEF HandleRead
  <2>2. response'.to = c /\ response'.cmd = "read" /\ response'.offset = at
    BY <2>1, ReplyIs DEF Status
  <2>3. UploadOK'
    BY <1>1, <1>3, <1>5, <2>1, <2>2, UploadKept
  <2>4. held.data \in Seq(Pieces) /\ size \in Nat
    BY <1>3, BlobType
  <2>5. at \in Nat
    BY <1>3 DEF Offset, ClientsOK
  <2>6. Slot(c)' = Slot(c)
    BY <2>1 DEF Keeps, Slot
  <2> HIDE DEF held, size, at, end
  <2>7. CASE at > size
    <3>1. response'.status = "invalid"
      BY <2>1, <2>7, ReplyIs DEF Status
    <3>2. ResponseOK'
      BY <2>2, <3>1, Refusal
    <3> QED BY <1>3, <1>4, <2>1, <2>3, <3>2, DeviceKeeps
  <2>8. CASE at <= size
    <3>0. response' = Reply(c, "ok", held.rev, size, SubSeq(held.data, at + 1, end))
      BY <2>1, <2>4, <2>5, <2>8
    <3>1. /\ response'.rev = held.rev /\ response'.total = size
          /\ response'.data = SubSeq(held.data, at + 1, end)
      BY <3>0 DEF Reply
    <3>2. SubSeq(held.data, at + 1, end) \in Seq(Pieces)
      <4>1. end \in at..size
        BY <2>4, <2>5, <2>8 DEF end
      <4>2. PICK x \in Seq(Pieces) : x = held.data /\ size = Len(x)
        BY <2>4 DEF size
      <4> QED BY <2>4, <2>5, <4>1, <4>2
    <3>3. CASE at < size
      <4>1. SubSeq(held.data, at + 1, end)[1] = held.data[at + 1]
        BY <2>4, <2>5, <3>3 DEF end, size
      <4>2. ResponseOK'
        BY <2>2, <2>5, <2>6, <3>1, <3>2, <3>3, <4>1 DEF ResponseOK, held, size
      <4> QED BY <1>3, <1>4, <2>1, <2>3, <4>2, DeviceKeeps
    <3>4. CASE at = size
      <4>1. Len(SubSeq(held.data, at + 1, end)) = 0
        BY <2>4, <2>5, <3>4 DEF end, size
      <4>2. ResponseOK'
        BY <2>2, <2>5, <2>6, <3>1, <3>2, <4>1 DEF ResponseOK, held, size
      <4> QED BY <1>3, <1>4, <2>1, <2>3, <4>2, DeviceKeeps
    <3> QED BY <2>4, <2>5, <2>8, <3>3, <3>4
  <2> QED BY <2>4, <2>5, <2>7, <2>8
<1>8. CASE HandleConflict(c) \/ HandleInvalid(c) \/ HandleBusy(c)
  <2>1. /\ response' = Status(c, "conflict") \/ response' = Status(c, "invalid")
             \/ response' = Status(c, "busy")
        /\ upload' = upload /\ stopped' = stopped /\ Keeps
    BY <1>8 DEF HandleConflict, HandleInvalid, HandleBusy
  <2>2. response'.to = c /\ response'.status # "ok"
    BY <2>1, ReplyIs DEF Status
  <2>3. UploadOK' /\ ResponseOK'
    BY <1>1, <1>3, <1>5, <2>1, <2>2, UploadKept, Refusal
  <2> QED BY <1>3, <1>4, <2>1, <2>3, DeviceKeeps
<1>9. CASE HandleBegin(c)
  <2>1. /\ Cmd(c) = "begin" /\ upload' = Begun(c) /\ stopped' = None /\ Keeps
        /\ response' = Status(c, "ok")
    BY <1>9 DEF HandleBegin
  <2>2. response'.to = c /\ response'.cmd = "begin"
    BY <2>1, ReplyIs DEF Status
  <2>3. task[c] = "begin"
    BY <1>1, <1>3, <2>1 DEF Cmd
  <2>4. shown[c].rev \in Revs /\ Total(c) \in Nat
    <3>1. shown[c] \in Blobs /\ want[c] \in Macros
      BY <1>3, <2>3 DEF ClientsOK, Uploading
    <3> QED BY <3>1, BlobType, ChunksType DEF Total
  <2>5. Begun(c) \in Uploads /\ Begun(c).data = <<>> /\ Begun(c).token = c
        /\ Len(Begun(c).data) <= Begun(c).total
    BY <2>4 DEF Begun, Uploads
  <2>6. UploadOK'
    BY <1>1, <2>1, <2>3, <2>5 DEF UploadOK, HasBegun
  <2>7. ResponseOK'
    BY <2>2, Refusal
  <2> QED BY <1>3, <1>4, <2>1, <2>6, <2>7, DeviceKeeps
<1>10. CASE HandleChunk(c)
  <2>1. /\ Cmd(c) = "chunk" /\ MyUpload(c) /\ NextChunk(c) /\ stopped' = stopped /\ Keeps
        /\ upload' = [upload EXCEPT !.data = Append(@, Chunks(want[c])[Offset(c) + 1])]
        /\ response' = Status(c, "ok")
    BY <1>10 DEF HandleChunk
  <2>2. response'.to = c /\ response'.cmd = "chunk"
    BY <2>1, ReplyIs DEF Status
  <2>3. task[c] = "chunk"
    BY <1>1, <1>3, <2>1 DEF Cmd
  <2>4. /\ upload # None /\ upload \in Uploads /\ upload.token = c /\ stopped = None
        /\ Begins(upload.data, Chunks(want[c])) /\ upload.total = Total(c)
    BY <1>3, <2>1, <2>3 DEF UploadOK, MyUpload
  <2>5. PICK data \in Seq(Pieces), rev \in Revs, total \in Nat, expired \in BOOLEAN :
               upload = [token |-> c, rev |-> rev, total |-> total, expired |-> expired,
                         data |-> data]
    BY <2>4 DEF Uploads
  <2>6. /\ Chunks(want[c]) \in Seq(Pieces) /\ Len(Chunks(want[c])) = Total(c)
        /\ Offset(c) = Len(data) /\ Len(data) < Total(c) /\ total = Total(c)
        /\ Begins(data, Chunks(want[c]))
    <3>1. want[c] \in Macros
      BY <1>3 DEF ClientsOK
    <3> QED BY <2>1, <2>4, <2>5, <3>1, ChunksType DEF NextChunk, Total
  <2>7. PICK z \in Pieces : z = Chunks(want[c])[Len(data) + 1]
    BY <2>6
  <2>8. Append(data, z) \in Seq(Pieces) /\ Begins(Append(data, z), Chunks(want[c]))
        /\ Len(Append(data, z)) <= total
    BY <2>6, <2>7, OneMore
  <2>9. upload' = [token |-> c, rev |-> rev, total |-> total, expired |-> expired,
                   data |-> Append(data, z)]
    BY <2>1, <2>5, <2>6, <2>7
  <2>10. upload' \in Uploads /\ upload'.token = c /\ upload'.data = Append(data, z)
         /\ upload'.total = total
    BY <2>8, <2>9 DEF Uploads
  <2>11. ~HasBegun(c)'
    BY <2>2 DEF HasBegun
  <2>12. want' = want
    BY <1>1
  <2>13. UploadOK'
    BY <2>1, <2>4, <2>8, <2>10, <2>11, <2>12 DEF UploadOK
  <2>14. ResponseOK'
    BY <2>2, Refusal
  <2> QED BY <1>3, <1>4, <2>1, <2>13, <2>14, DeviceKeeps
<1>11. ASSUME Committing(c)
       PROVE  Saved \in Blobs /\ Saved.rev = Next16(slots[SlotOf[c]].rev)
  <2>1. /\ task[c] = "commit" /\ MyUpload(c) /\ Len(upload.data) = Total(c)
        /\ shown[c].rev = Slot(c).rev
    BY <1>1, <1>3, <1>11 DEF Committing, Cmd, Complete, SameRevision
  <2>2. /\ upload \in Uploads /\ Begins(upload.data, Chunks(want[c]))
        /\ upload.rev = Slot(c).rev
    BY <1>3, <2>1 DEF UploadOK, MyUpload
  <2>3. want[c] \in Macros /\ upload.data \in Seq(Pieces)
    BY <1>3, <2>2 DEF ClientsOK, Uploads
  <2>4. Chunks(want[c]) \in Seq(Pieces) /\ Len(Chunks(want[c])) = Total(c) /\ Total(c) \in Nat
    BY <2>3, ChunksType DEF Total
  <2>5. upload.data = Chunks(want[c])
    BY <2>1, <2>2, <2>3, <2>4, WholeIsEqual
  <2>6. Next16(Slot(c).rev) \in Revs
    BY <1>3, BlobType, NextType
  <2> QED BY <1>3, <2>2, <2>3, <2>5, <2>6 DEF Saved, Blobs, Contents
<1>12. CASE HandleStoreFails(c)
  <2>1. /\ Committing(c) /\ slots' = slots /\ upload' = upload /\ stopped' = stopped
        /\ response' = Status(c, "storage")
        /\ \/ /\ saves < MaxSaves /\ saves' = saves + 1
              /\ stored' \in {stored, [stored EXCEPT ![SlotOf[c]] = Saved]}
           \/ UNCHANGED <<stored, saves>>
    BY <1>12 DEF HandleStoreFails
  <2>2. response'.to = c /\ response'.status # "ok"
    BY <2>1, ReplyIs DEF Status
  <2>3. UploadOK' /\ ResponseOK'
    BY <1>1, <1>3, <1>5, <2>1, <2>2, UploadKept, Refusal
  <2>4. Saved \in Blobs /\ Saved.rev = Next16(slots[SlotOf[c]].rev)
    BY <1>11, <2>1
  <2>5. CASE UNCHANGED <<stored, saves>>
    BY <1>3, <1>4, <2>1, <2>3, <2>5, DeviceKeeps DEF Keeps
  <2>6. CASE /\ saves < MaxSaves /\ saves' = saves + 1
             /\ stored' \in {stored, [stored EXCEPT ![SlotOf[c]] = Saved]}
    BY <1>3, <1>4, <2>1, <2>3, <2>4, <2>6, DeviceSaves
  <2> QED BY <2>1, <2>5, <2>6
<1>13. CASE HandleCommit(c)
  <2>1. /\ Committing(c) /\ saves < MaxSaves /\ saves' = saves + 1 /\ upload' = None
        /\ stored' = [stored EXCEPT ![SlotOf[c]] = Saved]
        /\ slots' = [slots EXCEPT ![SlotOf[c]] = Saved]
        /\ response' = Reply(c, "ok", Saved.rev, 0, <<>>)
    BY <1>13 DEF HandleCommit
  <2>2. response'.to = c /\ response'.cmd = "commit"
    BY <2>1, ReplyIs DEF Committing
  <2>3. UploadOK' /\ ResponseOK'
    BY <1>1, <1>3, <1>5, <2>1, <2>2, UploadKept, Refusal
  <2>4. Saved \in Blobs /\ Saved.rev = Next16(slots[SlotOf[c]].rev)
    BY <1>11, <2>1
  <2> QED BY <1>3, <1>4, <2>1, <2>3, <2>4, DeviceSaves
<1> QED
  BY <1>6, <1>7, <1>8, <1>9, <1>10, <1>12, <1>13 DEF Ask

-----------------------------------------------------------------------------
(* The steps of an application alone.                                      *)

\* Nothing of application d changes.
Aside(d) ==
  /\ task'[d] = task[d] /\ sent'[d] = sent[d] /\ want'[d] = want[d]
  /\ shown'[d] = shown[d] /\ part'[d] = part[d] /\ done'[d] = done[d]

\* What is to be shown of a step of one application that has no request out.
LEMMA LocalInv ==
  ASSUME Inv, NEW c \in Clients, UNCHANGED <<device, response, stopped, saves>>,
         ClientsOK', \A d \in Clients : d # c => Aside(d), ~sent'[c],
         upload # None /\ upload.token = c /\ task'[c] \in {"chunk", "commit"} =>
           Begins(upload.data, Chunks(want'[c])),
         shown'[c] = shown[c] \/ Known(c)',
         part'[c] = None \/ (part'[c] = part[c] /\ done'[c] = done[c]) \/ Joined(c)'
  PROVE  Inv'
<1>1. UNCHANGED <<slots, stored, upload, response, stopped, saves>>
  BY DEF device
<1>2. DeviceOK /\ ClientsOK /\ UploadOK /\ ResponseOK /\ ShownOK /\ PartOK
  BY DEF Inv
<1>3. DeviceOK' /\ Unambiguous
  BY <1>1, <1>2, DeviceKeeps DEF Keeps
<1>4. UploadOK'
  <2> SUFFICES ASSUME upload' # None PROVE UploadOK'
    BY DEF UploadOK
  <2>1. /\ upload' = upload /\ upload # None /\ upload \in Uploads
        /\ Len(upload.data) <= upload.total /\ stopped' = None
        /\ task[upload.token] \in {"chunk", "commit"} =>
             Begins(upload.data, Chunks(want[upload.token]))
        /\ HasBegun(upload.token) => upload.data = <<>>
    BY <1>1, <1>2 DEF UploadOK
  <2>2. PICK d \in Clients : d = upload.token
    BY <2>1 DEF Uploads
  <2>3. HasBegun(d)' => upload.data = <<>>
    <3>1. CASE d = c
      BY <3>1 DEF HasBegun
    <3>2. CASE d # c
      BY <1>1, <2>1, <2>2, <3>2 DEF HasBegun, Aside
    <3> QED BY <3>1, <3>2
  <2>4. task'[d] \in {"chunk", "commit"} => Begins(upload.data, Chunks(want'[d]))
    BY <2>1, <2>2 DEF Aside
  <2> QED BY <2>1, <2>2, <2>3, <2>4 DEF UploadOK, HasBegun
<1>5. ResponseOK'
  <2> SUFFICES ASSUME response' # None
               PROVE  /\ response'.to \in Clients
                      /\ sent'[response'.to] /\ response'.cmd = "read" /\ response'.status = "ok"
                           => ResponseOK'
    BY DEF ResponseOK
  <2>1. response' = response /\ response.to \in Clients
    BY <1>1, <1>2 DEF ResponseOK
  <2>2. CASE response.to = c
    BY <2>1, <2>2
  <2>3. CASE response.to # c
    <3>1. sent'[response.to] = sent[response.to] /\ Slot(response.to)' = Slot(response.to)
      BY <1>1, <2>1, <2>3 DEF Aside, Slot
    <3> QED BY <1>2, <2>1, <3>1 DEF ResponseOK
  <2> QED BY <2>2, <2>3
<1>6. \A d \in Clients :
        /\ shown'[d] = shown[d] /\ shown[d] # None => Known(d)'
        /\ part'[d] = part[d] /\ done'[d] = done[d] /\ part[d] # None => Joined(d)'
  BY <1>2, <1>3, SeenStays
<1>7. \A d \in Clients : d # c =>
        shown'[d] = shown[d] /\ part'[d] = part[d] /\ done'[d] = done[d]
  BY DEF Aside
<1>8. \A d \in Clients : shown'[d] # None => Known(d)'
  BY <1>6, <1>7
<1>9. \A d \in Clients : part'[d] # None => Joined(d)'
  BY <1>6, <1>7
<1>10. ShownOK' /\ PartOK'
  BY <1>8, <1>9 DEF ShownOK, PartOK, Known, Joined
<1> QED BY <1>3, <1>4, <1>5, <1>10 DEF Inv

\* An application that begins something else keeps nothing of what it was at.
LEMMA EndsOK ==
  ASSUME ClientsOK, NEW c \in Clients, NEW how \in Exchanges \cup {"idle", "saved"},
         Ends(c, how), sent' = [sent EXCEPT ![c] = FALSE],
         NEW seen \in Blobs \cup {None}, shown' = [shown EXCEPT ![c] = seen],
         how \in Uploading \cup {"verify"} => seen # None
  PROVE  /\ ClientsOK' /\ ~sent'[c] /\ part'[c] = None
         /\ \A d \in Clients : d # c => Aside(d)
         /\ task'[c] = how /\ (how \in Exchanges => want' = want)
<1>1. /\ task' = [task EXCEPT ![c] = how]
      /\ want' = IF how \in Exchanges THEN want ELSE [want EXCEPT ![c] = Default]
      /\ done' = [done EXCEPT ![c] = <<>>] /\ part' = [part EXCEPT ![c] = None]
  BY DEF Ends
<1>2. /\ task \in [Clients -> Exchanges \cup {"idle", "saved"}]
      /\ sent \in [Clients -> BOOLEAN] /\ want \in [Clients -> Macros]
      /\ shown \in [Clients -> Blobs \cup {None}] /\ done \in [Clients -> Seq(Pieces)]
      /\ part \in [Clients -> Parts \cup {None}]
  BY DEF ClientsOK
<1>3. /\ task' \in [Clients -> Exchanges \cup {"idle", "saved"}]
      /\ want' \in [Clients -> Macros]
      /\ shown' \in [Clients -> Blobs \cup {None}] /\ part' \in [Clients -> Parts \cup {None}]
  BY <1>1, <1>2, MacroUploadAssumption
<1>4. done' \in [Clients -> Seq(Pieces)] /\ sent' \in [Clients -> BOOLEAN]
  BY <1>1, <1>2
<1>5. \A d \in Clients : d # c => Aside(d)
  BY <1>1, <1>2 DEF Aside
<1>6. /\ task'[c] = how /\ sent'[c] = FALSE /\ shown'[c] = seen
      /\ done'[c] = <<>> /\ part'[c] = None
  BY <1>1, <1>2
<1>7. ASSUME NEW d \in Clients
      PROVE  /\ Free(d)' => ~sent'[d]
             /\ task'[d] \in Uploading \cup {"verify"} => shown'[d] # None
             /\ task'[d] \notin {"read", "verify", "chunk"} => done'[d] = <<>>
             /\ task'[d] \notin {"read", "verify"} => part'[d] = None
             /\ part'[d] = None /\ task'[d] # "chunk" => done'[d] = <<>>
  <2>1. CASE d = c
    BY <1>6, <2>1
  <2>2. CASE d # c
    BY <1>5, <2>2 DEF ClientsOK, Aside, Free
  <2> QED BY <2>1, <2>2
<1> QED BY <1>1, <1>3, <1>4, <1>5, <1>6, <1>7 DEF ClientsOK

\* An exchange ends and the application shows what it has shown.
LEMMA EndsInv ==
  ASSUME Inv, NEW c \in Clients, NEW how \in Exchanges \cup {"idle", "saved"},
         Ends(c, how), sent' = [sent EXCEPT ![c] = FALSE],
         UNCHANGED <<device, response, stopped, saves>>,
         NEW seen \in Blobs \cup {None}, shown' = [shown EXCEPT ![c] = seen],
         how \in Uploading \cup {"verify"} => seen # None,
         seen = shown[c] \/ Known(c)',
         upload # None /\ upload.token = c /\ how \in {"chunk", "commit"} =>
           Begins(upload.data, Chunks(want[c]))
  PROVE  Inv'
<1>1. /\ ClientsOK' /\ ~sent'[c] /\ part'[c] = None
      /\ \A d \in Clients : d # c => Aside(d)
      /\ task'[c] = how /\ (how \in Exchanges => want' = want)
  BY EndsOK DEF Inv
<1>2. shown'[c] = seen
  BY DEF Inv, ClientsOK
<1>3. upload # None /\ upload.token = c /\ task'[c] \in {"chunk", "commit"} =>
        Begins(upload.data, Chunks(want'[c]))
  BY <1>1 DEF Exchanges, Uploading
<1> QED BY <1>1, <1>2, <1>3, LocalInv

LEMMA ShownAsIs ==
  ASSUME ClientsOK, UNCHANGED shown, NEW c \in Clients
  PROVE  shown[c] \in Blobs \cup {None} /\ shown' = [shown EXCEPT ![c] = shown[c]]
BY DEF ClientsOK

LEMMA BeginInv ==
  ASSUME Inv, NEW c \in Clients, BeginRead(c) \/ BeginSave(c) \/ BeginStop(c)
  PROVE  Inv'
<1>1. PICK how \in {"read", "begin", "stop"} :
        /\ task' = [task EXCEPT ![c] = how]
        /\ how = "begin" => shown[c] # None
  BY DEF BeginRead, BeginSave, BeginStop
<1>2. /\ Free(c) /\ UNCHANGED <<device, response, sent, done, part, shown, stopped, counts>>
      /\ want' = want \/ \E m \in Macros : want' = [want EXCEPT ![c] = m]
  BY DEF BeginRead, BeginSave, BeginStop
<1>3. ClientsOK
  BY DEF Inv
<1>4. want' \in [Clients -> Macros] /\ \A d \in Clients : d # c => want'[d] = want[d]
  BY <1>2, <1>3 DEF ClientsOK
<1>5. \A d \in Clients : d # c => Aside(d)
  BY <1>1, <1>2, <1>3, <1>4 DEF ClientsOK, Aside
<1>6. task[c] \notin Exchanges /\ ~sent[c] /\ done[c] = <<>> /\ part[c] = None
  BY <1>2, <1>3 DEF ClientsOK, Free, Exchanges, Uploading
<1>7. task' \in [Clients -> Exchanges \cup {"idle", "saved"}] /\ task'[c] = how
  BY <1>1, <1>3 DEF ClientsOK, Exchanges, Uploading
<1>8. /\ sent' = sent /\ shown' = shown /\ done' = done /\ part' = part
      /\ UNCHANGED <<device, response, stopped, saves>>
  BY <1>2 DEF counts
<1>9. ClientsOK'
  <2>1. ASSUME NEW d \in Clients
        PROVE  /\ Free(d)' => ~sent'[d]
               /\ task'[d] \in Uploading \cup {"verify"} => shown'[d] # None
               /\ task'[d] \notin {"read", "verify", "chunk"} => done'[d] = <<>>
               /\ task'[d] \notin {"read", "verify"} => part'[d] = None
               /\ part'[d] = None /\ task'[d] # "chunk" => done'[d] = <<>>
    <3>1. CASE d = c
      BY <1>1, <1>6, <1>7, <1>8, <3>1 DEF Uploading
    <3>2. CASE d # c
      BY <1>3, <1>5, <3>2 DEF ClientsOK, Aside, Free
    <3> QED BY <3>1, <3>2
  <2> QED BY <1>3, <1>4, <1>7, <1>8, <2>1 DEF ClientsOK
<1>10. task'[c] \notin {"chunk", "commit"} /\ ~sent'[c]
  BY <1>6, <1>7, <1>8
<1> QED BY <1>5, <1>8, <1>9, <1>10, LocalInv

LEMMA RefusedInv ==
  ASSUME Inv, NEW c \in Clients, GetRefused(c) \/ GiveUp(c)
  PROVE  Inv'
<1>1. /\ Ends(c, "idle") /\ sent' = [sent EXCEPT ![c] = FALSE] /\ UNCHANGED shown
      /\ UNCHANGED <<device, response, stopped, saves>>
  BY DEF GetRefused, GiveUp, Taken, counts
<1>2. shown[c] \in Blobs \cup {None} /\ shown' = [shown EXCEPT ![c] = shown[c]]
  BY <1>1, ShownAsIs DEF Inv
<1>3. "idle" \in Exchanges \cup {"idle", "saved"} /\ "idle" \notin Uploading \cup {"verify"}
      /\ "idle" \notin {"chunk", "commit"}
  BY DEF Uploading
<1> QED BY <1>1, <1>2, <1>3, EndsInv

\* The piece that an application takes continues what it has read, and both are
\* of the macro in use.
LEMMA PieceIs ==
  ASSUME Inv, NEW c \in Clients, Taken(c), Cmd(c) = "read", Good(c)
  PROVE  /\ Received(c) \in Seq(Pieces) /\ Begins(Received(c), Slot(c).data)
         /\ response.rev = Slot(c).rev /\ response.total = Len(Slot(c).data)
         /\ Recent(c, Slot(c).rev)
<1>1. /\ ClientsOK /\ DeviceOK /\ Slot(c) \in Blobs
      /\ sent[c] /\ response # None /\ response.to = c /\ response.cmd = "read"
      /\ response.status = "ok" /\ response.offset = Offset(c)
      /\ part[c] \in {None, [rev |-> response.rev, total |-> response.total]}
      /\ Len(response.data) = 1
  BY SlotType DEF Inv, Taken, Good, Mine, PieceFits
<1>2. task[c] \in {"read", "verify"}
  BY <1>1 DEF Cmd, ClientsOK, Exchanges, Uploading
<1>3. PICK x \in Seq(Pieces) : x = done[c] /\ response.offset = Len(x)
  BY <1>1, <1>2 DEF Offset, ClientsOK
<1>4. PICK y \in Seq(Pieces) : y = Slot(c).data
  BY <1>1, BlobType
<1>5. /\ response.rev = Slot(c).rev /\ response.total = Len(y)
      /\ response.data \in Seq(Pieces) /\ response.offset < Len(y)
      /\ response.data[1] = y[response.offset + 1]
  BY <1>1, <1>4 DEF Inv, ResponseOK
<1>6. PICK z \in Pieces : z = response.data[1] /\ response.data = <<z>>
  BY <1>1, <1>5
<1>7. Begins(x, y)
  <2>1. CASE part[c] = None
    <3>1. done[c] = <<>>
      BY <1>1, <1>2, <2>1 DEF ClientsOK
    <3> QED BY <3>1, <1>3, <1>4 DEF Begins
  <2>2. CASE part[c] # None
    <3>1. part[c].rev = Slot(c).rev
      BY <1>1, <1>5, <2>2
    <3> QED BY <1>3, <1>4, <2>2, <3>1 DEF Inv, PartOK
  <2> QED BY <2>1, <2>2
<1>8. Len(x) < Len(y) /\ z = y[Len(x) + 1]
  BY <1>3, <1>5, <1>6
<1>9. Received(c) \in Seq(Pieces) /\ Begins(Received(c), y)
  <2>1. /\ Append(x, z) \in Seq(Pieces) /\ Begins(Append(x, z), y)
        /\ x \o <<z>> = Append(x, z)
    BY <1>7, <1>8, OneMore
  <2>2. Received(c) = x \o <<z>>
    BY <1>3, <1>6 DEF Received
  <2> QED BY <2>1, <2>2
<1>10. Recent(c, Slot(c).rev)
  <2>1. Slot(c).rev \in Revs /\ SlotOf[c] \in Slots
    BY <1>1, BlobType, SlotType
  <2>2. Steps(Slot(c).rev, Slot(c).rev) = 0
    BY <2>1, StepsType
  <2>3. Coming(SlotOf[c]) <= saves /\ Coming(SlotOf[c]) \in Nat
    BY <1>1, <2>1 DEF DeviceOK, Coming
  <2> QED BY <2>2, <2>3 DEF Recent
<1> QED BY <1>4, <1>5, <1>9, <1>10

LEMMA PieceInv ==
  ASSUME Inv, NEW c \in Clients, GetPiece(c)
  PROVE  Inv'
<1>1. /\ Taken(c) /\ Cmd(c) = "read" /\ Good(c) /\ sent' = [sent EXCEPT ![c] = FALSE]
      /\ done' = [done EXCEPT ![c] = Received(c)]
      /\ part' = [part EXCEPT ![c] = [rev |-> response.rev, total |-> response.total]]
      /\ UNCHANGED <<task, shown, want>>
      /\ UNCHANGED <<device, response, stopped, saves>>
  BY DEF GetPiece, Taken, counts
<1>2. /\ Received(c) \in Seq(Pieces) /\ Begins(Received(c), Slot(c).data)
      /\ response.rev = Slot(c).rev /\ response.total = Len(Slot(c).data)
      /\ Recent(c, Slot(c).rev)
  BY <1>1, PieceIs
<1>3. ClientsOK /\ Slot(c) \in Blobs
  BY SlotType DEF Inv
<1>4. task[c] \in {"read", "verify"}
  BY <1>1, <1>3 DEF Cmd, ClientsOK, Exchanges, Uploading
<1>5. Slot(c).rev \in Revs /\ Len(Slot(c).data) \in Nat
  BY <1>3, BlobType
<1>6. PICK whole \in Parts : whole = [rev |-> response.rev, total |-> response.total]
  BY <1>2, <1>5 DEF Parts
<1>7. /\ done'[c] = Received(c) /\ part'[c] = whole /\ sent'[c] = FALSE
      /\ whole # None /\ whole.rev = Slot(c).rev /\ whole.total = Len(Slot(c).data)
  <2>1. done'[c] = Received(c) /\ part'[c] = whole /\ sent'[c] = FALSE
    BY <1>1, <1>3, <1>6 DEF ClientsOK
  <2> QED BY <1>2, <1>6, <2>1, NoneAssumption
<1>8. \A d \in Clients : d # c => Aside(d)
  BY <1>1, <1>3 DEF ClientsOK, Aside
<1>9. ClientsOK'
  <2>1. done' \in [Clients -> Seq(Pieces)] /\ sent' \in [Clients -> BOOLEAN]
    BY <1>1, <1>2, <1>3 DEF ClientsOK
  <2>2. part' \in [Clients -> Parts \cup {None}]
    BY <1>1, <1>3, <1>6 DEF ClientsOK
  <2>3. ASSUME NEW d \in Clients
        PROVE  /\ Free(d)' => ~sent'[d]
               /\ task'[d] \in Uploading \cup {"verify"} => shown'[d] # None
               /\ task'[d] \notin {"read", "verify", "chunk"} => done'[d] = <<>>
               /\ task'[d] \notin {"read", "verify"} => part'[d] = None
               /\ part'[d] = None /\ task'[d] # "chunk" => done'[d] = <<>>
    <3>1. CASE d = c
      BY <1>1, <1>3, <1>4, <1>7, <3>1 DEF ClientsOK
    <3>2. CASE d # c
      BY <1>3, <1>8, <3>2 DEF ClientsOK, Aside, Free
    <3> QED BY <3>1, <3>2
  <2> QED BY <1>1, <1>3, <2>1, <2>2, <2>3 DEF ClientsOK
<1>10. Joined(c)'
  <2>1. Slot(c)' = Slot(c) /\ Coming(SlotOf[c])' = Coming(SlotOf[c]) /\ saves' = saves
    BY <1>1 DEF device, Slot, Coming, Boot
  <2> QED BY <1>2, <1>7, <2>1 DEF Joined, Recent, Begins
<1>11. task'[c] \notin {"chunk", "commit"}
  BY <1>1, <1>4
<1> QED BY <1>1, <1>7, <1>8, <1>9, <1>10, <1>11, LocalInv

\* What an application has read as a whole is the macro in use.
LEMMA WholeIs ==
  ASSUME Inv, NEW c \in Clients, GetLast(c)
  PROVE  /\ Received(c) = Slot(c).data /\ response.rev = Slot(c).rev
         /\ [rev |-> response.rev, data |-> Received(c)] = Slot(c)
         /\ Slot(c) \in Blobs /\ Recent(c, Slot(c).rev)
<1>1. Slot(c) \in Blobs
  BY SlotType DEF Inv
<1>2. /\ Received(c) \in Seq(Pieces) /\ Begins(Received(c), Slot(c).data)
      /\ response.rev = Slot(c).rev /\ Recent(c, Slot(c).rev)
      /\ Len(Received(c)) >= Len(Slot(c).data)
  BY PieceIs DEF GetLast
<1>3. Received(c) = Slot(c).data
  BY <1>1, <1>2, BlobType, WholeIsEqual
<1> QED BY <1>1, <1>2, <1>3, BlobType

LEMMA LastInv ==
  ASSUME Inv, NEW c \in Clients, GetLast(c)
  PROVE  Inv'
<1>1. PICK how \in {"idle", "saved"} :
        /\ Ends(c, how)
        /\ \/ UNCHANGED shown
           \/ shown' = [shown EXCEPT ![c] = [rev |-> response.rev, data |-> Received(c)]]
  BY DEF GetLast
<1>2. /\ sent' = [sent EXCEPT ![c] = FALSE] /\ UNCHANGED <<device, response, stopped, saves>>
  BY DEF GetLast, Taken, counts
<1>3. how \in Exchanges \cup {"idle", "saved"} /\ how \notin Uploading \cup {"verify"}
      /\ how \notin {"chunk", "commit"}
  BY DEF Uploading
<1>4. CASE UNCHANGED shown
  <2>1. shown[c] \in Blobs \cup {None} /\ shown' = [shown EXCEPT ![c] = shown[c]]
    BY <1>4, ShownAsIs DEF Inv
  <2> QED BY <1>1, <1>2, <1>3, <2>1, EndsInv
<1>5. CASE shown' = [shown EXCEPT ![c] = [rev |-> response.rev, data |-> Received(c)]]
  <2>1. /\ [rev |-> response.rev, data |-> Received(c)] = Slot(c)
        /\ Slot(c) \in Blobs /\ Recent(c, Slot(c).rev)
    BY WholeIs
  <2>2. PICK blob \in Blobs : blob = Slot(c)
    BY <2>1
  <2>3. shown' = [shown EXCEPT ![c] = blob] /\ shown'[c] = blob
    BY <1>5, <2>1, <2>2 DEF Inv, ClientsOK
  <2>4. Slot(c)' = Slot(c) /\ Coming(SlotOf[c])' = Coming(SlotOf[c]) /\ saves' = saves
    BY <1>2 DEF device, Slot, Coming, Boot
  <2>5. Known(c)'
    BY <2>1, <2>2, <2>3, <2>4 DEF Known, Recent
  <2> QED BY <1>1, <1>2, <1>3, <2>2, <2>3, <2>5, EndsInv
<1> QED BY <1>1, <1>4, <1>5

LEMMA DoneInv ==
  ASSUME Inv, NEW c \in Clients, GetDone(c)
  PROVE  Inv'
<1>0. sent[c] /\ Good(c)
  BY DEF GetDone, Taken
<1>1. /\ sent' = [sent EXCEPT ![c] = FALSE] /\ UNCHANGED shown
      /\ UNCHANGED <<device, response, stopped, saves>>
  BY DEF GetDone, Taken, counts
<1>2. ClientsOK /\ UploadOK
  BY DEF Inv
<1>3. shown[c] \in Blobs \cup {None} /\ shown' = [shown EXCEPT ![c] = shown[c]]
  BY <1>1, <1>2, ShownAsIs
<1>4. task[c] \in Uploading \cup {"verify"} => shown[c] # None
  BY <1>2 DEF ClientsOK
<1>5. CASE task[c] = "begin" /\ Ends(c, "chunk")
  <2>1. HasBegun(c)
    BY <1>0, <1>5 DEF Good, Mine, Cmd, HasBegun
  <2>2. upload # None /\ upload.token = c => Begins(upload.data, Chunks(want[c]))
    <3>1. SUFFICES Begins(<<>>, Chunks(want[c]))
      BY <1>2, <2>1 DEF UploadOK
    <3>2. Len(Chunks(want[c])) \in Nat
      BY <1>2, ChunksType DEF ClientsOK
    <3> QED BY <3>2 DEF Begins
  <2>3. shown[c] # None
    BY <1>4, <1>5 DEF Uploading
  <2>4. "chunk" \in Exchanges \cup {"idle", "saved"}
    BY DEF Exchanges, Uploading
  <2> QED BY <1>1, <1>3, <1>5, <2>2, <2>3, <2>4, EndsInv
<1>6. CASE /\ task[c] = "chunk" /\ done' = [done EXCEPT ![c] = SubSeq(Chunks(want[c]), 1, Offset(c) + 1)]
           /\ Offset(c) + 1 < Total(c)
           /\ UNCHANGED <<task, part, want>>
  <2>1. PICK x \in Seq(Pieces) : x = SubSeq(Chunks(want[c]), 1, Offset(c) + 1)
    <3>1. PICK y \in Seq(Pieces) : y = Chunks(want[c]) /\ Len(y) = Total(c)
      BY <1>2, ChunksType DEF ClientsOK, Total
    <3>2. PICK n \in Nat : n = Offset(c)
      BY <1>2 DEF Offset, ClientsOK
    <3>3. n + 1 <= Len(y)
      BY <1>6, <3>1, <3>2
    <3>4. SubSeq(y, 1, n + 1) \in Seq(Pieces)
      BY <3>1, <3>2, <3>3
    <3> QED BY <3>1, <3>2, <3>4
  <2>2. done' = [done EXCEPT ![c] = x]
    BY <1>6, <2>1
  <2>3. done' \in [Clients -> Seq(Pieces)] /\ sent' \in [Clients -> BOOLEAN]
    BY <1>1, <1>2, <2>2 DEF ClientsOK
  <2>4. sent'[c] = FALSE /\ task' = task /\ part' = part /\ want' = want /\ shown' = shown
    BY <1>1, <1>2, <1>6 DEF ClientsOK
  <2>5. \A d \in Clients : d # c => Aside(d)
    BY <1>1, <1>2, <2>2, <2>4 DEF ClientsOK, Aside
  <2>6. ClientsOK'
    <3>1. ASSUME NEW d \in Clients
          PROVE  /\ Free(d)' => ~sent'[d]
                 /\ task'[d] \in Uploading \cup {"verify"} => shown'[d] # None
                 /\ task'[d] \notin {"read", "verify", "chunk"} => done'[d] = <<>>
                 /\ task'[d] \notin {"read", "verify"} => part'[d] = None
                 /\ part'[d] = None /\ task'[d] # "chunk" => done'[d] = <<>>
      <4>1. CASE d = c
        BY <1>2, <1>6, <2>4, <4>1 DEF ClientsOK
      <4>2. CASE d # c
        BY <1>2, <2>5, <4>2 DEF ClientsOK, Aside, Free
      <4> QED BY <4>1, <4>2
    <3> QED BY <1>2, <2>3, <2>4, <3>1 DEF ClientsOK
  <2>7. upload # None /\ upload.token = c => Begins(upload.data, Chunks(want'[c]))
    BY <1>2, <1>6, <2>4 DEF UploadOK
  <2>8. part'[c] = None
    BY <1>2, <1>6, <2>4 DEF ClientsOK
  <2> QED BY <1>1, <2>4, <2>5, <2>6, <2>7, <2>8, LocalInv
<1>7. CASE task[c] = "chunk" /\ Ends(c, "commit")
  <2>1. upload # None /\ upload.token = c => Begins(upload.data, Chunks(want[c]))
    BY <1>2, <1>7 DEF UploadOK
  <2>2. shown[c] # None
    BY <1>4, <1>7 DEF Uploading
  <2>3. "commit" \in Exchanges \cup {"idle", "saved"}
    BY DEF Exchanges, Uploading
  <2> QED BY <1>1, <1>3, <1>7, <2>1, <2>2, <2>3, EndsInv
<1>8. CASE task[c] = "commit" /\ Ends(c, "verify")
  <2>1. shown[c] # None
    BY <1>4, <1>8 DEF Uploading
  <2>2. "verify" \in Exchanges \cup {"idle", "saved"} /\ "verify" \notin {"chunk", "commit"}
    BY DEF Exchanges, Uploading
  <2> QED BY <1>1, <1>3, <1>8, <2>1, <2>2, EndsInv
<1>9. CASE Ends(c, "idle")
  <2>1. "idle" \in Exchanges \cup {"idle", "saved"} /\ "idle" \notin Uploading \cup {"verify"}
        /\ "idle" \notin {"chunk", "commit"}
    BY DEF Uploading
  <2> QED BY <1>1, <1>3, <1>9, <2>1, EndsInv
<1>10. \/ task[c] = "begin" /\ Ends(c, "chunk")
       \/ /\ task[c] = "chunk" /\ Offset(c) + 1 < Total(c)
          /\ done' = [done EXCEPT ![c] = SubSeq(Chunks(want[c]), 1, Offset(c) + 1)]
          /\ UNCHANGED <<task, part, want>>
       \/ task[c] = "chunk" /\ Ends(c, "commit")
       \/ task[c] = "commit" /\ Ends(c, "verify")
       \/ Ends(c, "idle")
  BY DEF GetDone
<1> QED BY <1>5, <1>6, <1>7, <1>8, <1>9, <1>10

-----------------------------------------------------------------------------
(* What happens between requests.                                          *)

\* The upload changes while nobody asks.
LEMMA BetweenInv ==
  ASSUME Inv, UNCHANGED <<slots, stored, response, clients, counts>>, UploadOK'
  PROVE  Inv'
<1>1. UNCHANGED <<task, sent, done, part, shown, want, saves>>
  BY DEF clients, counts
<1>2. DeviceOK' /\ Unambiguous
  BY <1>1, DeviceKeeps DEF Inv, Keeps
<1>3. ClientsOK'
  BY <1>1 DEF Inv, ClientsOK, Free
<1>4. ResponseOK'
  BY <1>1 DEF Inv, ResponseOK, Slot
<1>5. \A c \in Clients :
        /\ shown'[c] # None => Known(c)'
        /\ part'[c] # None => Joined(c)'
  BY <1>1, <1>2, SeenStays DEF Inv
<1>6. ShownOK' /\ PartOK'
  BY <1>5 DEF ShownOK, PartOK, Known, Joined
<1> QED BY <1>2, <1>3, <1>4, <1>6 DEF Inv

LEMMA ExpireInv ==
  ASSUME Inv, Expire
  PROVE  Inv'
<1>1. /\ upload # None /\ upload' = [upload EXCEPT !.expired = TRUE]
      /\ UNCHANGED <<slots, stored, response, clients, counts>>
      /\ UNCHANGED <<task, sent, want, response, stopped>>
  BY DEF Expire, clients
<1>2. /\ upload \in Uploads /\ Len(upload.data) <= upload.total /\ stopped = None
      /\ task[upload.token] \in {"chunk", "commit"} =>
           Begins(upload.data, Chunks(want[upload.token]))
      /\ HasBegun(upload.token) => upload.data = <<>>
  BY <1>1 DEF Inv, UploadOK
<1>3. upload' \in Uploads /\ upload'.token = upload.token /\ upload'.data = upload.data
      /\ upload'.total = upload.total
  BY <1>1, <1>2 DEF Uploads
<1>4. UploadOK'
  <2>1. PICK d \in Clients : d = upload.token
    BY <1>2 DEF Uploads
  <2>2. HasBegun(d)' => HasBegun(d)
    BY <1>1 DEF HasBegun
  <2> QED BY <1>1, <1>2, <1>3, <2>1, <2>2 DEF UploadOK, HasBegun, Begins
<1> QED BY <1>1, <1>4, BetweenInv

LEMMA HostInv ==
  ASSUME Inv, HostChanges
  PROVE  Inv'
<1>1. upload' = None /\ UNCHANGED <<slots, stored, response, clients, counts>>
  BY DEF HostChanges, Cancel
<1>2. UploadOK'
  BY <1>1 DEF UploadOK
<1> QED BY <1>1, <1>2, BetweenInv

LEMMA RestartInv ==
  ASSUME Inv, Restart
  PROVE  Inv'
<1>1. /\ slots' = [s \in Slots |-> Boot(s)] /\ UNCHANGED <<stored, saves>>
      /\ upload' = None /\ response' = None /\ UNCHANGED shown
  BY DEF Restart
<1>2. /\ task' = [c \in Clients |-> IF Free(c) THEN task[c] ELSE "idle"]
      /\ sent' = [c \in Clients |-> FALSE] /\ want' = [c \in Clients |-> Default]
      /\ done' = [c \in Clients |-> <<>>] /\ part' = [c \in Clients |-> None]
  BY DEF Restart
<1>3. ClientsOK
  BY DEF Inv
<1>4. DeviceOK' /\ Unambiguous
  BY <1>1, DeviceRestarts DEF Inv
<1>5. ClientsOK'
  <2>1. \A c \in Clients : task'[c] \notin Exchanges /\ task'[c] \in {"idle", "saved"}
    BY <1>2, <1>3 DEF ClientsOK, Free, Exchanges, Uploading
  <2>2. task' \in [Clients -> Exchanges \cup {"idle", "saved"}]
    BY <1>2, <2>1
  <2>3. want' \in [Clients -> Macros]
    BY <1>2, MacroUploadAssumption
  <2>4. sent' \in [Clients -> BOOLEAN] /\ done' \in [Clients -> Seq(Pieces)]
        /\ part' \in [Clients -> Parts \cup {None}]
        /\ shown' \in [Clients -> Blobs \cup {None}]
    BY <1>1, <1>2, <1>3 DEF ClientsOK
  <2>5. \A c \in Clients : ~sent'[c] /\ done'[c] = <<>> /\ part'[c] = None
    BY <1>2
  <2> QED BY <2>1, <2>2, <2>3, <2>4, <2>5 DEF ClientsOK, Uploading
<1>6. UploadOK' /\ ResponseOK'
  BY <1>1 DEF UploadOK, ResponseOK
<1>7. \A c \in Clients : shown'[c] # None => Known(c)'
  BY <1>1, <1>3, <1>4, SeenStays DEF Inv
<1>8. ShownOK' /\ PartOK'
  BY <1>2, <1>7 DEF ShownOK, PartOK, Known
<1> QED BY <1>4, <1>5, <1>6, <1>8 DEF Inv

LEMMA StepInv == Inv /\ [Next]_vars => Inv'
<1> SUFFICES ASSUME Inv, [Next]_vars PROVE Inv'
  OBVIOUS
<1>1. ASSUME NEW c \in Clients, Client(c) PROVE Inv'
  BY <1>1, BeginInv, AskInv, RefusedInv, PieceInv, LastInv, DoneInv DEF Client
<1>2. CASE UNCHANGED vars
  <2>1. UNCHANGED <<slots, stored, upload, response, clients, stopped, counts>>
    BY <1>2 DEF vars, device
  <2>2. UNCHANGED <<task, sent, want>>
    BY <2>1 DEF clients
  <2>3. UploadOK'
    BY <2>1, <2>2 DEF Inv, UploadOK, HasBegun
  <2> QED BY <2>1, <2>3, BetweenInv
<1> QED BY <1>1, <1>2, ExpireInv, HostInv, RestartInv DEF Next

LEMMA AlwaysInv == Spec => []Inv
<1> QED BY InitInv, StepInv, PTL DEF Spec

-----------------------------------------------------------------------------
(* The theorems.                                                           *)

\* No macro is put together from two, neither by the bridge (macro_request) nor
\* by the reader of one (MacroProtocol.read).
THEOREM MacrosAreWhole == Spec => []UploadSafety
<1>1. ASSUME Inv PROVE UploadSafety
  <2>1. \A s \in Slots : slots[s] \in Blobs /\ stored[s] \in Blobs \cup {None}
    BY <1>1 DEF Inv, DeviceOK
  <2>2. \A s \in Slots : /\ slots[s].rev \in Revs /\ slots[s].data \in Contents
                         /\ stored[s] # None => stored[s].rev \in Revs /\ stored[s].data \in Contents
    BY <2>1, BlobType
  <2>3. upload = None \/ /\ upload.token \in Clients /\ upload.expired \in BOOLEAN
                         /\ Len(upload.data) <= upload.total
    BY <1>1 DEF Inv, UploadOK, Uploads
  <2>4. TypeOK
    BY <1>1, <2>2, <2>3 DEF TypeOK, Inv, ClientsOK, Revs
  <2>5. CommitIsWhole
    BY <2>2 DEF CommitIsWhole
  <2>6. ShownIsCurrent
    BY <1>1 DEF ShownIsCurrent, Inv, ShownOK
  <2> QED BY <2>4, <2>5, <2>6 DEF UploadSafety
<1> QED BY <1>1, AlwaysInv, PTL

\* A commit (macro_request, MACRO_COMMIT) is of an upload begun by the same
\* application after the last macro_cancel, over the macro that it has read.
THEOREM CommitIsOwn == Spec => CommitsAreOwn
<1>1. ASSUME Inv, NEW c \in Clients, HandleCommit(c)
      PROVE  stopped # c /\ shown[c].data = Slot(c).data
  <2>1. /\ Cmd(c) = "commit" /\ shown[c].rev = Slot(c).rev /\ upload # None
    BY <1>1 DEF HandleCommit, Committing, Complete, MyUpload, SameRevision
  <2>2. task[c] = "commit"
    BY <1>1, <2>1 DEF Cmd, Inv, ClientsOK
  <2>3. shown[c] # None
    BY <1>1, <2>2 DEF Inv, ClientsOK, Uploading
  <2>4. shown[c].data = Slot(c).data
    BY <1>1, <2>1, <2>3 DEF Inv, ShownOK
  <2>5. stopped = None
    BY <1>1, <2>1 DEF Inv, UploadOK
  <2> QED BY <2>4, <2>5, NoneAssumption
<1>2. Inv => [\A c \in Clients : HandleCommit(c) => stopped # c]_vars
  BY <1>1
<1>3. Inv => [\A c \in Clients : HandleCommit(c) => shown[c].data = Slot(c).data]_vars
  BY <1>1
<1> QED BY <1>2, <1>3, AlwaysInv, PTL DEF CommitsAreOwn, StopDiscards, NoLostMacro

\* An application that is told so (MacroProtocol.save returns) finds the macro
\* in flash, or the one saved after it.
THEOREM SavedMacroIsThere == Spec => SavedIsStored
<1>1. ASSUME Inv, NEW c \in Clients, GetLast(c), task'[c] = "saved"
      PROVE  \/ Boot(SlotOf[c]) = [rev |-> Next16(shown[c].rev), data |-> Chunks(want[c])]
             \/ Boot(SlotOf[c]).rev = Next16(Next16(shown[c].rev))
  <2>1. task[c] \in Exchanges \cup {"idle", "saved"} /\ task \in [Clients -> Exchanges \cup {"idle", "saved"}]
    BY <1>1 DEF Inv, ClientsOK
  <2>2. task[c] = "verify" /\ Verified(c)
    <3>1. \/ task[c] = "verify" /\ ~Verified(c) /\ task' = [task EXCEPT ![c] = "idle"]
          \/ task[c] = "verify" /\ Verified(c)
          \/ task[c] # "verify" /\ task' = [task EXCEPT ![c] = "idle"]
      BY <1>1 DEF GetLast, Ends
    <3>2. task' = [task EXCEPT ![c] = "idle"] => task'[c] = "idle"
      BY <2>1
    <3> QED BY <1>1, <3>1, <3>2
  <2>3. Slot(c) = [rev |-> Next16(shown[c].rev), data |-> Chunks(want[c])]
    BY <1>1, <2>2, WholeIs DEF Verified
  <2>4. SlotOf[c] \in Slots /\ Slot(c) = slots[SlotOf[c]]
    BY <1>1, SlotType DEF Inv
  <2>5. Boot(SlotOf[c]) = Slot(c) \/ Boot(SlotOf[c]).rev = Next16(Slot(c).rev)
    BY <1>1, <2>4 DEF Inv, DeviceOK
  <2>6. Slot(c).rev = Next16(shown[c].rev)
    BY <2>3
  <2> QED BY <2>3, <2>5, <2>6
<1>2. Inv => [\A c \in Clients :
                GetLast(c) /\ task'[c] = "saved" =>
                  \/ Boot(SlotOf[c]) =
                       [rev |-> Next16(shown[c].rev), data |-> Chunks(want[c])]
                  \/ Boot(SlotOf[c]).rev = Next16(Next16(shown[c].rev))]_vars
  BY <1>1
<1> QED BY <1>2, AlwaysInv, PTL DEF SavedIsStored

=============================================================================
