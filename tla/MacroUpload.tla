---------------------------- MODULE MacroUpload ----------------------------
(***************************************************************************)
(* Macros on their way between applications (macros.py) and the bridge     *)
(* (macro.c, macro_store.c).                                               *)
(*                                                                         *)
(* A macro is longer than a report: it is read and written in chunks.  The *)
(* bridge has one upload buffer and one response buffer, which all         *)
(* applications share; what tells them apart is the random token of each   *)
(* upload and each request.  Tokens of different applications differ here. *)
(* Requests are handled one at a time (module Feature), but anything may   *)
(* happen between two of them: a stop, another application, ten seconds of *)
(* silence, a power cut.                                                   *)
(***************************************************************************)
EXTENDS Integers, Sequences

CONSTANTS
  Clients,       \* applications, standing for their tokens too
  Slots, SlotOf, \* the slot each application works on
  Macros, Size,  \* macros and their lengths in chunks
  Default,       \* the macro of an empty slot
  Revisions,     \* 2^16
  None,
  StartRevs,     \* bound: revisions that blobs have at the start
  MaxSaves,      \* bound: commits that reach the flash
  MaxMishaps     \* bound: transfers that fail, cancellations, power cuts

ASSUME MacroUploadAssumption ==
  /\ SlotOf \in [Clients -> Slots]
  /\ Size \in [Macros -> Nat \ {0}] /\ Default \in Macros
  /\ Revisions \in Nat \ {0} /\ StartRevs \subseteq 0..Revisions - 1
  /\ MaxSaves \in Nat /\ MaxSaves < Revisions

VARIABLES
  slots,         \* per slot: the macro in use, with its revision
  stored,        \* per slot: the blob in flash, or None
  upload,        \* the upload buffer, or None when it is not active
  response,      \* the response buffer
  task,          \* per application: the exchange it is at, or how it ended
  sent,          \* per application: the request is sent, the answer not read
  done,          \* per application: chunks transferred so far
  part,          \* per application: revision and length of the first piece
  shown,         \* per application: the macro it has read
  want,          \* per application: the macro it saves
  stopped,       \* ghost: whose upload macro_cancel has dropped, or None
  saves, mishaps

device  == <<slots, stored, upload>>
clients == <<task, sent, done, part, shown, want>>
counts  == <<saves, mishaps>>
vars    == <<device, response, clients, stopped, counts>>

-----------------------------------------------------------------------------
(* Data.                                                                   *)

Chunks(m) == [i \in 1..Size[m] |-> <<m, i>>]

Contents == {Chunks(m) : m \in Macros}

Revs  == 0..Revisions - 1
Blobs == [rev : Revs, data : Contents]
Parts == [rev : Revs, total : Nat]

ASSUME NoneAssumption == None \notin Clients \cup Blobs \cup Parts

\* Mutant: the revision does not wrap.
Next16_Unwrapped(rev) == rev + 1

Next16(rev) == (rev + 1) % Revisions

Uploading == {"begin", "chunk", "commit"}
Exchanges == Uploading \cup {"read", "verify", "stop"}

\* The request of an application.  Its slot and its token are those of the
\* application; reads ignore revision and total.
Cmd(c)    == IF task[c] = "verify" THEN "read" ELSE task[c]
Offset(c) == IF task[c] \in {"read", "verify", "chunk"} THEN Len(done[c]) ELSE 0
Total(c)  == Size[want[c]]
Slot(c)   == slots[SlotOf[c]]

\* The response: it repeats what identifies the request.
Reply(c, status, rev, total, data) ==
  [to |-> c, cmd |-> Cmd(c), offset |-> Offset(c),
   status |-> status, rev |-> rev, total |-> total, data |-> data]

Status(c, status) == Reply(c, status, Slot(c).rev, 0, <<>>)

-----------------------------------------------------------------------------
\* What macro_init finds: the blob, or an empty macro of revision 0.
Boot(s) ==
  IF stored[s] # None THEN stored[s] ELSE [rev |-> 0, data |-> Chunks(Default)]

Init ==
  /\ stored \in [Slots -> [rev : StartRevs, data : Contents] \cup {None}]
  /\ slots = [s \in Slots |-> Boot(s)]
  /\ upload = None
  /\ response = None
  /\ task = [c \in Clients |-> "idle"] /\ sent = [c \in Clients |-> FALSE]
  /\ done = [c \in Clients |-> <<>>] /\ part = [c \in Clients |-> None]
  /\ shown = [c \in Clients |-> None]
  /\ want = [c \in Clients |-> Default]
  /\ stopped = None
  /\ saves = 0 /\ mishaps = 0

-----------------------------------------------------------------------------
(* macro_request, one action for each way it ends.                         *)

Keeps == UNCHANGED <<slots, stored, saves>>

\* Mutant: a stop leaves the upload as it is.
Cancel_KeepsUpload ==
  /\ UNCHANGED upload
  /\ stopped' = IF upload = None THEN None ELSE upload.token

\* macro_cancel: the upload is dropped; what runs still has to release its keys.
Cancel ==
  /\ upload' = None
  /\ stopped' = IF upload = None THEN None ELSE upload.token

HandleStop(c) ==
  /\ Cmd(c) = "stop" /\ Cancel
  /\ response' = Status(c, "ok")
  /\ Keeps

HandleRead(c) ==
  LET held == Slot(c)
      size == Len(held.data)
      at   == Offset(c)
      end  == IF at < size THEN at + 1 ELSE size
  IN /\ Cmd(c) = "read"
     /\ response' = IF at > size THEN Status(c, "invalid")
                    ELSE Reply(c, "ok", held.rev, size,
                               SubSeq(held.data, at + 1, end))
     /\ UNCHANGED <<upload, stopped>> /\ Keeps

\* Mutant: revisions are not compared.
SameRevision_Always(c) == TRUE

SameRevision(c) == shown[c].rev = Slot(c).rev

HandleConflict(c) ==
  /\ Cmd(c) \in Uploading /\ ~SameRevision(c)
  /\ response' = Status(c, "conflict")
  /\ UNCHANGED <<upload, stopped>> /\ Keeps

Begun(c) ==
  [token |-> c, rev |-> shown[c].rev, total |-> Total(c), expired |-> FALSE,
   data |-> <<>>]

HandleBegin(c) ==
  /\ Cmd(c) = "begin" /\ SameRevision(c)
  /\ upload' = Begun(c)
  /\ stopped' = None
  /\ response' = Status(c, "ok")
  /\ Keeps

\* Mutant: the token is not compared.
MyUpload_AnyToken(c) ==
  /\ upload # None /\ ~upload.expired
  /\ upload.rev = shown[c].rev /\ upload.total = Total(c)

\* The upload in the buffer is the one the request belongs to, and not too old.
MyUpload(c) ==
  /\ upload # None /\ ~upload.expired /\ upload.token = c
  /\ upload.rev = shown[c].rev /\ upload.total = Total(c)

NextChunk(c) == Offset(c) = Len(upload.data) /\ Offset(c) < Total(c)

HandleChunk(c) ==
  /\ Cmd(c) = "chunk" /\ SameRevision(c) /\ MyUpload(c) /\ NextChunk(c)
  /\ upload' = [upload EXCEPT
                  !.data = Append(@, Chunks(want[c])[Offset(c) + 1])]
  /\ response' = Status(c, "ok")
  /\ UNCHANGED stopped /\ Keeps

Complete(c) == MyUpload(c) /\ Len(upload.data) = Total(c)

HandleInvalid(c) ==
  /\ \/ Cmd(c) = "chunk" /\ SameRevision(c) /\ ~(MyUpload(c) /\ NextChunk(c))
     \/ Cmd(c) = "commit" /\ SameRevision(c) /\ ~Complete(c)
  /\ response' = Status(c, "invalid")
  /\ UNCHANGED <<upload, stopped>> /\ Keeps

Committing(c) == Cmd(c) = "commit" /\ SameRevision(c) /\ Complete(c)

\* A macro runs (the input engine's state: here it may run at any commit).
HandleBusy(c) ==
  /\ Committing(c)
  /\ response' = Status(c, "busy")
  /\ UNCHANGED <<upload, stopped>> /\ Keeps

\* The blob of a commit.
Saved == [rev |-> Next16(upload.rev), data |-> upload.data]

\* macro_storage_save fails and may have written or not.  Once MaxSaves is
\* reached, every further save fails and writes nothing.
HandleStoreFails(c) ==
  /\ Committing(c)
  /\ \/ /\ saves < MaxSaves /\ saves' = saves + 1
        /\ stored' \in {stored, [stored EXCEPT ![SlotOf[c]] = Saved]}
     \/ saves = MaxSaves /\ UNCHANGED <<stored, saves>>
  /\ response' = Status(c, "storage")
  /\ UNCHANGED <<slots, upload, stopped>>

\* Mutant: the blob is stored under the revision it replaces.
HandleCommit_OldRevision(c) ==
  /\ Committing(c)
  /\ saves < MaxSaves /\ saves' = saves + 1
  /\ stored' = [stored EXCEPT ![SlotOf[c]] = [Saved EXCEPT !.rev = upload.rev]]
  /\ slots' = [slots EXCEPT ![SlotOf[c]] = Saved]
  /\ upload' = None
  /\ response' = Reply(c, "ok", Saved.rev, 0, <<>>)
  /\ UNCHANGED stopped

HandleCommit(c) ==
  /\ Committing(c)
  /\ saves < MaxSaves /\ saves' = saves + 1
  /\ stored' = [stored EXCEPT ![SlotOf[c]] = Saved]
  /\ slots' = [slots EXCEPT ![SlotOf[c]] = Saved]
  /\ upload' = None
  /\ response' = Reply(c, "ok", Saved.rev, 0, <<>>)
  /\ UNCHANGED stopped

\* exchange: the request is sent, and handled before the answer is read.
Ask(c) ==
  /\ task[c] \in Exchanges /\ ~sent[c]
  /\ sent' = [sent EXCEPT ![c] = TRUE]
  /\ \/ HandleStop(c) \/ HandleRead(c) \/ HandleConflict(c)
     \/ HandleBegin(c) \/ HandleChunk(c) \/ HandleInvalid(c)
     \/ HandleBusy(c) \/ HandleStoreFails(c) \/ HandleCommit(c)
  /\ UNCHANGED <<task, done, part, shown, want, mishaps>>

-----------------------------------------------------------------------------
(* MacroProtocol.                                                          *)

Free(c) == task[c] \notin Exchanges

BeginRead(c) ==
  /\ Free(c)
  /\ task' = [task EXCEPT ![c] = "read"]
  /\ UNCHANGED <<device, response, sent, done, part, shown, want, stopped, counts>>

BeginSave(c) ==
  /\ Free(c) /\ shown[c] # None
  /\ task' = [task EXCEPT ![c] = "begin"]
  /\ \E m \in Macros : want' = [want EXCEPT ![c] = m]
  /\ UNCHANGED <<device, response, sent, done, part, shown, stopped, counts>>

BeginStop(c) ==
  /\ Free(c)
  /\ task' = [task EXCEPT ![c] = "stop"]
  /\ UNCHANGED <<device, response, sent, done, part, shown, want, stopped, counts>>

\* The response is the one to the request of this application.
Mine(c) ==
  /\ response # None
  /\ response.to = c /\ response.cmd = Cmd(c) /\ response.offset = Offset(c)

\* Mutant: pieces of different revisions are put together.
PieceFits_Any(c) == Len(response.data) = 1

\* The piece has the length it must have, and is of the macro of the others.
PieceFits(c) ==
  /\ part[c] \in {None, [rev |-> response.rev, total |-> response.total]}
  /\ Len(response.data) = 1

Good(c) ==
  /\ Mine(c) /\ response.status = "ok"
  /\ Cmd(c) = "read" => PieceFits(c)

\* The exchanges of an application end, or it goes on with new ones; the
\* macro it saves is an argument of the call.
Ends(c, how) ==
  /\ task' = [task EXCEPT ![c] = how]
  /\ want' = IF how \in Exchanges THEN want ELSE [want EXCEPT ![c] = Default]
  /\ done' = [done EXCEPT ![c] = <<>>]
  /\ part' = [part EXCEPT ![c] = None]

Taken(c) == sent[c] /\ sent' = [sent EXCEPT ![c] = FALSE]

GetRefused(c) ==
  /\ Taken(c) /\ ~Good(c)
  /\ Ends(c, "idle")
  /\ UNCHANGED <<device, response, shown, stopped, counts>>

\* The data read so far, with the piece just received.
Received(c) == done[c] \o response.data

GetPiece(c) ==
  /\ Taken(c) /\ Cmd(c) = "read" /\ Good(c)
  /\ Len(Received(c)) < response.total
  /\ done' = [done EXCEPT ![c] = Received(c)]
  /\ part' = [part EXCEPT ![c] =
                [rev |-> response.rev, total |-> response.total]]
  /\ UNCHANGED <<device, response, task, shown, want, stopped, counts>>

\* What was read back is what was sent, one revision later.
Verified(c) ==
  response.rev = Next16(shown[c].rev) /\ Received(c) = Chunks(want[c])

GetLast(c) ==
  /\ Taken(c) /\ Cmd(c) = "read" /\ Good(c)
  /\ Len(Received(c)) >= response.total
  /\ IF task[c] = "verify" /\ ~Verified(c)
     THEN Ends(c, "idle") /\ UNCHANGED shown
     ELSE /\ Ends(c, IF task[c] = "verify" THEN "saved" ELSE "idle")
          /\ shown' = [shown EXCEPT ![c] =
                         [rev |-> response.rev, data |-> Received(c)]]
  /\ UNCHANGED <<device, response, stopped, counts>>

GetDone(c) ==
  /\ Taken(c) /\ Cmd(c) # "read" /\ Good(c)
  /\ \/ task[c] = "begin" /\ Ends(c, "chunk")
     \/ /\ task[c] = "chunk" /\ Offset(c) + 1 < Total(c)
        /\ done' = [done EXCEPT ![c] = SubSeq(Chunks(want[c]), 1, Offset(c) + 1)]
        /\ UNCHANGED <<task, part, want>>
     \/ task[c] = "chunk" /\ Offset(c) + 1 = Total(c) /\ Ends(c, "commit")
     \/ task[c] = "commit" /\ Ends(c, "verify")
     \/ task[c] = "stop" /\ Ends(c, "idle")
  /\ UNCHANGED <<device, response, shown, stopped, counts>>

\* A transfer fails, before or after its request was handled, or exchange
\* raises because the user has cancelled.
GiveUp(c) ==
  /\ ~Free(c)
  /\ mishaps < MaxMishaps /\ mishaps' = mishaps + 1
  /\ sent' = [sent EXCEPT ![c] = FALSE]
  /\ Ends(c, "idle")
  /\ UNCHANGED <<device, response, shown, stopped, saves>>

-----------------------------------------------------------------------------
(* What happens between requests.                                          *)

\* Ten seconds without a chunk.
Expire ==
  /\ upload # None /\ ~upload.expired
  /\ upload' = [upload EXCEPT !.expired = TRUE]
  /\ UNCHANGED <<slots, stored, response, clients, stopped, counts>>

\* hid_input_release_all: the remote or the host has gone.
HostChanges ==
  /\ upload # None /\ Cancel
  /\ UNCHANGED <<slots, stored, response, clients, counts>>

\* Power is lost and comes back; transfers fail.
Restart ==
  /\ mishaps < MaxMishaps /\ mishaps' = mishaps + 1
  /\ slots' = [s \in Slots |-> Boot(s)]
  /\ upload' = None /\ response' = None /\ stopped' = None
  /\ task' = [c \in Clients |-> IF Free(c) THEN task[c] ELSE "idle"]
  /\ sent' = [c \in Clients |-> FALSE]
  /\ done' = [c \in Clients |-> <<>>] /\ part' = [c \in Clients |-> None]
  /\ want' = [c \in Clients |-> Default]
  /\ UNCHANGED <<stored, shown, saves>>

Client(c) ==
  \/ BeginRead(c) \/ BeginSave(c) \/ BeginStop(c) \/ Ask(c)
  \/ GetRefused(c) \/ GetPiece(c) \/ GetLast(c) \/ GetDone(c) \/ GiveUp(c)

Next ==
  \/ Expire \/ HostChanges \/ Restart
  \/ \E c \in Clients : Client(c)

Spec == Init /\ [][Next]_vars

-----------------------------------------------------------------------------
(* Properties.                                                             *)

TypeOK ==
  /\ \A s \in Slots : slots[s].rev \in 0..Revisions - 1
  /\ \A s \in Slots : stored[s] # None => stored[s].rev \in 0..Revisions - 1
  /\ upload = None \/ /\ upload.token \in Clients /\ upload.expired \in BOOLEAN
                      /\ Len(upload.data) <= upload.total
  /\ task \in [Clients -> Exchanges \cup {"idle", "saved"}]
  /\ sent \in [Clients -> BOOLEAN] /\ want \in [Clients -> Macros]

\* Slots, in RAM and in flash, hold macros that an application has sent as a
\* whole: chunks of two uploads, of two applications or before and after a stop
\* never make one macro.
CommitIsWhole ==
  \A s \in Slots :
    /\ slots[s].data \in Contents
    /\ stored[s] # None => stored[s].data \in Contents

\* What an application shows is the macro of the slot as long as the revision
\* is the same: it was not put together from two macros, is not the answer to
\* another application, and a restart does not bring another macro under it.
ShownIsCurrent ==
  \A c \in Clients :
    shown[c] # None /\ shown[c].rev = Slot(c).rev => shown[c].data = Slot(c).data

\* A commit replaces the macro its application has read.
NoLostMacro ==
  [][\A c \in Clients : HandleCommit(c) => shown[c].data = Slot(c).data]_vars

\* What was uploaded before a stop or a change of the host is not committed
\* after it.
StopDiscards == [][\A c \in Clients : HandleCommit(c) => stopped # c]_vars

\* Who is told that the macro is saved can rely on it: flash holds it, or a
\* later one.
SavedIsStored ==
  [][\A c \in Clients :
       GetLast(c) /\ task'[c] = "saved" =>
         \/ Boot(SlotOf[c]) =
              [rev |-> Next16(shown[c].rev), data |-> Chunks(want[c])]
         \/ Boot(SlotOf[c]).rev = Next16(Next16(shown[c].rev))]_vars

\* No macro is put together from two, neither by the bridge nor by a reader.
UploadSafety ==
  /\ TypeOK
  /\ CommitIsWhole
  /\ ShownIsCurrent

\* A commit takes effect only for the application whose upload it ends, and only
\* over the macro that application has seen.
CommitsAreOwn ==
  /\ StopDiscards
  /\ NoLostMacro
=============================================================================
