------------------------------ MODULE Feature ------------------------------
(***************************************************************************)
(* The Feature requests of usb_hid.c: the host computer reads and writes   *)
(* the settings with GET_REPORT and SET_REPORT of report 5 (keymap) and 6  *)
(* (macro commands).                                                       *)
(*                                                                         *)
(* A callback on the TinyUSB task (program counter caller) puts the        *)
(* request into the single slot "feature", posts an event to the owner and *)
(* waits for the binary semaphore feature_done at most FEATURE_TIMEOUT_MS. *)
(* The owner (program counter owner) checks the request under the mutex,   *)
(* executes it without the mutex, which may take a flash commit, and gives *)
(* the semaphore.  The TinyUSB task is blocked meanwhile, so the link      *)
(* changes only between calls.                                             *)
(*                                                                         *)
(* Time is kept as ticks left: of the deadline and of the caller's wait.   *)
(* The settings are a revision and a value; a macro command is its value,  *)
(* and its answer names it.                                                *)
(***************************************************************************)
EXTENDS Integers

CONSTANTS
  Values,         \* contents of the settings and of macro commands
  Timeout,        \* FEATURE_TIMEOUT_MS in ticks
  MaxCalls,       \* bound: accepted requests
  MaxGeneration   \* bound: link changes and owner restarts

VARIABLES
  mounted,     \* mounted and not sleeping
  started,     \* owner_started
  generation,
  busy,        \* feature.busy
  request,     \* feature.id, .write and .generation
  payload,     \* feature.payload
  result,      \* feature.result = KEYMAP_OK
  deadline,    \* ticks left until feature.deadline
  done,        \* feature_done holds a completion
  event,       \* feature_event is queued
  caller,      \* the TinyUSB task
  wait,        \* ticks left of the caller's wait
  owner,       \* the owner task
  rc,          \* on_feature's rc = KEYMAP_OK
  stored,      \* the settings the firmware uses and keeps
  answer,      \* the macro response buffer
  calls,       \* ghost: the latest accepted request
  executing,   \* ghost: the request the owner works on
  answered,    \* ghost: the request feature_done and result are about
  confirmed    \* ghost: the latest GET that returned the settings

vars == <<mounted, started, generation, busy, request, payload, result,
          deadline, done, event, caller, wait, owner, rc, stored, answer,
          calls, executing, answered, confirmed>>

linkVars  == <<mounted, started, generation>>
slotVars  == <<busy, request, payload, result, deadline, done, event>>
ownerVars == <<owner, rc, stored, answer, executing>>

Kinds    == {"keymap", "macro"}
Settings == [rev : Nat, val : Values]
Requests == [kind : Kinds, write : BOOLEAN, generation : Nat]

TypeOK ==
  /\ mounted \in BOOLEAN /\ started \in BOOLEAN /\ generation \in Nat
  /\ busy \in BOOLEAN /\ request \in Requests /\ payload \in Settings
  /\ result \in BOOLEAN /\ deadline \in 0..Timeout
  /\ done \in BOOLEAN /\ event \in BOOLEAN
  /\ caller \in {"idle", "post", "wait", "read"} /\ wait \in 0..Timeout
  /\ owner \in {"idle", "execute", "answer"} /\ rc \in BOOLEAN
  /\ stored \in Settings /\ answer \in Settings
  /\ calls \in Nat /\ executing \in Nat /\ answered \in Nat /\ confirmed \in Nat

Init ==
  /\ mounted = FALSE /\ started = FALSE /\ generation = 0
  /\ busy = FALSE /\ result = FALSE /\ deadline = 0 /\ done = FALSE
  /\ request = [kind |-> "keymap", write |-> FALSE, generation |-> 0]
  /\ stored \in {[rev |-> 0, val |-> v] : v \in Values}
  /\ payload = stored /\ answer = stored
  /\ event = FALSE
  /\ caller = "idle" /\ wait = 0
  /\ owner = "idle" /\ rc = FALSE
  /\ calls = 0 /\ executing = 0 /\ answered = 0 /\ confirmed = 0

-----------------------------------------------------------------------------
(* feature_request on the TinyUSB task.                                    *)

\* Mutant: the slot is taken although a timed-out request still occupies it.
Refused_IgnoresBusy == ~started \/ ~mounted

Refused == busy \/ ~started \/ ~mounted

\* Mutant: the semaphore is not drained.
DrainDone_Skipped == done' = done

\* A completion left by a request that timed out is drained.
DrainDone == done' = FALSE

\* The first section: take the slot.
Accept(kind, write, content) ==
  /\ caller = "idle" /\ calls < MaxCalls
  /\ ~Refused
  /\ DrainDone
  /\ busy' = TRUE /\ deadline' = Timeout
  /\ request' = [kind |-> kind, write |-> write, generation |-> generation]
  /\ payload' = IF write THEN content ELSE payload
  /\ calls' = calls + 1
  /\ caller' = "post"
  /\ UNCHANGED <<linkVars, result, event, wait, ownerVars, answered, confirmed>>

\* SET_REPORT: the settings written name the revision they are based on.
SetReport ==
  \E kind \in Kinds, v \in Values, r \in 0..stored.rev :
    Accept(kind, TRUE, [rev |-> r, val |-> v])

\* Mutant: the callback reads the settings itself instead of asking the owner.
GetReport_Direct ==
  /\ caller = "idle" /\ calls < MaxCalls /\ started /\ mounted
  /\ calls' = calls + 1 /\ confirmed' = calls + 1
  /\ UNCHANGED <<linkVars, slotVars, caller, wait, ownerVars, answered>>

GetReport == \E kind \in Kinds : Accept(kind, FALSE, payload)

\* ble_npl_eventq_put, then xSemaphoreTake.
Post ==
  /\ caller = "post" /\ caller' = "wait"
  /\ event' = TRUE /\ wait' = Timeout
  /\ UNCHANGED <<linkVars, busy, request, payload, result, deadline, done,
                 ownerVars, calls, answered, confirmed>>

TakeDone ==
  /\ caller = "wait" /\ done
  /\ done' = FALSE /\ caller' = "read"
  /\ UNCHANGED <<linkVars, busy, request, payload, result, deadline, event,
                 wait, ownerVars, calls, answered, confirmed>>

\* Mutant: the callback waits with portMAX_DELAY.
GiveUp_Never == FALSE

GiveUp ==
  /\ caller = "wait" /\ wait = 0 /\ ~done
  /\ caller' = "idle"
  /\ UNCHANGED <<linkVars, slotVars, wait, ownerVars, calls, answered, confirmed>>

\* The last section: the result, and the payload of a read.
Return ==
  /\ caller = "read" /\ caller' = "idle"
  /\ confirmed' = IF result /\ ~request.write /\ request.kind = "keymap"
                  THEN calls ELSE confirmed
  /\ UNCHANGED <<linkVars, slotVars, wait, ownerVars, calls, answered>>

-----------------------------------------------------------------------------
(* on_feature on the owner.                                                *)

\* Mutant: the deadline is not compared.
Valid_IgnoresDeadline ==
  busy /\ mounted /\ started /\ request.generation = generation

Valid ==
  /\ busy /\ mounted /\ started
  /\ request.generation = generation /\ deadline > 0

\* Mutant: an unwanted request is dropped without an answer.
Check_EarlyReturn ==
  /\ owner = "idle" /\ event
  /\ event' = FALSE
  /\ owner' = IF Valid THEN "execute" ELSE "idle"
  /\ rc' = FALSE /\ executing' = calls
  /\ UNCHANGED <<linkVars, busy, request, payload, result, deadline, done,
                 caller, wait, stored, answer, calls, answered, confirmed>>

\* The first section: is the request still wanted?
Check ==
  /\ owner = "idle" /\ event
  /\ event' = FALSE
  /\ owner' = IF Valid THEN "execute" ELSE "answer"
  /\ rc' = FALSE /\ executing' = calls
  /\ UNCHANGED <<linkVars, busy, request, payload, result, deadline, done,
                 caller, wait, stored, answer, calls, answered, confirmed>>

Executed ==
  /\ owner = "execute" /\ owner' = "answer"
  /\ UNCHANGED <<linkVars, busy, request, result, deadline, done, event,
                 caller, wait, executing, calls, answered, confirmed>>

\* keymap_apply: only onto the revision it names, and only if it could be saved.
ApplyKeymap ==
  /\ Executed /\ request.kind = "keymap" /\ request.write
  /\ \/ /\ payload.rev = stored.rev
        /\ stored' = [rev |-> stored.rev + 1, val |-> payload.val]
        /\ rc' = TRUE
     \/ stored' = stored /\ rc' = FALSE
  /\ UNCHANGED <<payload, answer>>

\* macro_request and the answer it leaves for the next read.
ApplyMacro ==
  /\ Executed /\ request.kind = "macro" /\ request.write
  /\ answer' = payload /\ rc' = TRUE
  /\ UNCHANGED <<payload, stored>>

\* keymap_read, macro_response.
ReadBack ==
  /\ Executed /\ ~request.write
  /\ payload' = IF request.kind = "keymap" THEN stored ELSE answer
  /\ rc' = TRUE
  /\ UNCHANGED <<stored, answer>>

\* The last section: publish the result and free the slot.
Answer ==
  /\ owner = "answer" /\ owner' = "idle"
  /\ result' = rc /\ busy' = FALSE /\ done' = TRUE
  /\ answered' = executing
  /\ UNCHANGED <<linkVars, request, payload, deadline, event, caller, wait,
                 rc, stored, answer, executing, calls, confirmed>>

-----------------------------------------------------------------------------
(* Time, the link and the BLE stack.                                       *)

\* Mutant: the remaining time runs below zero.
After_Unclamped(left) == left - 1

\* What is left one tick later; a deadline in the past stays in the past.
After(left) == IF left > 0 THEN left - 1 ELSE 0

Tick ==
  /\ deadline > 0 \/ wait > 0
  /\ deadline' = After(deadline)
  /\ wait' = After(wait)
  /\ UNCHANGED <<linkVars, busy, request, payload, result, done, event,
                 caller, ownerVars, calls, answered, confirmed>>

\* mark_link runs on the TinyUSB task, never within a request.
LinkChange ==
  /\ caller = "idle" /\ generation < MaxGeneration
  /\ mounted' = ~mounted /\ generation' = generation + 1
  /\ UNCHANGED <<started, slotVars, caller, wait, ownerVars, calls, answered,
                 confirmed>>

\* usb_hid_on_reset and usb_hid_start run on the owner.
Restart ==
  /\ owner = "idle" /\ generation < MaxGeneration
  /\ started' = ~started /\ generation' = generation + 1
  /\ UNCHANGED <<mounted, slotVars, caller, wait, ownerVars, calls, answered,
                 confirmed>>

-----------------------------------------------------------------------------
UsbTask == Post \/ TakeDone \/ GiveUp \/ Return

OwnerTask == Check \/ ApplyKeymap \/ ApplyMacro \/ ReadBack \/ Answer

Next ==
  \/ SetReport \/ GetReport \/ UsbTask \/ OwnerTask
  \/ Tick \/ LinkChange \/ Restart

Spec == Init /\ [][Next]_vars

\* The TinyUSB task runs and time passes.  Nothing is assumed of the owner.
LiveSpec == Spec /\ WF_vars(UsbTask) /\ WF_vars(Tick)

-----------------------------------------------------------------------------
(* Properties.                                                             *)

Waiting == caller \in {"post", "wait"}

\* The completion a caller takes is that of its own request, never one that a
\* timed-out request left in the semaphore (the drain in feature_request).
ReplyIsOwn == caller = "read" => answered = calls

\* The slot the owner reads without the mutex is not reused under it: also
\* after the caller gave up, no new request gets in before the answer.
SlotIsHeld == owner # "idle" => busy /\ executing = calls

\* A read that succeeds hands the host what the firmware holds at that moment.
ReadIsCurrent ==
  caller = "read" /\ result /\ ~request.write =>
    payload = IF request.kind = "keymap" THEN stored ELSE answer

\* The owner begins to execute a request only while its caller waits for it: a
\* request that waited too long in the event queue, or that outlived its host
\* session, is dropped without a trace.
BeginsInTime ==
  [][owner = "idle" /\ owner' = "execute" => Waiting /\ executing' = calls]_vars

\* "Read back before retry": once a read-back has succeeded, no earlier write
\* takes effect any more, however its caller returned.
ReadBackSettles ==
  [][stored' # stored => executing > confirmed]_vars

\* The TinyUSB task gets through every request, whatever the owner does: no
\* lock or semaphore lets a stuck owner stop USB.
CallReturns == caller # "idle" ~> caller = "idle"

\* If the owner runs, the slot a timed-out request left busy is freed, so the
\* settings do not stay unreachable.
SlotIsFreed == WF_vars(OwnerTask) => (busy ~> ~busy)

\* usb_hid_test.c says: "A timed-out request may not overwrite the next request
\* or commit late."  A write takes effect only while its caller waits.
NoLateCommit == [][stored' # stored => Waiting]_vars

\* An answer, the slot and the value read belong to one request, although the
\* semaphore, the slot and the payload are shared by all of them.
RequestSafety ==
  /\ TypeOK
  /\ ReplyIsOwn
  /\ SlotIsHeld
  /\ ReadIsCurrent

\* A request whose caller gave up does no harm to those that come after it.
LateDoesNothing ==
  /\ BeginsInTime
  /\ ReadBackSettles

\* Neither a caller nor the slot waits for ever.
RequestLiveness ==
  /\ CallReturns
  /\ SlotIsFreed
=============================================================================
