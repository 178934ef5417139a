--------------------------- MODULE ReportChannel ---------------------------
(***************************************************************************)
(* What host_output.h promises the input engine about the way to the host  *)
(* computer, without queue, worker or callbacks: accepted reports arrive   *)
(* in the order they were accepted, each at most once, none invented.      *)
(* Reports may be lost from either end of the pipe; UsbHid says what makes *)
(* up for that (NoStuckKey, Converges).                                    *)
(***************************************************************************)
EXTENDS Integers, Sequences

CONSTANTS Keys,     \* the report ids that hold key state
          Reports,  \* what may be accepted: records with id and held
          Capacity  \* reports under way at most

VARIABLES pipe, host

chan == <<pipe, host>>

Init == pipe = <<>> /\ host = [k \in Keys |-> FALSE]

\* host_output_send or macro_send_keyboard answered true.
Accept ==
  /\ Len(pipe) < Capacity
  /\ \E r \in Reports : pipe' = Append(pipe, r)
  /\ UNCHANGED host

\* The host takes the oldest report.
Deliver ==
  /\ pipe # <<>>
  /\ pipe' = Tail(pipe)
  /\ host' = [k \in Keys |-> IF k = Head(pipe).id THEN Head(pipe).held ELSE host[k]]

\* host_output_clear, mark_link or a failed transfer: what is left is a
\* contiguous part of the pipe, in the same order.
Drop(host1) ==
  /\ \E m \in 1..Len(pipe) + 1, n \in 0..Len(pipe) : pipe' = SubSeq(pipe, m, n)
  /\ host' = host1

Lose == Drop(host)

\* A host computer that configures the device assumes no key is held.
NewHost == Drop([k \in Keys |-> FALSE])

Next == Accept \/ Deliver \/ Lose \/ NewHost

Spec == Init /\ [][Next]_chan
=============================================================================
