----------------------------- MODULE MCBleLink -----------------------------
(* Instances of BleLink: attribute tables of remotes, packets of devices. *)
EXTENDS BleLink

Char(kind, notify, ref, cccd) ==
  [kind |-> kind, notify |-> notify, range |-> TRUE, ref |-> ref, cccd |-> cccd]

Map      == Char("map", FALSE, "none", FALSE)
Mode     == Char("mode", FALSE, "none", FALSE)
Keyboard == Char("report", TRUE, "keyboard", TRUE)
Mouse    == Char("report", TRUE, "mouse", TRUE)
Bare     == Char("report", TRUE, "none", TRUE)
NoRange  == [Mouse EXCEPT !.range = FALSE]

Adv(d, name, hid) == [dev |-> d, response |-> FALSE, connectable |-> TRUE, name |-> name, hid |-> hid]
Rsp(d, name, hid) == [dev |-> d, response |-> TRUE, connectable |-> FALSE, name |-> name, hid |-> hid]

\* Two devices share a slot: the remote, which shows the service in its
\* advertisement and its name in its scan response, and one that has the name
\* and never the service.
TwoDevices ==
  {Adv("remote", "absent", TRUE), Rsp("remote", "target", FALSE),
   Adv("named", "target", FALSE)}

\* A table the bridge can use, with a report that must be skipped between two
\* inputs because it has no range of descriptors, and one it cannot use: its only
\* report has no Report Reference.
SomeTables == {<<Keyboard, NoRange, Mouse, Mode, Map>>, <<Bare, Map>>}
=============================================================================
