------------------------------ MODULE MCUsbHid ------------------------------
(* UsbHid on a small instance for TLC.                                     *)
EXTENDS UsbHid
=============================================================================
