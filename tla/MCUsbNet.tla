------------------------------ MODULE MCUsbNet -------------------------------
(***************************************************************************)
(* The two tasks that use sockets, beside the usb task and tcpip thread.   *)
(***************************************************************************)
EXTENDS UsbNet
=============================================================================
