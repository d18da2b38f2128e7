----------------------------- MODULE Interfaces -----------------------------
(* The interfaces create_interface makes that talk to a real device.  A      *)
(* behaviour follows one of them, the others stay as they were made.         *)
EXTENDS TcpLink, LoraRadio

VARIABLE interface

allVars == <<interface, vars, loraVars>>

CreateInterface ==
  /\ Init /\ LoraInit
  /\ \/ interface = device
     \/ interface = "TCP" /\ device = "UART_E5"

InterfacesNext ==
  /\ UNCHANGED interface
  /\ \/ interface = "TCP" /\ Next /\ UNCHANGED loraVars
     \/ interface = device /\ LoraNext /\ UNCHANGED vars

InterfacesSpec == CreateInterface /\ [][InterfacesNext]_allVars
=============================================================================
