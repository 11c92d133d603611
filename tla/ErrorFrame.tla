----------------------------- MODULE ErrorFrame -----------------------------
(***************************************************************************)
(* What SocketCAN makes of an error frame (src/lib/socketcan): the text of *)
(* TranslateErrorFrame(), as the set of faults it names, and the test that *)
(* sets m_busOff.  A frame is a record: the error classes in its can_id,   *)
(* the flags in its bytes 1 (controller) and 2 (protocol), and byte 3, the *)
(* place in the CAN frame where a protocol was violated.                   *)
(***************************************************************************)

ErrorClassBits ==
  {"TX_TIMEOUT", "LOSTARB", "CRTL", "PROT", "TRX", "ACK", "BUSOFF", "BUSERROR", "RESTARTED"}

ControllerErrorStatus ==
  {"RX_OVERFLOW", "TX_OVERFLOW", "RX_WARNING", "TX_WARNING", "RX_PASSIVE", "TX_PASSIVE",
   "RECOVERED"}

ProtocolErrorType ==
  {"BIT", "FORM", "STUFF", "BIT0", "BIT1", "OVERLOAD", "ANNOUNCED", "TX"}

\* The places the SocketCAN headers name.
ProtocolErrorLocation ==
  {"SOF", "ID28_21", "ID20_18", "SRTR", "IDE", "ID17_13", "ID12_05", "ID04_00", "RTR",
   "RES1", "RES0", "DLC", "DATA", "CRC_SEQ", "CRC_DEL", "ACK", "ACK_DEL", "EOF", "INTERM"}

\* The byte is zero: no location is given.
Unspec == "UNSPEC"

\* The types of protocol violation the translation goes through.
Violations(frame) ==
  IF "PROT" \in frame.class THEN frame.prot \cap ProtocolErrorType ELSE {}

\* The location of a violation is looked up with at(), which throws.
Throws(frame) ==
  /\ Violations(frame) # {}
  /\ frame.loc \notin ProtocolErrorLocation \cup {Unspec}

\* A translation that leaves the controller's status out.
NamedWithoutStatus(frame) ==
  (frame.class \cap ErrorClassBits) \cup Violations(frame)

\* What the text says, if there is one.  The faults of a transceiver are left out.
Named(frame) ==
  (frame.class \cap ErrorClassBits)
    \cup (IF "CRTL" \in frame.class THEN frame.crtl \cap ControllerErrorStatus ELSE {})
    \cup Violations(frame)
    \cup (IF Violations(frame) # {} THEN {frame.loc} \ {Unspec} ELSE {})

\* The controller is off the bus, or passive and taken to be as good as off.
MeansBusOff(frame) ==
  \/ "BUSOFF" \in frame.class
  \/ "CRTL" \in frame.class /\ frame.crtl \cap {"TX_PASSIVE", "RX_PASSIVE"} # {}

=============================================================================
