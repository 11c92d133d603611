--------------------------- MODULE MCCanTransmit ---------------------------
\* Error frames of every kind the code tells apart: off, passive on either side,
\* status that is neither, protocol violations with a location that is in the
\* table, with one no table has, and with none, and several classes at once.
EXTENDS CanTransmit

Err(class, crtl, prot, loc) == [class |-> class, crtl |-> crtl, prot |-> prot, loc |-> loc]

MCErrorFrames ==
  {Err({"BUSOFF"}, {}, {}, Unspec),
   Err({"RESTARTED"}, {}, {}, Unspec),
   Err({"CRTL"}, {"TX_PASSIVE"}, {}, Unspec),
   Err({"CRTL"}, {"RX_WARNING", "RX_PASSIVE"}, {}, Unspec),
   Err({"CRTL", "ACK"}, {"TX_WARNING"}, {"BIT"}, "UNDEFINED"),
   Err({"PROT"}, {"TX_PASSIVE"}, {}, "UNDEFINED"),
   Err({"PROT", "BUSOFF"}, {}, {"BIT", "TX"}, Unspec),
   Err({"PROT", "BUSERROR"}, {}, {"FORM"}, "INTERM"),
   Err({"PROT", "BUSERROR"}, {}, {"STUFF"}, "UNDEFINED")}

=============================================================================
