SPECIFICATION Spec
INVARIANTS TypeOK CallsInOrder DoneMeansDone NotWedged PortAsAsked
PROPERTIES CallsEnd
CHECK_DEADLOCK FALSE
