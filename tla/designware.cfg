SPECIFICATION Spec
INVARIANTS TypeOK BytesInOrder ToldOnce GatesAgree PinsAsAsked FlashAsAsked
PROPERTIES CompleteWhenDone TransfersEnd
CHECK_DEADLOCK FALSE
