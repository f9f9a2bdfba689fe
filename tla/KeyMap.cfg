SPECIFICATION Spec
CONSTANT Byte <- AllBytes
INVARIANTS EscapeIsGated LettersArrive
CHECK_DEADLOCK FALSE
