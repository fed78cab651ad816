SPECIFICATION TextSpec
CONSTANTS
    MaxExponent = 127
    DecimalChars = {"+", "-", "0", "1", "5", "9", ".", "e", " "}
    MaxChars = 5
    MaxPieces = 3
    Years = {1, 1999}
    Fractions = {0, 499, 500, 999}
INVARIANTS
    DecimalAsWritten
    TextsKeepValues
    StatementAsMeant
    ConnectionAsMeant
CHECK_DEADLOCK FALSE
