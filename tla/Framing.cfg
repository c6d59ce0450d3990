SPECIFICATION Spec
CONSTANTS
    SOF = SOF
    ESC = ESC
    EOF = EOF
    Plain = {a}
    MAX_PAYLOAD = 3
    MaxLen = 2
    MaxLost = 3
INVARIANT Resynchronises
