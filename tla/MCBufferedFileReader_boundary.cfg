SPECIFICATION Spec
CONSTANTS
    a = a
    sp = sp
    nl = nl
    NewLine = nl
    EOF = EOF
    Closed = Closed
    BufSize = 3
    Bytes = {a, sp, nl, EOF}
    Files <- BoundaryFiles
    DelimSets <- Delimiters
INVARIANT
    CharIsNext
