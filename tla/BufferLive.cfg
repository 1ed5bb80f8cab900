SPECIFICATION FairSpec
CONSTANTS
    p1 = p1  p2 = p2  p3 = p3
    x1 = x1  x2 = x2  x3 = x3
    b1 = b1  b2 = b2  b3 = b3
    Proc = {p1, p2}
    Buf = {x1, x2}
    Block = {b1, b2, b3}
    Value = {0}
    NoProc = NoProc
    NoBuf = NoBuf
    NoBlock = NoBlock
    NoWait = NoWait
    NeedBuffer = NeedBuffer
    NumOutput = NumOutput
    Ahead = {p1}
    Flushing = FALSE
    IoErrors = TRUE
PROPERTY SleeperWoken
