\* The same writers: does every conf_write return?
CONSTANTS
    w1 = w1  w2 = w2  w3 = w3  w4 = w4
    Writers <- MCWriters
    Lines <- MCMalformedLines
    NoVal = NoVal

SPECIFICATION ConfSpec

PROPERTY ConfWriteReturns

CHECK_DEADLOCK FALSE
