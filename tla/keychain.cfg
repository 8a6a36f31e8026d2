SPECIFICATION KeychainSpec
CONSTANTS
    key = key
    short = short
    other = other
    long = long
    Values = {key, short, other, long}
    Absent = Absent
    Size <- MCSize
    Limit = 3
    MaxCuts = 3
PROPERTY Atomic
