\* Two programs' worth of error codes, and every place a program can fail.
SPECIFICATION Spec
CONSTANTS
    Codes = {k1, k2}
    NoCodes = NoCodes
    Absent = Absent
    Failures = {"openC", "openMap", "full", "kill"}
INVARIANT StatusTellsOutput
