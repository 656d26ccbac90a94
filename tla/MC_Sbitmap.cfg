CONSTANTS
    EltBits = 2
    Size = 3
    HasPopcount = TRUE
SPECIFICATION Spec
INVARIANTS TypeOK PopcountAgree ForwardVisitsExactly ReverseVisitsExactly
