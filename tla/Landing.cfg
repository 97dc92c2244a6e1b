SPECIFICATION FairSpec

CONSTANTS
    Session = {s1}
    Client = {c1, c2}
    Change = {x, y}
    Main = main
    None = none
    MaxOthers = 4

INVARIANTS
    CommitsKept

PROPERTIES
    Whole
    

CHECK_DEADLOCK FALSE
