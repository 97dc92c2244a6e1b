SPECIFICATION Spec

CONSTANTS
    Session = {s1}
    Client = {c1}
    Change = {x, y}
    Main = main
    None = none
    MaxOthers = 4

PROPERTY ReviewCanLand

CHECK_DEADLOCK FALSE
