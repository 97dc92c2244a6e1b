SPECIFICATION Spec

CONSTANTS
    Session = {s1}
    MaxGen = 5

INVARIANTS
    EnvironmentStands
    DatabaseHasAnEnd
    CheckoutIsNamed

CHECK_DEADLOCK FALSE
