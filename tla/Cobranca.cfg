\* Two charges of a month and two requests, with any one kind of failure.
SPECIFICATION Spec
CONSTANTS
    Charges = {c1, c2}
    Handlers = {h1, h2}
    MaxOps = 2
    MaxKinds = 1
SYMMETRY Symmetry
INVARIANTS TypeOK PaidMeansPaid SeenDecisionsStand PaidIsConfirmed
CHECK_DEADLOCK FALSE
