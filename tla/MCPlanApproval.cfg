\* Planning, edits, inputs, approval, rejection, expiry, cancellation and crashes.
SPECIFICATION Spec
CONSTANTS
    e1 = e1
    e2 = e2
    c1 = c1
    file = file
    none = none
    Editors = {e1, e2}
    Commands = {c1}
    Materials = {file}
    NoCommand = none
    MaxEdits = 2
    MaxVersion = 3
SYMMETRY Interchangeable
INVARIANTS
    InputsFrozen
    OneStory
    NoLostUpdate
    SubmittedOnce
PROPERTIES
    ApprovedAsValidated
    KeepsApproval
CHECK_DEADLOCK FALSE
