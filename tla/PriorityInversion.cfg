SPECIFICATION Spec
CONSTANT NULL = NULL
PROPERTIES
    NoInversion
    Termination
