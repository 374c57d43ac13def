SPECIFICATION Spec
CONSTANT
    Key = {k1, k2, k3, k4}
SYMMETRY KeySymmetry
INVARIANTS
    TypeOK
    ProcessedInOrder
    RootsExact
    NeverStuck
PROPERTY
    ImplementsTaskOrder
