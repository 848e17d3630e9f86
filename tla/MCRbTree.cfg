CONSTANT Keys <- MCKeys
SPECIFICATION Spec
INVARIANTS Balanced AssertionsHold QueriesAgree
PROPERTY BehavesLikeASet
