CHECK_DEADLOCK FALSE
SPECIFICATION MCSpec
CONSTANT N = 3
INVARIANTS TypeOK FactoryAfterDeps ShimWaits
PROPERTY AllDefined
