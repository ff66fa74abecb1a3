SPECIFICATION FairSpec
CONSTANT Builds <- Usual
INVARIANTS ExactSum
PROPERTIES ImplementsAtomicAdd Completes
CHECK_DEADLOCK FALSE
