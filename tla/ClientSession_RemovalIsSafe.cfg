SPECIFICATION Spec
INVARIANT RemovalIsSafe
