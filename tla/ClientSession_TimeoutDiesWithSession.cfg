SPECIFICATION Spec
INVARIANT TimeoutDiesWithSession
