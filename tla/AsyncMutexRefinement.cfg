SPECIFICATION FairSpec
CONSTANT Callers = {c1, c2, c3, c4}
PROPERTIES ServedInOrder EveryWaiterEnters ImplementsLock
