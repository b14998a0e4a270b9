SPECIFICATION Spec
CONSTANT MaxBlock = 2
INVARIANT FirstBlockPublishes
