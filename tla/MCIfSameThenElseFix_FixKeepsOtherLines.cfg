CONSTANT MaxSegments = 4
SPECIFICATION Spec
INVARIANT FixKeepsOtherLines
