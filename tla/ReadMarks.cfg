CONSTANT Last0 = 6
SPECIFICATION MarksSpec
INVARIANTS ReadIsTheSet
