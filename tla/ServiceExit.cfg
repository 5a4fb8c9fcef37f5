SPECIFICATION Spec
CONSTANT Items = {i1, i2}
INVARIANT DrainSurvives
CHECK_DEADLOCK FALSE
