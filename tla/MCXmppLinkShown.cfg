SPECIFICATION Spec

INVARIANT ShownMethodIsReal
