SPECIFICATION Spec
INVARIANT FiledInOwnTable
