\* The location bar against the reference resolution.
CONSTANTS
    Chars = {"/", ".", "a"}
    MaxLen = 4
SPECIFICATION Spec
INVARIANT LocationBarResolves
