\* Copy destinations for every entry path and absolute destination up to 4 characters.
CONSTANTS
    Chars = {"/", ".", "a"}
    MaxLen = 4
SPECIFICATION Spec
INVARIANT CopyLandsInDest
