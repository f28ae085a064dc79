\* Two cards on a 5 x 5 grid; the threshold scaled from 5 px to 2 grid steps.
CONSTANTS
    Cards = {"c1", "c2"}
    Cell <- MCCell
    Coords = {0, 1, 2, 3, 4}
    MinDelta = 2
    None = None
SPECIFICATION Spec
PROPERTY PromotedBeyondThreshold
