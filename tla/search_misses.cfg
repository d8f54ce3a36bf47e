\* What the code does not keep: TitleFindsItsBook.
CONSTANTS
    Titles <- MCTitles
    Names <- MCNames
    RandomSuffixes = {1, 2}
    MaxBooks = 2
SPECIFICATION Spec
CHECK_DEADLOCK FALSE
INVARIANT TitleFindsItsBook
