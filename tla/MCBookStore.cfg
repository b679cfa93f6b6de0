SPECIFICATION Spec
CONSTANTS
    b1 = b1
    b2 = b2
    Books = {b1, b2}
    NoSave = NoSave
    MaxChanges = 3
INVARIANTS BooksAreKept
CHECK_DEADLOCK FALSE
