SPECIFICATION Spec

CONSTANTS
    Names = {a, b}
    Views <- MCViews

INVARIANTS
    SelectsTheView
    OneOwnerEach
