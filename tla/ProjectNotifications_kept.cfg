SPECIFICATION KeptSpec
CONSTANTS
    Users = {u1}
    Admins = {}
    Projects = {p1, p2}
    Forms = {f1}
    NoForm = NoForm
    NoBoxes = NoBoxes
INVARIANTS ChoiceKept
