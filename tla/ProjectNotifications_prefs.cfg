SPECIFICATION Spec
CONSTANTS
    Users = {u1, u2}
    Admins = {}
    Projects = {p1, p2}
    Forms = {f1, f2}
    NoForm = NoForm
    NoBoxes = NoBoxes
INVARIANTS PrefsAreChoice
PROPERTIES FormsStoreWhatTheyShow
SYMMETRY Symmetry
