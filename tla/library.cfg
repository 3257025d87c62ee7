SPECIFICATION Spec
CONSTANTS
    Requests = {r1, r2}
    Users = {u1, u2}
    Sets = {s1, s2}
    Items = {i1, i2}
    Langs = {l1, l2}
    Handlers = {"create_set", "update_set", "delete_set", "fork_set", "library", "create_item", "submit_item", "delete_item", "add_item", "remove_item", "fork_item", "approve"}
    None = None
SYMMETRY Symmetry
CONSTRAINT UpToRace
VIEW WithoutLibrary
INVARIANTS SameLanguage
PROPERTIES DeletedIsUnshared
CHECK_DEADLOCK FALSE
