SPECIFICATION Spec
CONSTANTS
    Requests = {r1, r2}
    Langs = {l1, l2}
    Amounts = {1, 2}
    DefaultGoal = 2
    DefaultSession = 1
    DefaultDay = 2
    Handlers = {"get", "patch", "reset", "add", "activate", "remove"}
    Patches <- PatchesOf
    Unset = Unset
    None = None
SYMMETRY Symmetry
INVARIANTS ConsistentUnlessRaced OneActiveUnlessUnseen
PROPERTIES NoLostUpdate
