SPECIFICATION Spec
CONSTANTS
    r1 = r1
    r2 = r2
    u1 = u1
    u2 = u2
    h1 = h1
    h2 = h2
    d1 = d1
    d2 = d2
    Requests = {r1, r2}
    Users = {u1, u2}
    UserOf <- MCUserOf
    Hashes = {h1, h2}
    Digest <- MCDigest
    Letters <- MCLetters
    LowerOf <- MCLowerOf
    Base <- MCBase
    Punctuation <- MCPunctuation
    Irregular <- MCIrregular
    Opening <- MCOpening
    Decks = {d1, d2}
    Anki = {d1}
    Bundles = {d2}
    NotesOf <- MCNotesOf
    CardsIn <- MCCardsIn
    MaxCards = 2
    Items = {i1, i2, i3}
    Sets = {s1, s2}
    MaxFaults = 1
    MaxEdits = 2
    None = None
SYMMETRY Symmetry
INVARIANTS OneSetPerBundle GapHidesAnswer
 
CHECK_DEADLOCK FALSE
