\* Strings over two characters, two entries.
CONSTANTS
    Char = {a, b}
    a = a
    b = b
    Key <- MCKey
    Data = {d1, d2}
    NoData = NoData
    NoStr = NoStr
SYMMETRY DataSymmetry
SPECIFICATION Spec
INVARIANTS TrieShape
PROPERTIES Implements
