\* Two REST clients, two instance ids, one deployed and one unknown process
\* key, two token slots per instance: starts, cancels, status reads and
\* lists interleave with token steps that split, suspend, resume and
\* complete, and with steps in flight across a cancel.
CONSTANTS
    Clients = {c1, c2}
    Ids = {i1, i2}
    Keys = {k1, k2}
    Deployed = {k1}
    MaxTokens = 2
SPECIFICATION Spec
SYMMETRY ProcessSymmetry
INVARIANT TypeOK
INVARIANT ReadYourCancel
