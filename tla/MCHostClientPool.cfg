SPECIFICATION Spec
CONSTANTS
    Calls = {k1, k2, k3}
    Conns = {c1, c2}
    MaxConnsChoices = {1, 2}
    ClosingChoices = {{k1}}
    None = None
INVARIANT OneOwner
INVARIANT SlotsCounted
INVARIANT WaiterKnown
PROPERTY CallsReturn
