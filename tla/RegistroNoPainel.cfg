SPECIFICATION Spec
CONSTANTS
    Cotas = {"c1"}
    Anexos = {"a1", "a2"}
    Pedidos = {"r1", "r2"}
    MaxPremio = 1
    MaxEdicoes = 1
INVARIANT RegisteredMeansPaid
CHECK_DEADLOCK FALSE
