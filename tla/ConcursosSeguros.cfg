SPECIFICATION Spec
CONSTANTS
    b1 = b1
    b2 = b2
    Ultimo = 3
    Dias = 2
    Calendarios <- Pontual
    Publicadas = {FALSE}
    Automaticas = {TRUE}
    FestaDia = 1
    FestaCedo = FALSE
    Boloes <- UmBolao
    MaxAtraso = 1
    MaxPedidos = 2
INVARIANTS
    TypeOK
    NoSaleAfterDraw
    PoolHasContest
    SettledWithResult
PROPERTIES
    PoolKeepsItsDraw
CHECK_DEADLOCK FALSE
