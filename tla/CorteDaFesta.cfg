SPECIFICATION Spec
CONSTANTS
    b1 = b1
    b2 = b2
    Ultimo = 3
    Dias = 2
    Calendarios <- Pontual
    Publicadas = {TRUE}
    Automaticas = {TRUE}
    FestaDia = 2
    FestaCedo = TRUE
    Boloes <- UmBolao
    MaxAtraso = 1
    MaxPedidos = 0
PROPERTIES
    FestivalKeepsItsTime
CHECK_DEADLOCK FALSE
