SPECIFICATION SpecJusta
CONSTANTS
    b1 = b1
    b2 = b2
    Ultimo = 3
    Dias = 2
    Calendarios <- Pontual
    Publicadas = {TRUE}
    Automaticas = {TRUE}
    FestaDia = 0
    FestaCedo = FALSE
    Boloes <- DoisBoloes
    MaxAtraso = 1
    MaxPedidos = 0
PROPERTIES
    SettledWhileCurrent
CHECK_DEADLOCK FALSE
