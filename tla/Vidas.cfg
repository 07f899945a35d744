SPECIFICATION VidasSpec
CONSTANTS
    c1 = c1
    Cotas <- Uma
    Quantidade <- UmaUnidade
    Comprador <- UmaCompradora
    Metodos <- SoPix
    ComAfiliado = {c1}
    TotalCotas = 1
    MaxPorPessoa = 1
    Recebimentos = {"paga"}
    ConcursoInicial = "perto"
    MaxAvisos = 1
    MaxEmVoo = 4
    MaxFalhas = 1
    MaxLeituras = 2
    MaxVisitas = 2
    Lacos = {p1, p2}
    MaxTentativas = 2
    MaxQuedas = 1
    MaxTrocas = 1
INVARIANTS
    VidasTypeOK
    NoticedOnce
PROPERTIES
    ReservationEnds
    PaidIsConfirmed
    StaleChargeIsClosed
    PaidIsShown
    InterestIsAnswered
CHECK_DEADLOCK FALSE
