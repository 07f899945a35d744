SPECIFICATION Spec
CONSTANTS
    c1 = c1
    c2 = c2
    Cotas <- Duas
    Quantidade <- DuplaESimples
    Comprador <- MesmaCompradora
    Metodos <- BoletoEPix
    ComAfiliado = {c1}
    TotalCotas = 2
    MaxPorPessoa = 2
    CustoUnidade = 3
    TaxaUnidade = 2
    ComissaoUnidade = 1
    Recebimentos = {"paga"}
    ConcursoInicial = "longe"
    MaxAvisos = 1
    MaxEmVoo = 1
    MaxFalhas = 1
INVARIANTS
    StockConserved
    NeverOversold
    NoShareLeftBehind
PROPERTIES
    EstoqueSpec
CHECK_DEADLOCK FALSE
