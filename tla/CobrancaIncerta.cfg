SPECIFICATION SpecJusta
CONSTANTS
    c1 = c1
    c2 = c2
    Cotas <- Uma
    Quantidade <- UmaUnidade
    Comprador <- UmaCompradora
    Metodos <- SoPix
    ComAfiliado = {}
    TotalCotas = 1
    MaxPorPessoa = 1
    CustoUnidade = 3
    TaxaUnidade = 2
    ComissaoUnidade = 1
    Recebimentos = {"paga"}
    ConcursoInicial = "perto"
    MaxAvisos = 1
    MaxEmVoo = 4
    MaxFalhas = 1
PROPERTIES
    UncertainIsReconciled
CHECK_DEADLOCK FALSE
