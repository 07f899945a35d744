SPECIFICATION Spec
CONSTANTS
    c1 = c1
    c2 = c2
    Cotas <- Uma
    Quantidade <- UmaUnidade
    Comprador <- UmaCompradora
    Metodos <- SoCartao
    ComAfiliado = {}
    TotalCotas = 1
    MaxPorPessoa = 1
    CustoUnidade = 3
    TaxaUnidade = 2
    ComissaoUnidade = 1
    Recebimentos = {"paga"}
    ConcursoInicial = "perto"
    MaxAvisos = 1
    MaxEmVoo = 2
    MaxFalhas = 0
INVARIANTS
    RefundedTakesNoPart
CHECK_DEADLOCK FALSE
