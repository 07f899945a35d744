SPECIFICATION Spec
CONSTANTS
    c1 = c1
    c2 = c2
    Cotas <- Uma
    Quantidade <- UmaUnidade
    Comprador <- UmaCompradora
    Metodos <- TodosOsMetodos
    ComAfiliado = {c1}
    TotalCotas = 1
    MaxPorPessoa = 1
    CustoUnidade = 3
    TaxaUnidade = 2
    ComissaoUnidade = 1
    Recebimentos = {"paga", "divergente"}
    ConcursoInicial = "longe"
    MaxAvisos = 2
    MaxEmVoo = 2
    MaxFalhas = 1
INVARIANTS
    TypeOK
    NoPhantomRefund
    ReportsAgree
PROPERTIES
    PaidShareIsKept
    RefundIsFinal
CHECK_DEADLOCK FALSE
