SPECIFICATION Spec
CONSTANTS
    Pedidos = {r1, r2}
    Comissoes = {"k1", "k2"}
    Lotes = {"l1", "l2"}
    MaxPagando = 2
    Limites = {1}
    SemLimite = 9
    Espera = 1
    Pausas = {1, 2}
    Custos = {1}
    MaxGasto = 2
    MaxPedidos = 3
    MaxTempo = 2
    MaxRefs = 2
    MaxErros = 2
    MaxSenhas = 3
    MaxVersao = 2
    MaxLinks = 1
    Pessoas = {q1, q2, q3}
    Convites = {v1}
    Apagaveis = {q1}
    MaxAtos = 5
    Cotas = {c1}
    Anexos = {a1, a2}
    MaxPremio = 1
    MaxEdicoes = 1
    Partes = {1, 2, 3}
    Jogos = {j1, j2, j3}
    MaxQuantidade = 3
    MaxTotal = 7
    MaxCusto = 7
    MaxCotas = 4
    MaxValor = 6
    MaxJogos = 3
    MenorJanela = 2
    Janelas = {1, 3}
    AmostraAtraso = 3
    TamanhoDoGrupo = 2
    Barras = 4
    Topo = 2
    DatasAte = 6
    LimiteHistorico = 2
    MaxConcursos = 3
    Quantidades = {1, 3}
    UltimoConcurso = 6
    Profundidades = {4, 9}
    LimitesImportacao = {1, 4, 5}
    MaxCobrancas = 3
    MaxPostagens = 2
    MaxFalhas = 1
    Instancias = {i1, i2}
    Donos = {u1, u2}
    MaxRecusas = 2
    MaxEnderecos = 2
    Precos = {3, 5}
    Valores = {3, 6}
    MaxVersoes = 3
    Consultas = {r1, r2}
    UltimaFonte = 2
    Descanso = 2
    MaxConsultas = 2
    Conteudos = {x}
    Arquivos = {a1, a2}
    MaxFalhasDeArquivo = 1
    Filtros = {f1, f2}
    Inicial = f1
    MaxCargas = 3
    MaxNoAr = 2
    MaxEscritas = 1
    MaxVersaoDoDado = 2
    Chefe = q1
    Navegadores = {q1, q2}
    MaxMudancas = 2
    MaxTrocas = 2
    Cartoes = {{0, 1}, {1, 2}, {2}}
    MaxNumero = 3
    Sorteaveis = {0, 1, 2}
    MaxMarcas = 2
    MaxMarcando = 2
INVARIANTS
    TypeOK
    OneInvoice
    AccountsAreSafe
    NetworkIsSound
    BuyersKeepTheirTerms
    ProofIsKept
    MoneyAddsUp
    StatisticsAgree
    ChargesAreSound
    PeopleAreInformed
PROPERTIES
    PayoutsAddUp
    PlaysByTheRules
CHECK_DEADLOCK FALSE
