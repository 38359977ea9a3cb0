\* Two processes on two frames, with one TLB entry; swamp may refuse pages.
CONSTANTS
    Procesos = {p1, p2}
    Contenidos = {x, y}
    CantidadFrames = 2
    tipoDeAsignacionDinamica = TRUE
    cantidadDePaginasPorProceso = 4
    ALGORITMO_REEMPLAZO_MMU = "LRU"
    max_entradas_tlb = 1
    SwampPuedeRechazar = TRUE
    MaxPaginas = 2
    Vacio = Vacio
    Basura = Basura
    Nada = Nada
SPECIFICATION Spec
VIEW SinCopias
CONSTRAINT Acotado
SYMMETRY Simetria
INVARIANTS
    TypeOK
    

    
CHECK_DEADLOCK FALSE
