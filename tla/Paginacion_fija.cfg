\* The fixed assignment and the replacement of memoria/cfg/humedal.conf: one frame for
\* each process; swamp may refuse pages.
CONSTANTS
    Procesos = {p1, p2}
    Contenidos = {x, y}
    CantidadFrames = 2
    tipoDeAsignacionDinamica = FALSE
    cantidadDePaginasPorProceso = 1
    ALGORITMO_REEMPLAZO_MMU = "CLOCK-M"
    max_entradas_tlb = 2
    SwampPuedeRechazar = TRUE
    MaxPaginas = 2
    Vacio = Vacio
    Basura = Basura
    Nada = Nada
SPECIFICATION Spec
VIEW SinCopias
CONSTRAINT Acotado
SYMMETRY Simetria
INVARIANTS
    MarcosPorCarpincho
    TLBCoherente

    
CHECK_DEADLOCK FALSE
