\* More carpinchos than slots: suspension, I/O, closes and refused inits, two CPUs.
CONSTANTS
    Carpinchos = {c1, c2}
    GradoMultiprocesamiento = 2
    GradoMultiprogramacion = 1
    Semaforos = {}
    SemaforosCreados = {}
    ValorInicial = 0
    Dispositivos = {disco}
    MaxLlamadas = 2
    Operaciones = {"call_io", "memoria", "close"}
    MemoriaPuedeFallar = TRUE
    Nadie = Nadie
SYMMETRY Simetria
SPECIFICATION Spec
INVARIANTS
    TypeOK
    CuentaEntrantes
    LargoPlazoEncuentra
    CuentaReady
    CortoPlazoEncuentra
    CuentaCPUs
    CPUExclusiva
    SoloCorreEnExec
CHECK_DEADLOCK FALSE
