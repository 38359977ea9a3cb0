\* Three carpinchos share a device and one CPU; enough slots, so nobody is suspended.
CONSTANTS
    Carpinchos = {c1, c2, c3}
    GradoMultiprocesamiento = 1
    GradoMultiprogramacion = 8
    Semaforos = {}
    SemaforosCreados = {}
    ValorInicial = 0
    Dispositivos = {disco}
    MaxLlamadas = 2
    Operaciones = {"call_io", "memoria", "close"}
    MemoriaPuedeFallar = FALSE
    Nadie = Nadie
SYMMETRY Simetria
SPECIFICATION Spec
INVARIANTS
    CPULibreSinOcupante
    GradoMultiprocesamientoRespetado
CHECK_DEADLOCK FALSE
