\* Progress of the planners under the fairness of the threads, one CPU.
CONSTANTS
    Carpinchos = {c1, c2}
    GradoMultiprocesamiento = 1
    GradoMultiprogramacion = 1
    Semaforos = {}
    SemaforosCreados = {}
    ValorInicial = 0
    Dispositivos = {disco}
    MaxLlamadas = 2
    Operaciones = {"call_io", "close"}
    MemoriaPuedeFallar = FALSE
    Nadie = Nadie
SPECIFICATION SpecJusta
PROPERTIES
    GradoLibreSeUsa
    
    IoVuelve
CHECK_DEADLOCK FALSE
