\* Two carpinchos wait on two semaphores in any order; the detector runs at any time.
CONSTANTS
    Carpinchos = {c1, c2}
    GradoMultiprocesamiento = 2
    GradoMultiprogramacion = 4
    Semaforos = {sem1, sem2}
    SemaforosCreados = {sem1, sem2}
    ValorInicial = 1
    Dispositivos = {}
    MaxLlamadas = 3
    Operaciones = {"sem_wait"}
    MemoriaPuedeFallar = FALSE
    Nadie = Nadie
    OtroId = OtroId
    Basura = Basura
SPECIFICATION DSpecJusta
PROPERTIES
    DeadlockSeResuelve
CHECK_DEADLOCK FALSE
