CONSTANTS
    HEAP_METADATA_SIZE = 9
    tamanioDePagina = 32
    Tamanios = {5, 14, 23}
    MaxPaginas = 3
    SwampPuedeRechazar = FALSE
    Nada = Nada
    OK = OK
    Falla = Falla
SPECIFICATION Spec
PROPERTIES
    AllocNuevo
CHECK_DEADLOCK FALSE
