\* The sizes of the code; requests that leave little room, that must be split and
\* that end at the end of a page.
CONSTANTS
    HEAP_METADATA_SIZE = 9
    tamanioDePagina = 32
    Tamanios = {5, 14, 23}
    MaxPaginas = 3
    SwampPuedeRechazar = TRUE
    Nada = Nada
    OK = OK
    Falla = Falla
SPECIFICATION SpecJusta
INVARIANTS
    TypeOK
    CadenaCorrecta
    ReservasEnElHeap
    SinFugas
PROPERTIES
    ImplementaReservas
    MemallocTermina
CHECK_DEADLOCK FALSE
