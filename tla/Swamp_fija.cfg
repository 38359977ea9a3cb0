\* Three processes that come and go; two blocks and a spare frame in one file.
CONSTANTS
    Procesos = {p1, p2, p3}
    Paginas = {g1, g2}
    Contenidos = {x, y}
    CantidadArchivos = 1
    FramesPorArchivo = 5
    MarcosPorCarpincho = 2
    TiposMemoria = {"fija"}
    Terminan = {p1, p2, p3}
    MaxFilas = 8
    Libre = Libre
    Vacio = Vacio
    Basura = Basura
SPECIFICATION Spec
SYMMETRY Simetria
INVARIANTS
    TypeOK
    CapacidadRespetada
    MarcosContiguos
PROPERTIES
    ImplementaAlmacen
CHECK_DEADLOCK FALSE
