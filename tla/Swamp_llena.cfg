\* Either assignment while no process ends; more pages than two files hold.
CONSTANTS
    Procesos = {p1, p2}
    Paginas = {g1, g2, g3}
    Contenidos = {x, y}
    CantidadArchivos = 2
    FramesPorArchivo = 2
    MarcosPorCarpincho = 2
    TiposMemoria = {"fija", "dinamica"}
    Terminan = {}
    MaxFilas = 6
    Libre = Libre
    Vacio = Vacio
    Basura = Basura
SPECIFICATION Spec
SYMMETRY Simetria
INVARIANTS
    CadaPaginaEnSuArchivo
PROPERTIES
    ImplementaAlmacen
CHECK_DEADLOCK FALSE
