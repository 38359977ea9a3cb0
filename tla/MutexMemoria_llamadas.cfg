\* Two calls, of any kind.
CONSTANTS
    Servidores = {s1, s2}
SPECIFICATION Spec
INVARIANTS
    TypeOK
    SinEsperaCircular
    MemoriaExclusiva
    MarcoVigente
PROPERTIES
    TodaLlamadaTermina
CHECK_DEADLOCK FALSE
