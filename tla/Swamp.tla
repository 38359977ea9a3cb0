-------------------------------- MODULE Swamp --------------------------------
(***************************************************************************)
(* Swamp, the swap server (swamp/src/swap.c, swamp/src/consola.c).  It     *)
(* serves one connection, that of memoria, one message after the other: a  *)
(* message is one action.  Each swap file has an inverted page table, a    *)
(* list whose i-th row stands for frame i; get_frame_number finds the frame*)
(* of a page by the position of its row.                                   *)
(***************************************************************************)
EXTENDS Integers, FiniteSets, SequencesExt

CONSTANTS
    Procesos,            \* one that ended stands for a new one from then on
    Paginas, Contenidos,
    CantidadArchivos,    \* ARCHIVOS_SWAMP
    FramesPorArchivo,    \* TAMANIO_SWAMP / TAMANIO_PAGINA
    MarcosPorCarpincho,  \* MARCOS_POR_CARPINCHO
    TiposMemoria,        \* the assignments memoria may ask for
    Terminan,            \* the processes that end in this instance
    MaxFilas,            \* bound: rows of a page table
    Libre,               \* 9999, as a process or as a page; no entry in swap_dict
    Vacio,               \* a frame of zeros
    Basura               \* bytes that are not those of a frame

ASSUME ConstantesValidas ==
    /\ IsFiniteSet(Procesos)
    /\ CantidadArchivos \in Nat /\ FramesPorArchivo \in Nat
    /\ MarcosPorCarpincho \in Nat \ {0} /\ MaxFilas \in Nat
    /\ TiposMemoria \subseteq {"fija", "dinamica"} /\ Terminan \subseteq Procesos
    /\ Libre \notin Procesos \cup Paginas \cup 1 .. CantidadArchivos
    /\ {Vacio, Basura} \cap Contenidos = {}

Archivos == 1 .. CantidadArchivos
Frames == 0 .. (FramesPorArchivo - 1)

VARIABLES
    tabla_paginas,    \* the page table of each file
    swap_file,        \* the frames of each file
    swap_dict,        \* the file of each process
    tipo_asignacion,
    respuesta         \* the last answer sent to memoria

vars == <<tabla_paginas, swap_file, swap_dict, tipo_asignacion, respuesta>>

Fila(p, g) == [proceso |-> p, pagina |-> g]
FilaLibre == Fila(Libre, Libre)

Respuesta(p, g, x, resultado) ==
    [proceso |-> p, pagina |-> g, contenido |-> x, resultado |-> resultado]
SinRespuesta == Respuesta(Libre, Libre, Libre, "ninguna")

\* tipo_asignacion is a global of C: 0 is the fixed assignment.
Init ==
    /\ tabla_paginas = [f \in Archivos |-> << >>]
    /\ swap_file = [f \in Archivos |-> [i \in Frames |-> Vacio]]
    /\ swap_dict = [p \in Procesos |-> Libre]
    /\ tipo_asignacion = "fija"
    /\ respuesta = SinRespuesta

-----------------------------------------------------------------------------
(* Searches in a page table.  Frames are counted from 0, rows from 1.      *)

\* tabla_paginas_size: the rows in use.
tabla_paginas_size(f) ==
    Cardinality({i \in DOMAIN tabla_paginas[f] : tabla_paginas[f][i].proceso # Libre})

FramesLibres(f) == FramesPorArchivo - tabla_paginas_size(f)

\* The first of the files with most free frames, if it has any.
swap_file_menos_ocupado ==
    {f \in Archivos :
        /\ FramesLibres(f) > 0
        /\ \A g \in Archivos : IF g < f THEN FramesLibres(g) < FramesLibres(f)
                                        ELSE FramesLibres(g) <= FramesLibres(f)}

\* The position of the first row of a set, or one past the last row.
Posicion(f, filas) ==
    LET i == SelectInSeq(tabla_paginas[f], LAMBDA fila : fila \in filas)
    IN  IF i = 0 THEN Len(tabla_paginas[f]) ELSE i - 1

get_frame_number(f, p, g) == Posicion(f, {Fila(p, g)})

\* Faulty variant of get_first_free_frame_number: only the rows of p are looked at.
PrimerFrameReservado(f, p) == Posicion(f, {Fila(p, Libre)})
get_first_free_frame_number(f, p) == Posicion(f, {FilaLibre, Fila(p, Libre)})

pagina_esta_en_swap(f, p, g) == Fila(p, g) \in Range(tabla_paginas[f])

-----------------------------------------------------------------------------
(* Steps that saving a page is made of.                                    *)

\* memcpy to a frame; what lies past the last frame is not modelled.
EscribeFrame(f, i, x) ==
    swap_file' = IF i \in Frames THEN [swap_file EXCEPT ![f][i] = x] ELSE swap_file

CambiaTabla(f, tabla) ==
    /\ Len(tabla) <= MaxFilas
    /\ tabla_paginas' = [tabla_paginas EXCEPT ![f] = tabla]

\* Faulty variant of Asigna: the process is not entered in the dictionary.
NoAsigna(p, f) == UNCHANGED swap_dict
Asigna(p, f) == swap_dict' = [swap_dict EXCEPT ![p] = f]

\* Faulty variant of Reemplaza: frames are counted from 1 as rows are.
ReemplazaDesfasado(tabla, i, filas) ==
    [k \in DOMAIN tabla |-> IF k - i + 1 \in DOMAIN filas THEN filas[k - i + 1] ELSE tabla[k]]

\* Some rows of a list are replaced, from that of frame i on.
Reemplaza(tabla, i, filas) ==
    [k \in DOMAIN tabla |-> IF k - i \in DOMAIN filas THEN filas[k - i] ELSE tabla[k]]

\* Faulty variants of Bloque: the frames without a page yet are marked with page 0;
\* one frame less is reserved.
BloqueEnCero(p, g) ==
    [k \in 1 .. MarcosPorCarpincho |-> Fila(p, IF k = 1 THEN g ELSE 0)]
BloqueCorto(p, g) ==
    [k \in 1 .. (MarcosPorCarpincho - 1) |-> Fila(p, IF k = 1 THEN g ELSE Libre)]

\* The rows a process gets with its first page under the fixed assignment.
Bloque(p, g) ==
    [k \in 1 .. MarcosPorCarpincho |-> Fila(p, IF k = 1 THEN g ELSE Libre)]

Guardada(p, g, x) == respuesta' = Respuesta(p, g, x, "guardada")
SinEspacio(p, g, x) ==
    /\ respuesta' = Respuesta(p, g, x, "sin_espacio")
    /\ UNCHANGED <<tabla_paginas, swap_file, swap_dict>>

\* A page that is already in swap is overwritten in its frame.
Sobreescribe(p, g, x) ==
    LET f == swap_dict[p]
    IN  /\ f # Libre /\ pagina_esta_en_swap(f, p, g)
        /\ EscribeFrame(f, get_frame_number(f, p, g), x)
        /\ Guardada(p, g, x)
        /\ UNCHANGED <<tabla_paginas, swap_dict>>

-----------------------------------------------------------------------------
(* Fixed assignment: a process gets MarcosPorCarpincho rows at once.       *)

\* Faulty variant of EntraBloque: one free frame is enough.
EntraUnaPagina(f) == 1 <= FramesLibres(f)
EntraBloque(f) == MarcosPorCarpincho <= FramesLibres(f)

\* The rows are those of a process that ended when there are more rows after the
\* first free one, and new ones otherwise.
PrimeraFija(p, g, x) ==
    /\ swap_dict[p] = Libre
    /\ \E f \in swap_file_menos_ocupado :
        LET i == get_first_free_frame_number(f, p)
            tabla == tabla_paginas[f]
        IN  /\ EntraBloque(f)
            /\ Asigna(p, f)
            /\ EscribeFrame(f, i, x)
            /\ CambiaTabla(f, IF Len(tabla) - 1 > i THEN Reemplaza(tabla, i, Bloque(p, g))
                                                    ELSE tabla \o Bloque(p, g))
            /\ Guardada(p, g, x)

PrimeraFijaSinEspacio(p, g, x) ==
    /\ swap_dict[p] = Libre
    /\ ~\E f \in swap_file_menos_ocupado : EntraBloque(f)
    /\ SinEspacio(p, g, x)

\* A new page takes a row reserved for its process.
OtraFija(p, g, x) ==
    LET f == swap_dict[p]
        i == get_frame_number(f, p, Libre)
    IN  /\ f # Libre /\ ~pagina_esta_en_swap(f, p, g)
        /\ IF i = tabla_paginas_size(f)
           THEN SinEspacio(p, g, x)
           ELSE /\ EscribeFrame(f, i, x)
                /\ CambiaTabla(f, Reemplaza(tabla_paginas[f], i, <<Fila(p, g)>>))
                /\ Guardada(p, g, x)
                /\ UNCHANGED swap_dict

guardar_pagina_asignacion_fija(p, g, x) ==
    \/ PrimeraFija(p, g, x) \/ PrimeraFijaSinEspacio(p, g, x)
    \/ OtraFija(p, g, x) \/ Sobreescribe(p, g, x)

-----------------------------------------------------------------------------
(* Dynamic assignment: a process gets one row for each page.               *)

\* Whether the row is replaced is decided by the number of rows in use.
PrimeraDinamica(p, g, x) ==
    /\ swap_dict[p] = Libre
    /\ \E f \in swap_file_menos_ocupado :
        LET i == get_first_free_frame_number(f, p)
            tabla == tabla_paginas[f]
        IN  /\ Asigna(p, f)
            /\ EscribeFrame(f, i, x)
            /\ CambiaTabla(f, IF tabla_paginas_size(f) - 1 > i
                              THEN Reemplaza(tabla, i, <<Fila(p, g)>>)
                              ELSE Append(tabla, Fila(p, g)))
            /\ Guardada(p, g, x)

PrimeraDinamicaSinEspacio(p, g, x) ==
    /\ swap_dict[p] = Libre /\ swap_file_menos_ocupado = {}
    /\ SinEspacio(p, g, x)

\* Faulty variant of ArchivoLleno: one more row than there are frames.
ArchivoRebalsado(f) == tabla_paginas_size(f) > FramesPorArchivo
ArchivoLleno(f) == tabla_paginas_size(f) >= FramesPorArchivo

\* A new page is written in the first free frame and its row goes to the end.
OtraDinamica(p, g, x) ==
    LET f == swap_dict[p]
    IN  /\ f # Libre /\ ~pagina_esta_en_swap(f, p, g)
        /\ IF ArchivoLleno(f)
           THEN SinEspacio(p, g, x)
           ELSE /\ EscribeFrame(f, get_first_free_frame_number(f, p), x)
                /\ CambiaTabla(f, Append(tabla_paginas[f], Fila(p, g)))
                /\ Guardada(p, g, x)
                /\ UNCHANGED swap_dict

guardar_pagina_asignacion_dinamica(p, g, x) ==
    \/ PrimeraDinamica(p, g, x) \/ PrimeraDinamicaSinEspacio(p, g, x)
    \/ OtraDinamica(p, g, x) \/ Sobreescribe(p, g, x)

-----------------------------------------------------------------------------
(* The messages of memoria.                                                *)

\* memoria sends the assignment once, before anything else.
TipoAsignacion ==
    /\ respuesta = SinRespuesta
    /\ tipo_asignacion' \in TiposMemoria
    /\ respuesta' = [respuesta EXCEPT !.resultado = "tipo"]
    /\ UNCHANGED <<tabla_paginas, swap_file, swap_dict>>

guardar_pagina(p, g, x) ==
    /\ respuesta # SinRespuesta
    /\ \/ tipo_asignacion = "fija" /\ guardar_pagina_asignacion_fija(p, g, x)
       \/ tipo_asignacion = "dinamica" /\ guardar_pagina_asignacion_dinamica(p, g, x)
    /\ UNCHANGED tipo_asignacion

LeeFrame(f, i) == IF i \in Frames THEN swap_file[f][i] ELSE Basura

\* A page without a row is read past the last row; a process without a file gets
\* the bytes of a buffer that was freed.
obtener_pagina(p, g) ==
    LET f == swap_dict[p]
        i == get_frame_number(f, p, g)
    IN  /\ respuesta # SinRespuesta
        /\ respuesta' = Respuesta(p, g, IF f = Libre THEN Basura ELSE LeeFrame(f, i), "leida")
        /\ UNCHANGED <<tabla_paginas, swap_file, swap_dict, tipo_asignacion>>

\* Faulty variant of FilasDe: the rows reserved for p are left as they are.
FilasConPagina(f, p) ==
    {k \in DOMAIN tabla_paginas[f] :
        tabla_paginas[f][k].proceso = p /\ tabla_paginas[f][k].pagina # Libre}
FilasDe(f, p) == {k \in DOMAIN tabla_paginas[f] : tabla_paginas[f][k].proceso = p}

\* The rows of the process are marked free and their frames are set to zero.
\* Nothing is answered.
finalizar_proceso(p) ==
    LET f == swap_dict[p]
    IN  /\ respuesta # SinRespuesta /\ p \in Terminan /\ f # Libre
        /\ tabla_paginas' = [tabla_paginas EXCEPT ![f] =
              [k \in DOMAIN @ |-> IF k \in FilasDe(f, p) THEN FilaLibre ELSE @[k]]]
        /\ swap_file' = [swap_file EXCEPT ![f] =
              [i \in Frames |-> IF i + 1 \in FilasDe(f, p) THEN Vacio ELSE @[i]]]
        /\ swap_dict' = [swap_dict EXCEPT ![p] = Libre]
        /\ UNCHANGED <<tipo_asignacion, respuesta>>

consola ==
    \/ TipoAsignacion
    \/ \E p \in Procesos :
          \/ finalizar_proceso(p)
          \/ \E g \in Paginas : \/ obtener_pagina(p, g)
                                \/ \E x \in Contenidos : guardar_pagina(p, g, x)

Next == consola
Spec == Init /\ [][Next]_vars

-----------------------------------------------------------------------------
(* Properties.                                                             *)

\* Every variable has its type.
TypeOK ==
    /\ tabla_paginas \in [Archivos -> Seq([proceso : Procesos \cup {Libre},
                                           pagina : Paginas \cup {Libre}])]
    /\ swap_file \in [Archivos -> [Frames -> Contenidos \cup {Vacio}]]
    /\ swap_dict \in [Procesos -> Archivos \cup {Libre}]
    /\ tipo_asignacion \in {"fija", "dinamica"}
    /\ respuesta \in [proceso : Procesos \cup {Libre}, pagina : Paginas \cup {Libre},
                     contenido : Contenidos \cup {Vacio, Basura, Libre},
                     resultado : {"ninguna", "tipo", "guardada", "sin_espacio", "leida"}]

\* No file has more rows in use than frames, whatever is freed and taken again.
CapacidadRespetada == \A f \in Archivos : tabla_paginas_size(f) <= FramesPorArchivo

\* The rows of a process are in its file only, and no page has two rows.
CadaPaginaEnSuArchivo ==
    \A f \in Archivos : \A k \in DOMAIN tabla_paginas[f] :
        LET fila == tabla_paginas[f][k]
        IN  fila.proceso # Libre =>
                /\ swap_dict[fila.proceso] = f
                /\ fila.pagina # Libre =>
                     \A j \in DOMAIN tabla_paginas[f] : tabla_paginas[f][j] = fila => j = k

\* Under the fixed assignment a process has MarcosPorCarpincho frames, contiguous,
\* from its first page until it ends.
MarcosContiguos ==
    tipo_asignacion = "fija" =>
        \A p \in Procesos : swap_dict[p] # Libre =>
            LET tabla == tabla_paginas[swap_dict[p]]
            IN  \E i \in Frames : {k \in DOMAIN tabla : tabla[k].proceso = p}
                                     = i + 1 .. i + MarcosPorCarpincho

\* What swamp reads for a page: the frame of the position of its row.
Leida(p, g) ==
    LET f == swap_dict[p]
    IN  IF f = Libre THEN Libre
        ELSE IF pagina_esta_en_swap(f, p, g) THEN LeeFrame(f, get_frame_number(f, p, g))
        ELSE Libre

Almacen == INSTANCE AlmacenPaginas
    WITH Nada <- Libre, Ruido <- {Vacio, Basura},
         guardadas <- [pagina \in Procesos \X Paginas |-> Leida(pagina[1], pagina[2])],
         respuesta <- IF respuesta.resultado = "tipo" THEN SinRespuesta ELSE respuesta

\* Swamp is a store of pages: what is answered as saved is what is read back, until
\* it is overwritten or its process ends.
ImplementaAlmacen == Almacen!Spec
=============================================================================
