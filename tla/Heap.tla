--------------------------------- MODULE Heap ---------------------------------
(***************************************************************************)
(* The heap of one carpincho (memoria/src/memory_utils.c): a chain of      *)
(* headers laid out in its pages, that memalloc searches and extends and   *)
(* memfree joins.  lastHeap is the address of the last header, after which *)
(* there is nothing.  A carpincho has one call at a time and only its own  *)
(* calls touch its heap; that its pages keep what is written in them is    *)
(* the matter of Paginacion.                                               *)
(***************************************************************************)
EXTENDS Integers

CONSTANTS
    HEAP_METADATA_SIZE,
    tamanioDePagina,
    Tamanios,            \* what the carpincho asks for
    MaxPaginas,          \* bound: pages of the process
    SwampPuedeRechazar,  \* whether swamp may have no room for a new page
    Nada, OK, Falla      \* no answer yet, the answers of the other calls

ASSUME ConstantesValidas ==
    /\ HEAP_METADATA_SIZE \in Nat \ {0} /\ tamanioDePagina \in Nat
    /\ tamanioDePagina > HEAP_METADATA_SIZE
    /\ Tamanios \subseteq Nat \ {0}
    /\ MaxPaginas \in Nat /\ SwampPuedeRechazar \in BOOLEAN

VARIABLES
    cabecera,    \* the headers written, by their address
    lastHeap,
    paginas,     \* how many pages the process has
    hilo,        \* the call: its search is at allocActual
    viva,        \* memoria neither crashed nor hung
    intacta,     \* history: no page with blocks was taken out
    reservas,    \* history: the space asked for each block held
    respuesta    \* the last answer

vars == <<cabecera, lastHeap, paginas, hilo, viva, intacta, reservas, respuesta>>

Cabecera(prev, next, libre) == [prevAlloc |-> prev, nextAlloc |-> next, isfree |-> libre]
Libre == [pc |-> "libre", espacio |-> 0, allocActual |-> 0]
Busca(n, d) == [pc |-> "busca", espacio |-> n, allocActual |-> d]

\* A function with one more value.
Con(f, d, x) == [e \in DOMAIN f \cup {d} |-> IF e = d THEN x ELSE f[e]]

\* The page of an address, counted from 1.
Pagina(dir) == dir \div tamanioDePagina + 1
Fin(d) == d + HEAP_METADATA_SIZE - 1

\* inicializarUnProceso: one page, a free header and nothing after it.
Init ==
    /\ cabecera = [d \in {0} |-> Cabecera(0, 0, TRUE)]
    /\ lastHeap = 0 /\ paginas = 1
    /\ hilo = Libre
    /\ viva = TRUE /\ intacta = TRUE
    /\ reservas = << >> /\ respuesta = Nada

-----------------------------------------------------------------------------
(* memalloc.                                                               *)

\* The room after the last header and the one to be written at the end.
Disponible == paginas * tamanioDePagina - lastHeap - HEAP_METADATA_SIZE
EntraAlFinal(n) == Disponible >= n + HEAP_METADATA_SIZE

\* Faulty variant of PaginasQueFaltan: rounded down.
PaginasJustas(n) == (n + HEAP_METADATA_SIZE - Disponible) \div tamanioDePagina
PaginasQueFaltan(n) ==
    (n + HEAP_METADATA_SIZE - Disponible) \div tamanioDePagina + 1

\* Bound: the pages of the process, and nothing is asked of a heap whose end was
\* taken out.
Acotada(n) ==
    /\ EntraAlFinal(n) \/ paginas + PaginasQueFaltan(n) <= MaxPaginas
    /\ lastHeap \in DOMAIN cabecera

\* Faulty variant of Pide: the header is added to the space that is searched for.
PideConCabecera(n) == hilo' = Busca(n + HEAP_METADATA_SIZE, 0)
Pide(n) == hilo' = Busca(n, 0)

memalloc(n) ==
    /\ viva /\ hilo = Libre /\ Acotada(n)
    /\ Pide(n) /\ respuesta' = Nada
    /\ UNCHANGED <<cabecera, lastHeap, paginas, viva, intacta, reservas>>

Buscando(d, n) == viva /\ hilo.pc = "busca" /\ d = hilo.allocActual /\ n = hilo.espacio
EnMemoria(d) == d \in DOMAIN cabecera /\ Pagina(Fin(d)) <= paginas

\* Faulty variant of Sirve: the header of the block counts as room.
SirveConCabecera(d, n) == cabecera[d].isfree /\ cabecera[d].nextAlloc - d >= n
Sirve(d, n) ==
    cabecera[d].isfree /\ cabecera[d].nextAlloc - d - HEAP_METADATA_SIZE >= n

\* entraEnElEspacioLibre: the first free block with room, in the order of the chain.
SigueBuscando(d, n) ==
    /\ Buscando(d, n) /\ d < lastHeap /\ EnMemoria(d) /\ ~Sirve(d, n)
    /\ hilo' = Busca(n, cabecera[d].nextAlloc)
    /\ UNCHANGED <<cabecera, lastHeap, paginas, viva, intacta, reservas, respuesta>>

Responde(d, n) ==
    /\ hilo' = Libre
    /\ respuesta' = d
    /\ reservas' = Con(reservas, d, n)

\* A block with room for another header is to be split, but memory_mutex is held
\* while mandarPaginaAgonza takes it again: the thread, and memoria, stop for ever.
SobraLugar(d, n) ==
    cabecera[d].nextAlloc - (d + HEAP_METADATA_SIZE) > n + HEAP_METADATA_SIZE

Encuentra(d, n) ==
    /\ Buscando(d, n) /\ d < lastHeap /\ EnMemoria(d) /\ Sirve(d, n)
    /\ cabecera' = [cabecera EXCEPT ![d].isfree = FALSE]
    /\ \/ SobraLugar(d, n) /\ viva' = FALSE /\ UNCHANGED <<hilo, respuesta, reservas>>
       \/ ~SobraLugar(d, n) /\ Responde(d, n) /\ UNCHANGED viva
    /\ UNCHANGED <<lastHeap, paginas, intacta>>

NoEncuentra(d, n) == Buscando(d, n) /\ d >= lastHeap

\* The last header becomes that of the new block, and a new one ends the heap.
Encadena(n) ==
    LET nuevo == lastHeap + n + HEAP_METADATA_SIZE
        ultimo == Cabecera(cabecera[lastHeap].prevAlloc, nuevo, FALSE)
    IN  Con([cabecera EXCEPT ![lastHeap] = ultimo], nuevo, Cabecera(lastHeap, 0, FALSE))

\* lastHeap advances even if swamp refused the pages.
Agrega(n) ==
    /\ lastHeap' = lastHeap + n + HEAP_METADATA_SIZE
    /\ Responde(lastHeap, n)
    /\ UNCHANGED viva

AlFinal(d, n) ==
    /\ NoEncuentra(d, n) /\ EntraAlFinal(n)
    /\ Agrega(n)
    /\ cabecera' = Encadena(n)
    /\ UNCHANGED <<paginas, intacta>>

\* What is left of the headers when only the first pages are.
Hasta(cabeceras, pagina) ==
    [d \in {e \in DOMAIN cabeceras : Pagina(Fin(e)) <= pagina} |-> cabeceras[d]]

\* Pages are added for both headers; if swamp refused one they are taken out, the
\* header at the end with them.
Crece(d, n) ==
    /\ NoEncuentra(d, n) /\ ~EntraAlFinal(n)
    /\ Agrega(n)
    /\ \/ /\ paginas' = paginas + PaginasQueFaltan(n)
          /\ cabecera' = Encadena(n)
          /\ UNCHANGED intacta
       \/ /\ SwampPuedeRechazar
          /\ cabecera' = Hasta(Encadena(n), paginas)
          /\ intacta' = FALSE
          /\ UNCHANGED paginas

-----------------------------------------------------------------------------
(* memfree.                                                                *)

EsSuyo(d) == viva /\ hilo = Libre /\ d \in DOMAIN reservas

Olvida(d) == reservas' = [e \in DOMAIN reservas \ {d} |-> reservas[e]]

\* Faulty variant of Liberada: the header is left as it was.
NoLiberada(d) == cabecera
Liberada(d) == [cabecera EXCEPT ![d].isfree = TRUE]
Anterior(d) == cabecera[d].prevAlloc

\* Faulty variant of Une: the block before is chained to itself.
UneConsigo(d) ==
    LET previo == Anterior(d)
    IN  [e \in DOMAIN cabecera \ {d} |->
            IF e = previo THEN [cabecera[e] EXCEPT !.nextAlloc = previo] ELSE cabecera[e]]
\* Faulty variant of Une: the block after keeps its link to the block freed.
UneSoloAnterior(d) ==
    LET previo == Anterior(d)
    IN  [e \in DOMAIN cabecera \ {d} |->
            IF e = previo THEN [cabecera[e] EXCEPT !.nextAlloc = cabecera[d].nextAlloc]
            ELSE cabecera[e]]
\* The block before, free, takes the place of both: the chain skips the header of d.
Une(d) ==
    LET previo == Anterior(d)
        siguiente == cabecera[d].nextAlloc
    IN  [e \in DOMAIN cabecera \ {d} |->
            IF e = previo THEN [cabecera[e] EXCEPT !.nextAlloc = siguiente]
            ELSE IF e = siguiente THEN [cabecera[e] EXCEPT !.prevAlloc = previo]
            ELSE cabecera[e]]

UneAnterior(d) == d # 0 /\ Anterior(d) \in DOMAIN cabecera /\ cabecera[Anterior(d)].isfree

\* The header before ends in the page before, and the page of d is the last one: it
\* is deleted and the block before becomes the end of the heap, though it is in use.
SacaPagina(d) ==
    d # 0 /\ ~UneAnterior(d) /\ Pagina(Fin(Anterior(d))) + 1 = Pagina(d) /\ Pagina(d) = paginas

\* The byte after the header is looked for too, in the page after if it is there.
EnMemoriaYMas(d) == EnMemoria(d) /\ Pagina(d + HEAP_METADATA_SIZE) <= paginas

memfree(d) ==
    /\ EsSuyo(d) /\ d <= lastHeap /\ EnMemoriaYMas(d)
    /\ Olvida(d) /\ respuesta' = OK
    /\ UNCHANGED <<hilo, viva>>
    /\ \/ /\ UneAnterior(d)
          /\ cabecera' = Une(d)
          /\ UNCHANGED <<lastHeap, paginas, intacta>>
       \/ /\ SacaPagina(d)
          /\ cabecera' = Hasta(cabecera, paginas - 1)
          /\ lastHeap' = Anterior(d) /\ paginas' = paginas - 1
          /\ intacta' = FALSE
       \/ /\ ~UneAnterior(d) /\ ~SacaPagina(d)
          /\ cabecera' = Liberada(d)
          /\ UNCHANGED <<lastHeap, paginas, intacta>>

memfreeFalla(d) ==
    /\ EsSuyo(d) /\ d > lastHeap
    /\ respuesta' = Falla
    /\ UNCHANGED <<cabecera, lastHeap, paginas, hilo, viva, intacta, reservas>>

-----------------------------------------------------------------------------
(* Reads and writes of a block the carpincho holds, within its space.      *)

EnPaginas(d) == Pagina(Fin(d) + reservas[d]) <= paginas

Accede(d, permitido) ==
    /\ EsSuyo(d) /\ (permitido => EnPaginas(d))
    /\ respuesta' = IF permitido THEN OK ELSE Falla
    /\ UNCHANGED <<cabecera, lastHeap, paginas, hilo, viva, intacta, reservas>>

memread(d) == Accede(d, d < lastHeap)
memwrite(d) == Accede(d, d + HEAP_METADATA_SIZE < lastHeap)

\* A null pointer is followed when a page the table has not is looked for.
PaginaInexistente(d) ==
    /\ \/ hilo.pc = "busca" /\ Buscando(d, hilo.espacio) /\ d < lastHeap /\ Pagina(Fin(d)) > paginas
       \/ EsSuyo(d) /\ d < lastHeap /\ ~EnPaginas(d)
       \/ EsSuyo(d) /\ d = lastHeap /\ Pagina(d + HEAP_METADATA_SIZE) > paginas
    /\ viva' = FALSE
    /\ UNCHANGED <<cabecera, lastHeap, paginas, hilo, intacta, reservas, respuesta>>

Sigue ==
    LET d == hilo.allocActual
        n == hilo.espacio
    IN  SigueBuscando(d, n) \/ Encuentra(d, n) \/ AlFinal(d, n) \/ Crece(d, n)

Next ==
    \/ \E n \in Tamanios : memalloc(n)
    \/ Sigue
    \/ \E d \in DOMAIN reservas :
          memfree(d) \/ memfreeFalla(d) \/ memread(d) \/ memwrite(d)
    \/ \E d \in DOMAIN reservas \cup {hilo.allocActual} : PaginaInexistente(d)

Spec == Init /\ [][Next]_vars
\* The thread of a call goes on.
SpecJusta == Spec /\ WF_vars(Sigue)

-----------------------------------------------------------------------------
(* Properties.                                                             *)

\* Every variable has its type.
TypeOK ==
    /\ DOMAIN cabecera \subseteq Nat
    /\ \A d \in DOMAIN cabecera :
          cabecera[d] \in [prevAlloc : Nat, nextAlloc : Nat, isfree : BOOLEAN]
    /\ lastHeap \in Nat /\ paginas \in Nat
    /\ hilo \in [pc : {"libre", "busca"}, espacio : Tamanios \cup {0}, allocActual : Nat]
    /\ viva \in BOOLEAN /\ intacta \in BOOLEAN
    /\ DOMAIN reservas \subseteq Nat
    /\ \A d \in DOMAIN reservas : reservas[d] \in Tamanios

\* The headers tile the heap from 0 to lastHeap: each is followed by the one its
\* nextAlloc names, that names it back, with its data and no header in between, and
\* all but the first are reached so.
CadenaCorrecta ==
    intacta =>
        /\ {0, lastHeap} \subseteq DOMAIN cabecera
        /\ \A d \in DOMAIN cabecera : d <= lastHeap
        /\ \A d \in DOMAIN cabecera \ {lastHeap} :
              LET siguiente == cabecera[d].nextAlloc
              IN  /\ siguiente \in DOMAIN cabecera
                  /\ d + HEAP_METADATA_SIZE < siguiente
                  /\ cabecera[siguiente].prevAlloc = d
                  /\ \A e \in DOMAIN cabecera : e <= d \/ siguiente <= e
        /\ \A d \in DOMAIN cabecera \ {0} :
              LET previo == cabecera[d].prevAlloc
              IN  previo \in DOMAIN cabecera \ {lastHeap} /\ cabecera[previo].nextAlloc = d

\* A block held has a header that marks it in use and the space asked for before the
\* next header, and the heap lies in pages that the process has.
ReservasEnElHeap ==
    intacta =>
        /\ \A d \in DOMAIN reservas :
              /\ d \in DOMAIN cabecera \ {lastHeap} /\ ~cabecera[d].isfree
              /\ d + HEAP_METADATA_SIZE + reservas[d] <= cabecera[d].nextAlloc
        /\ lastHeap + HEAP_METADATA_SIZE <= paginas * tamanioDePagina

\* Every block marked in use is held: none is lost to the carpincho.
SinFugas ==
    intacta /\ viva =>
        \A d \in DOMAIN cabecera \ {lastHeap} : d \in DOMAIN reservas \/ cabecera[d].isfree

Abstracto == INSTANCE Reservas WITH fiable <- intacta

\* memalloc gives blocks that are nobody's, memfree gives back one, and accesses to
\* the blocks held do not fail, until a page with blocks is taken out.
ImplementaReservas == Abstracto!Spec

\* Every search ends: the chain it follows has no cycle.
MemallocTermina == (hilo.pc = "busca") ~> (hilo.pc = "libre" \/ ~viva)

\* memalloc generates "un nuevo alloc al final del espacio de direcciones", where
\* there is no block that the carpincho holds.
AllocNuevo ==
    [][\A d \in DOMAIN reservas : respuesta' = d => respuesta = d]_vars
=============================================================================
