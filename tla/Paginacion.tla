------------------------------ MODULE Paginacion ------------------------------
(***************************************************************************)
(* The paging of memoria (memoria/src/memory_utils.c), with both kinds of  *)
(* assignment and both replacements: page tables, frames, TLB, and the     *)
(* swap below, which is external here (module Swamp is its server).  The   *)
(* handlers hold utilizacionDePagina_mutex while they use pages, so a      *)
(* critical section of that mutex is one action and what they do outside   *)
(* of it is another (module MutexMemoria).  A page holds one abstract      *)
(* content: any write that touches the page, of data or of a heap header,  *)
(* may change it.                                                          *)
(***************************************************************************)
EXTENDS Integers, FiniteSets, SequencesExt

CONSTANTS
    Procesos,            \* carpinchos; their ids are not used again
    Contenidos,
    CantidadFrames,      \* TAMANIO / TAMANIO_PAGINA
    tipoDeAsignacionDinamica,
    cantidadDePaginasPorProceso,  \* MARCOS_POR_CARPINCHO, for the fixed assignment
    ALGORITMO_REEMPLAZO_MMU,
    max_entradas_tlb,
    SwampPuedeRechazar,  \* whether swamp may have no room for a new page
    MaxPaginas,          \* bound: pages of a process
    Vacio,               \* a frame of zeros
    Basura,              \* bytes nobody wrote
    Nada                 \* no page in swap, no answer, no TLB entry

ASSUME ConstantesValidas ==
    /\ IsFiniteSet(Procesos)
    /\ CantidadFrames \in Nat \ {0} /\ max_entradas_tlb \in Nat
    /\ MaxPaginas \in Nat \ {0} /\ SwampPuedeRechazar \in BOOLEAN
    /\ tipoDeAsignacionDinamica \in BOOLEAN
    /\ ALGORITMO_REEMPLAZO_MMU \in {"LRU", "CLOCK-M"}
    \* Bound: no process has pages reserved that it does not use.
    /\ tipoDeAsignacionDinamica \/ cantidadDePaginasPorProceso = 1
    /\ {Vacio, Basura, Nada} \cap Contenidos = {}
    /\ Nada \notin {Vacio, Basura}

Frames == 0 .. (CantidadFrames - 1)
SinMarco == CantidadFrames + 1   \* the frame of a page that was taken out

VARIABLES
    paginas,           \* the page table of each process, by page number
    lRU,               \* every page, the least recently used first
    memoria,           \* the frames
    tlb_list,
    swap,              \* the pages swamp keeps
    hayQueDegenerar,   \* swamp refused a page since the last growth began
    fuera,             \* lastHeap of each process is beyond its last page
    hilo,              \* the call of each process that is not finished
    viva,              \* memoria neither crashed nor hung
    intacta,           \* history: no page was lost in a way the README lists
    respuesta          \* the answer of the read just done

tablas == <<paginas, lRU, memoria, tlb_list, swap, hayQueDegenerar, intacta>>
vars == <<tablas, viva, fuera, hilo, respuesta>>

Pagina(f) == [frame |-> f, bitPresencia |-> TRUE]
Sacada == [frame |-> SinMarco, bitPresencia |-> FALSE]
Hilo(pc, g) == [pc |-> pc, pagina |-> g]
Libre == Hilo("libre", 0)

Init ==
    /\ paginas = [p \in Procesos |-> << >>]
    /\ lRU = << >>
    /\ memoria = [f \in Frames |-> Basura]
    /\ tlb_list = << >>
    /\ swap = [p \in Procesos |-> [g \in 1 .. MaxPaginas |-> Nada]]
    /\ hayQueDegenerar = FALSE
    /\ fuera = [p \in Procesos |-> FALSE]
    /\ hilo = [p \in Procesos |-> Hilo("no", 0)]
    /\ viva = TRUE /\ intacta = TRUE /\ respuesta = Nada

-----------------------------------------------------------------------------
(* What a critical section does is computed on the state of the tables,    *)
(* page by page; where swamp or the TLB may answer in several ways it is a *)
(* set of states.                                                          *)

Ahora == [paginas |-> paginas, lRU |-> lRU, memoria |-> memoria, tlb |-> tlb_list,
          swap |-> swap, degenerar |-> hayQueDegenerar, intacta |-> intacta, viva |-> viva]

Queda(e) ==
    /\ paginas' = e.paginas /\ lRU' = e.lRU /\ memoria' = e.memoria
    /\ tlb_list' = e.tlb /\ swap' = e.swap
    /\ hayQueDegenerar' = e.degenerar /\ intacta' = e.intacta /\ viva' = e.viva

ConTabla(e, p, tabla) == [e EXCEPT !.paginas = [@ EXCEPT ![p] = tabla]]
ConPagina(e, p, g, pagina) == ConTabla(e, p, ReplaceAt(e.paginas[p], g, pagina))
ConLRU(e, orden) == [e EXCEPT !.lRU = orden]
EnSwap(e, p, g, x) == [e EXCEPT !.swap[p][g] = x]

Luego(estados, Op(_)) == UNION {Op(e) : e \in estados}

\* memcpy from a frame and to it; what lies past the last one is not modelled.
Bytes(e, f) == IF f \in Frames THEN e.memoria[f] ELSE Basura
Escribe(e, f, x) ==
    IF f \in Frames THEN [e EXCEPT !.memoria[f] = x] ELSE [e EXCEPT !.intacta = FALSE]

\* Faulty variant of Asignados: the first page of each table is passed over.
AsignadosSinPrimera(e) ==
    UNION {{e.paginas[p][g].frame : g \in DOMAIN e.paginas[p] \ {1}} : p \in Procesos}
Asignados(e) ==
    UNION {{e.paginas[p][g].frame : g \in DOMAIN e.paginas[p]} : p \in Procesos}

\* Under the fixed assignment, the process has in memory all it may have.
Completo(e, p) ==
    ~tipoDeAsignacionDinamica /\
        Cardinality({g \in DOMAIN e.paginas[p] : e.paginas[p][g].bitPresencia})
            = cantidadDePaginasPorProceso

\* The first frame that no page names, -1 if there is none.
getNewEmptyFrame(e, p) ==
    LET libres == Frames \ Asignados(e)
    IN  IF Completo(e, p) \/ libres = {} THEN -1 ELSE Min(libres)

\* The same for the first page of a process: the search goes one frame too far.
getframeNoAsignadoEnMemoria(e) ==
    Min(0 .. CantidadFrames + 1 \ (Asignados(e) \cap 0 .. CantidadFrames))

\* MEMORY_SEND_SWAP_RECV: swamp overwrites a page it has and may refuse a new one.
\* A refusal is remembered in hayQueDegenerar, which is shared by all the threads.
MandaASwamp(e, p, g, x) ==
    {EnSwap(e, p, g, x)} \cup
        IF SwampPuedeRechazar /\ e.swap[p][g] = Nada
        THEN {[e EXCEPT !.degenerar = TRUE]} ELSE {}

\* Faulty variant of TraeDeSwamp: whatever the page, the first one is asked for.
TraePrimera(e, p, g) == IF e.swap[p][1] = Nada THEN Basura ELSE e.swap[p][1]
TraeDeSwamp(e, p, g) == IF e.swap[p][g] = Nada THEN Basura ELSE e.swap[p][g]

-----------------------------------------------------------------------------
(* TLB.                                                                    *)

Entrada(p, g, f) == [pid |-> p, pagina |-> g, frame |-> f]

delete_entrada_tlb(e, p, g, f) ==
    LET i == SelectInSeq(e.tlb, LAMBDA t : t = Entrada(p, g, f))
    IN  IF i = 0 THEN e ELSE [e EXCEPT !.tlb = ReplaceAt(@, i, Nada)]

\* 0 when no entry is for the page.
fetch_entrada_tlb(e, p, g) ==
    SelectInSeq(e.tlb, LAMBDA t : t # Nada /\ t.pid = p /\ t.pagina = g)

\* The entry replaced may be any: FIFO and LRU choose one of them.
add_entrada_tlb(e, p, g, f) ==
    LET nueva == Entrada(p, g, f)
        vacias == {i \in DOMAIN e.tlb : e.tlb[i] = Nada}
        lugares == IF vacias # {} THEN {Min(vacias)} ELSE DOMAIN e.tlb
    IN  IF max_entradas_tlb = 0 \/ nueva \in Range(e.tlb) THEN {e}
        ELSE IF vacias = {} /\ Len(e.tlb) < max_entradas_tlb
             THEN {[e EXCEPT !.tlb = Append(@, nueva)]}
             ELSE {[e EXCEPT !.tlb = ReplaceAt(@, i, nueva)] : i \in lugares}

-----------------------------------------------------------------------------
(* Replacement.                                                            *)

Presente(e, q) == e.paginas[q[1]][q[2]].bitPresencia

\* Every page that names the frame loses it, and the frame is set to zero.
liberarFrame(e, f) ==
    LET Pierde(pagina) == IF pagina.frame = f THEN Sacada ELSE pagina
        tablas_sin_f == [p \in Procesos |->
            [g \in DOMAIN e.paginas[p] |-> Pierde(e.paginas[p][g])]]
    IN  IF f \in Asignados(e) THEN Escribe([e EXCEPT !.paginas = tablas_sin_f], f, Vacio) ELSE e

\* Faulty variant of Expulsa: the TLB entry is looked for once the page has no frame.
ExpulsaAlReves(e, q, pid) ==
    LET f == e.paginas[q[1]][q[2]].frame
        Guardada(s) == [s EXCEPT !.intacta = @ /\ Presente(e, q) /\ s.swap[q[1]][q[2]] # Nada]
        Borra(s) == delete_entrada_tlb(s, pid, q[2], s.paginas[q[1]][q[2]].frame)
    IN  {Borra(liberarFrame(Guardada(enviado), f)) :
            enviado \in MandaASwamp(e, q[1], q[2], Bytes(e, f))}
\* A page goes to swamp and leaves its frame, even if swamp refused it.  Its TLB
\* entry is looked for under a process.
Expulsa(e, q, pid) ==
    LET f == e.paginas[q[1]][q[2]].frame
        Guardada(s) == [s EXCEPT !.intacta = @ /\ Presente(e, q) /\ s.swap[q[1]][q[2]] # Nada]
    IN  {liberarFrame(delete_entrada_tlb(Guardada(enviado), pid, q[2], f), f) :
            enviado \in MandaASwamp(e, q[1], q[2], Bytes(e, f))}

\* The fixed assignment takes the frames of the process that asks, the dynamic one
\* those of any.
Suya(q, processID) == tipoDeAsignacionDinamica \/ q[1] = processID

\* With no page present, frame 0 is sent as a page of whatever process and number
\* the uninitialised variables hold.
ExpulsaSinVictima(e, processID) ==
    {liberarFrame([enviado EXCEPT !.intacta = FALSE], 0) :
        enviado \in {e} \cup
            {delete_entrada_tlb(EnSwap(e, q[1], q[2], Bytes(e, 0)), processID, q[2], 0) :
                q \in Range(e.lRU)}}

\* The least recently used; the TLB entry is looked for under the process that asks.
seleccionLRU(e, processID) ==
    LET i == SelectInSeq(e.lRU, LAMBDA q : Presente(e, q) /\ Suya(q, processID))
    IN  IF i = 0 THEN ExpulsaSinVictima(e, processID) ELSE Expulsa(e, e.lRU[i], processID)

\* The page of a frame, in memory or not; of a frame that no page names, the last
\* page of a table.
getMarcoDe(e, f) ==
    LET nombran == {q \in Range(e.lRU) : e.paginas[q[1]][q[2]].frame = f}
    IN  IF nombran # {} THEN nombran
        ELSE {<<p, Len(e.paginas[p])>> : p \in {r \in Procesos : e.paginas[r] # << >>}}

\* Faulty variant of EnElReloj: under the fixed assignment too, the pages of all.
EnElRelojDeTodos(e, processID) == UNION {getMarcoDe(e, f) : f \in Frames}
\* The pages the hand of the clock may stop at: bitUso and bitModificado are left out.
EnElReloj(e, processID) ==
    IF tipoDeAsignacionDinamica THEN UNION {getMarcoDe(e, f) : f \in Frames}
    ELSE {q \in Range(e.lRU) : q[1] = processID /\ e.paginas[q[1]][q[2]].frame \in Frames}

\* It may take a second page when it ends where it began, and it turns for ever if
\* there is none.
seleccionClockMejorado(e, processID) ==
    LET Una(s) == UNION {Expulsa(s, q, q[1]) : q \in EnElReloj(s, processID)}
    IN  IF EnElReloj(e, processID) = {} THEN {[e EXCEPT !.viva = FALSE, !.intacta = FALSE]}
        ELSE Una(e) \cup Luego(Una(e), Una)

utilizarAlgritmoDeAsignacion(e, processID) ==
    IF ALGORITMO_REEMPLAZO_MMU = "LRU" THEN seleccionLRU(e, processID)
                                       ELSE seleccionClockMejorado(e, processID)

\* Faulty variant of Usa: the page keeps the place it had too.
UsaDosVeces(e, p, g) == ConLRU(e, Append(e.lRU, <<p, g>>))
\* A page is used: it becomes the most recently used.
Usa(e, p, g) == ConLRU(e, Append(RemoveFirst(e.lRU, <<p, g>>), <<p, g>>))

\* A page that is not in memory: a page leaves, even if there are free frames, and
\* it is read from swamp into the first free frame.
FaltaDePagina(e, p, g) ==
    {LET f == getNewEmptyFrame(sacada, p)
     IN  Escribe(ConPagina(sacada, p, g, Pagina(f)), f, TraeDeSwamp(sacada, p, g)) :
        sacada \in utilizarAlgritmoDeAsignacion(e, p)}

\* The frame of a page: that of its TLB entry if the page is in memory.
getFrameDeUn(e, p, g) ==
    LET i == fetch_entrada_tlb(e, p, g)
        en_memoria == IF e.paginas[p][g].bitPresencia THEN {e} ELSE FaltaDePagina(e, p, g)
        Marco(s) == s.paginas[p][g].frame
    IN  IF i # 0 /\ e.paginas[p][g].bitPresencia
        THEN {[e |-> Usa(e, p, g), frame |-> e.tlb[i].frame]}
        ELSE {[e |-> s, frame |-> Marco(s)] :
                 s \in Luego(en_memoria, LAMBDA t : add_entrada_tlb(Usa(t, p, g), p, g, Marco(t)))}

Toca(e, p, g) == {r.e : r \in getFrameDeUn(e, p, g)}

\* A page is written and sent to swamp at once.
EditaPagina(e, p, g, x) ==
    UNION {LET escrita == Escribe(r.e, r.frame, x)
           IN  MandaASwamp(escrita, p, g, Bytes(escrita, r.frame)) :
              r \in getFrameDeUn(e, p, g)}

\* One operation for each of the numbers from one to another, in order.
EnOrden(Op(_, _), e, desde, hasta) ==
    LET tras[n \in desde - 1 .. hasta] ==
            IF n = desde - 1 THEN {e} ELSE UNION {Op(s, n) : s \in tras[n - 1]}
    IN  tras[hasta]

\* Something is written from one page of a process up to another.
editarAlgoEnMemoria(e, p, desde, hasta, x) ==
    EnOrden(LAMBDA s, g : EditaPagina(s, p, g, x), e, desde, hasta)

\* A page at the end of those of a process, in a free frame or in that of a victim.
PaginaNueva(e, p) ==
    LET con_lugar ==
            IF getNewEmptyFrame(e, p) = -1 THEN utilizarAlgritmoDeAsignacion(e, p) ELSE {e}
    IN  {ConLRU(ConTabla(s, p, Append(s.paginas[p], Pagina(getNewEmptyFrame(s, p)))),
                Append(s.lRU, <<p, Len(s.paginas[p]) + 1>>)) : s \in con_lugar}

\* Under the fixed assignment, when the process has no page in memory the page it
\* takes for a reserved one is its last: it says that it is in memory, and no page
\* is added.
MarcaUltima(e, p) ==
    LET g == Len(e.paginas[p])
    IN  Usa([ConPagina(e, p, g, Pagina(e.paginas[p][g].frame)) EXCEPT !.intacta = FALSE], p, g)

AgregaPagina(e, p) ==
    IF tipoDeAsignacionDinamica \/ getNewEmptyFrame(e, p) = -1 THEN PaginaNueva(e, p)
                                                             ELSE {MarcaUltima(e, p)}

agregarXPaginasPara(e, p, cantidad) ==
    EnOrden(LAMBDA s, i : AgregaPagina(s, p), e, 1, cantidad)

\* The record of a page is destroyed.
Olvida(e, p, g) == ConLRU(e, RemoveFirst(e.lRU, <<p, g>>))

\* The last page of a process is taken out of its table, not out of swamp.
deletePagina(e, p) ==
    LET g == Len(e.paginas[p])
        sin_tlb == delete_entrada_tlb(e, p, g, e.paginas[p][g].frame)
    IN  Olvida(ConTabla(sin_tlb, p, Front(e.paginas[p])), p, g)

\* The pages added are taken out again.
deletePaginas(e, p, cantidad) == EnOrden(LAMBDA s, i : {deletePagina(s, p)}, e, 1, cantidad)

\* The chain of headers is followed, over the pages they lie in.
recorreCabeceras(e, p, cabeceras) ==
    EnOrden(LAMBDA s, g : IF g \in cabeceras THEN Toca(s, p, g) ELSE {s},
            e, 1, Len(e.paginas[p]))

\* Every page of a process is destroyed.
OlvidaTodas(e, p) ==
    EnOrden(LAMBDA s, g : {Olvida(s, p, g)}, ConTabla(e, p, << >>), 1, Len(e.paginas[p]))

-----------------------------------------------------------------------------
(* The calls.                                                              *)

Atiende(p, antes, despues) ==
    /\ viva /\ hilo[p] = antes
    /\ hilo' = [hilo EXCEPT ![p] = despues]
SinMas == UNCHANGED fuera /\ respuesta' = Nada

\* Where the blocks of the heap are is not kept: a header may lie in any page, or
\* across two.
Cabecera(g) == {g, g + 1}

\* The first page gets the first frame no page names, with a header in it.
inicializarUnProceso(p) ==
    /\ Atiende(p, Hilo("no", 0), Libre)
    /\ \E x \in Contenidos :
          LET f == getframeNoAsignadoEnMemoria(Ahora)
          IN  Queda(ConLRU(ConTabla(Escribe(Ahora, f, x), p, <<Pagina(f)>>),
                           Append(lRU, <<p, 1>>)))
    /\ SinMas

\* memread, one page at a time.
memread(p) ==
    \E g \in DOMAIN paginas[p] : \E r \in getFrameDeUn(Ahora, p, g) :
        /\ Atiende(p, Libre, Libre)
        /\ Queda(r.e)
        /\ respuesta' = [proceso |-> p, pagina |-> g, contenido |-> Bytes(r.e, r.frame)]
        /\ UNCHANGED fuera

\* memwrite, on the pages the data lies in.
memwrite(p) ==
    \E desde, hasta \in DOMAIN paginas[p], x \in Contenidos :
        /\ desde <= hasta
        /\ Atiende(p, Libre, Libre) /\ SinMas
        /\ \E e \in editarAlgoEnMemoria(Ahora, p, desde, hasta, x) : Queda(e)

\* entraEnElEspacioLibre: the chain is followed up to its last header.  Here no free
\* block is found.
memallocBusca(p) ==
    /\ Atiende(p, Libre, Hilo("aloca", 0)) /\ SinMas
    /\ ~fuera[p]
    /\ \E cabeceras \in SUBSET DOMAIN paginas[p] :
          \E e \in recorreCabeceras(Ahora, p, cabeceras) : Queda(e)

\* There is room after the last block: its header is written in a critical section,
\* then the new one, in another.
memallocAlFinal(p) ==
    /\ \/ Atiende(p, Hilo("aloca", 0), Hilo("encadena", 0))
       \/ Atiende(p, Hilo("encadena", 0), Libre)
    /\ SinMas
    /\ \E g \in DOMAIN paginas[p], x \in Contenidos :
          \E hasta \in Cabecera(g) \cap DOMAIN paginas[p] :
             \E e \in editarAlgoEnMemoria(Ahora, p, g, hasta, x) : Queda(e)

\* There is no room: pages are added up to page n, the last header is written in
\* its page, and the new one at the end.
memallocCrece(p) ==
    \E n \in Len(paginas[p]) + 1 .. MaxPaginas, d \in DOMAIN paginas[p], x \in Contenidos :
        \E g \in {n - 1, n} : \E hasta \in Cabecera(g) \cap 1 .. n :
            /\ Atiende(p, Hilo("aloca", 0), Hilo("prueba", Len(paginas[p])))
            /\ SinMas
            /\ \E con_paginas \in agregarXPaginasPara([Ahora EXCEPT !.degenerar = FALSE], p,
                                                      n - Len(paginas[p])) :
                 \E escrita \in editarAlgoEnMemoria(con_paginas, p, d, d, x) :
                    \/ /\ hasta <= Len(escrita.paginas[p])
                       /\ \E e \in editarAlgoEnMemoria(escrita, p, g, hasta, x) : Queda(e)
                    \/ hasta > Len(escrita.paginas[p]) /\ Queda([escrita EXCEPT !.viva = FALSE])

\* Out of the critical section hayQueDegenerar is read: the pages added are taken
\* out again, but lastHeap is that of the new header all the same.
memallocPrueba(p) ==
    LET agregadas == Len(paginas[p]) - hilo[p].pagina
    IN  /\ hilo[p].pc = "prueba" /\ Atiende(p, hilo[p], Libre)
        /\ respuesta' = Nada
        /\ \/ ~hayQueDegenerar /\ Queda(Ahora) /\ UNCHANGED fuera
           \/ /\ hayQueDegenerar
              /\ \E e \in deletePaginas(Ahora, p, agregadas) : Queda(e)
              /\ \E queda_fuera \in BOOLEAN : fuera' = [fuera EXCEPT ![p] = queda_fuera]

\* The header of a block in one page is marked free in memory only; one across two
\* pages is written and sent.  The first block of the heap has nothing before it.
memfree(p) ==
    \E g \in DOMAIN paginas[p], x \in Contenidos : \E r \in getFrameDeUn(Ahora, p, g) :
        /\ \/ g = 1 /\ Atiende(p, Libre, Libre)
           \/ Atiende(p, Libre, Hilo("anterior", g))
        /\ SinMas
        /\ \/ Queda(Escribe(r.e, r.frame, x))
           \/ /\ g + 1 \in DOMAIN paginas[p]
              /\ \E s \in getFrameDeUn(r.e, p, g + 1) :
                    LET una == Escribe(s.e, r.frame, x)
                        dos(e) == Escribe(e, s.frame, x)
                    IN  \E enviada \in MandaASwamp(una, p, g, Bytes(una, r.frame)) :
                          \E e \in MandaASwamp(dos(enviada), p, g + 1, Bytes(dos(enviada), s.frame)) :
                             Queda(e)

\* The header of the block before is read in a section of its own.
memfreeAnterior(p) ==
    /\ hilo[p].pc = "anterior" /\ SinMas
    /\ Atiende(p, hilo[p], Hilo("une", hilo[p].pagina))
    /\ \E h \in 1 .. hilo[p].pagina : \E e \in Toca(Ahora, p, h) : Queda(e)

\* If it is free it is chained to the block after; otherwise the page of the block
\* may be deleted if it is the last one: the block before ends in the page before.
memfreeUne(p) ==
    LET g == hilo[p].pagina
    IN  /\ hilo[p].pc = "une" /\ Atiende(p, hilo[p], Libre)
        /\ respuesta' = Nada
        /\ \/ /\ \E h \in 1 .. g, n \in g .. Len(paginas[p]), x \in Contenidos :
                 \E una \in editarAlgoEnMemoria(Ahora, p, h, h, x) :
                    \E e \in editarAlgoEnMemoria(una, p, n, n, x) : Queda(e)
              /\ UNCHANGED fuera
           \/ /\ 1 < g /\ g = Len(paginas[p])
              /\ Queda(deletePagina(Ahora, p))
              /\ fuera' = [fuera EXCEPT ![p] = FALSE]
           \/ Queda(Ahora) /\ UNCHANGED fuera

\* After a growth that failed the heap reaches pages that the table has not: a null
\* pointer is followed when they are looked for.
PaginaInexistente(p) ==
    /\ viva /\ hilo[p] = Libre /\ fuera[p]
    /\ viva' = FALSE
    /\ UNCHANGED <<tablas, fuera, hilo, respuesta>>

\* delete_process tells swamp first, and takes the tables out later, under the
\* mutex.  The TLB keeps the entries of the process.
deleteEnSwamp(p) ==
    /\ Atiende(p, Libre, Hilo("borra", 0)) /\ SinMas
    /\ Queda([Ahora EXCEPT !.swap = [@ EXCEPT ![p] = [g \in 1 .. MaxPaginas |-> Nada]]])

deleteTablas(p) ==
    /\ Atiende(p, Hilo("borra", 0), Hilo("fin", 0)) /\ SinMas
    /\ \E e \in OlvidaTodas(Ahora, p) : Queda(e)

\* Each page of the process, present or not, is sent with the bytes of the frame it
\* names, and left with that frame, which gets bytes that were not initialised.
SuspendePagina(e, p, g) ==
    LET f == e.paginas[p][g].frame
    IN  Escribe(ConPagina([EnSwap(delete_entrada_tlb(e, p, g, f), p, g, Bytes(e, f))
                              EXCEPT !.intacta = @ /\ e.paginas[p][g].bitPresencia],
                          p, g, [frame |-> f, bitPresencia |-> FALSE]), f, Basura)

SuspendePaginas(e, p) ==
    EnOrden(LAMBDA s, g : {SuspendePagina(s, p, g)}, e, 1, Len(e.paginas[p]))

suspend_process(p) ==
    /\ viva /\ hilo[p].pc \notin {"no", "borra", "fin"}
    /\ \E e \in SuspendePaginas(Ahora, p) : Queda(e)
    /\ UNCHANGED <<fuera, hilo>> /\ respuesta' = Nada

\* When swamp refuses a page it returns with list_pages_mutex taken, for ever.
suspendRechazada(p) ==
    /\ viva /\ hilo[p].pc \notin {"no", "borra", "fin"} /\ SwampPuedeRechazar
    /\ \E g \in DOMAIN paginas[p] : swap[p][g] = Nada
    /\ viva' = FALSE
    /\ UNCHANGED <<tablas, fuera, hilo, respuesta>>

\* SIGUSR2
clean_tlb ==
    /\ viva
    /\ Queda([Ahora EXCEPT !.tlb = << >>]) /\ UNCHANGED hilo /\ SinMas

Next ==
    \/ clean_tlb
    \/ \E p \in Procesos :
          \/ inicializarUnProceso(p) \/ memread(p) \/ memwrite(p)
          \/ memallocBusca(p) \/ memallocAlFinal(p) \/ memallocCrece(p) \/ memallocPrueba(p)
          \/ memfree(p) \/ memfreeAnterior(p) \/ memfreeUne(p)
          \/ PaginaInexistente(p) \/ deleteEnSwamp(p) \/ deleteTablas(p)
          \/ suspend_process(p) \/ suspendRechazada(p)

Spec == Init /\ [][Next]_vars

-----------------------------------------------------------------------------
(* Properties.                                                             *)

TodosLosMarcos == -1 .. CantidadFrames + 1
Valores == Contenidos \cup {Vacio, Basura}
Numeros == 1 .. MaxPaginas

\* Every variable has its type, and lRU has each page once.
TypeOK ==
    /\ paginas \in [Procesos -> Seq([frame : TodosLosMarcos, bitPresencia : BOOLEAN])]
    /\ IsInjective(lRU)
    /\ Range(lRU) = UNION {{p} \X DOMAIN paginas[p] : p \in Procesos}
    /\ memoria \in [Frames -> Valores]
    /\ tlb_list \in Seq([pid : Procesos, pagina : Numeros, frame : TodosLosMarcos] \cup {Nada})
    /\ swap \in [Procesos -> [Numeros -> Valores \cup {Nada}]]
    /\ hayQueDegenerar \in BOOLEAN /\ viva \in BOOLEAN /\ intacta \in BOOLEAN
    /\ fuera \in [Procesos -> BOOLEAN]
    /\ hilo \in [Procesos -> [pc : {"no", "libre", "aloca", "encadena", "prueba", "anterior",
                                    "une", "borra", "fin"},
                              pagina : 0 .. MaxPaginas]]
    /\ respuesta \in {Nada} \cup [proceso : Procesos, pagina : Numeros, contenido : Valores]

\* No two pages in memory share a frame, of one process or of two, through evictions,
\* suspensions that keep the frame, deletions and growth.
MarcosExclusivos ==
    \A p, q \in Procesos : \A g \in DOMAIN paginas[p], h \in DOMAIN paginas[q] :
        /\ paginas[p][g].bitPresencia /\ paginas[q][h].bitPresencia
        /\ paginas[p][g].frame = paginas[q][h].frame /\ paginas[p][g].frame \in Frames
      => <<p, g>> = <<q, h>>

\* Under the fixed assignment no process has more pages in memory than its frames,
\* through page faults, growth, suspension and deletions, until a page is lost: then
\* MarcaUltima may say that a page without a frame is in memory, and the clock finds
\* none to take out for the next.
MarcosPorCarpincho ==
    ~tipoDeAsignacionDinamica /\ intacta =>
        \A p \in Procesos :
            Cardinality({g \in DOMAIN paginas[p] : paginas[p][g].bitPresencia})
                <= cantidadDePaginasPorProceso

\* The TLB entry of a page in memory names the frame of that page, until a page is
\* lost.  It is what the modified clock keeps, which takes out the entry of its
\* victim; LRU looks for it under the process that asks.
TLBCoherente ==
    intacta =>
        \A t \in Range(tlb_list) \ {Nada} :
            t.pagina \in DOMAIN paginas[t.pid] /\ paginas[t.pid][t.pagina].bitPresencia
                => paginas[t.pid][t.pagina].frame = t.frame

\* What a page holds: its frame if it is in memory, what swamp keeps otherwise.
Contenido(p, g) ==
    IF paginas[p][g].bitPresencia THEN Bytes(Ahora, paginas[p][g].frame)
                                  ELSE TraeDeSwamp(Ahora, p, g)

\* The tables of the processes that are not being deleted.
Memoria ==
    [p \in Procesos |-> IF hilo[p].pc = "borra" THEN << >>
                        ELSE [g \in DOMAIN paginas[p] |-> Contenido(p, g)]]

Virtual == INSTANCE MemoriaVirtual
    WITH Ruido <- {Vacio, Basura}, leido <- respuesta, fiable <- intacta, contenido <- Memoria

\* Memory behaves as pages that keep what was written, through evictions, the TLB
\* and suspensions, until a page is lost in one of the ways that clear intacta.
ImplementaMemoria == Virtual!Spec
=============================================================================
