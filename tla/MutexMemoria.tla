----------------------------- MODULE MutexMemoria -----------------------------
(***************************************************************************)
(* The mutexes of memoria (memory_utils.c, main.c), under the dynamic      *)
(* assignment with LRU and a TLB: each call as the mutexes it takes and    *)
(* leaves, the calls it makes to other functions, and the moments when it  *)
(* gets a frame, uses its bytes and empties it.  What decides between two  *)
(* paths is left out: a function is the set of its paths.                  *)
(***************************************************************************)
EXTENDS Integers, Sequences, FiniteSets

CONSTANT Servidores  \* the threads of shared/src/server.c; each serves one call

VARIABLES
    llamada,  \* the call each thread serves, "ninguna" before
    hilo,     \* what is left of it to do
    dueno     \* the thread that has each mutex

vars == <<llamada, hilo, dueno>>

\* lru_mutex and those of the metrics are left out: they guard counters, and nothing
\* is taken while one of them is held.
Mutexes == {"utilizacionDePagina", "list_pages", "list_tables", "memory", "swamp", "tlb"}
Nadie == "nadie"

ASSUME HilosValidos == IsFiniteSet(Servidores) /\ Nadie \notin Servidores

Paso(op, sobre) == [op |-> op, sobre |-> sobre]
Con(m, cuerpo) == <<Paso("toma", m)>> \o cuerpo \o <<Paso("deja", m)>>
Solo(m) == Con(m, << >>)
Llama(funcion) == <<Paso("llama", funcion)>>
Obtiene == <<Paso("obtiene", "marco")>>    \* the number of a frame is known
Usa == <<Paso("usa", "marco")>>            \* its bytes are read or written
Desaloja == <<Paso("desaloja", "marco")>>  \* the frame is taken from its page

-----------------------------------------------------------------------------
(* The functions: what a function with one path does, and the paths of one *)
(* with several.  A loop goes round once, or twice where it leaves a mutex *)
(* between its rounds.                                                     *)

get_pages_by == Solo("list_tables")
getPageDe == get_pages_by
send_message_swamp == Solo("swamp")
fetch_entrada_tlb == Solo("tlb")
add_entrada_tlb == Solo("tlb")
delete_entrada_tlb == Solo("tlb")

\* For getNewEmptyFrame; frameAsignado is the same.
estaOcupadoUn == Con("list_tables", Solo("list_pages"))
liberarFrame == Con("list_tables", Con("list_pages", Con("memory", Desaloja)))

seleccionLRU ==
    Con("list_pages", Obtiene) \o Con("memory", Usa) \o send_message_swamp
        \o delete_entrada_tlb \o liberarFrame

\* The page is in memory or it is brought; the TLB has it or not.
Trae ==
    seleccionLRU \o estaOcupadoUn \o Obtiene
        \o Con("list_pages", send_message_swamp \o Con("memory", Usa))
Anota == Con("list_pages", add_entrada_tlb \o Obtiene)
getFrameDeUn ==
    {get_pages_by \o fetch_entrada_tlb \o camino :
        camino \in {Con("list_pages", Obtiene), Solo("list_pages") \o Trae \o Anota,
                    getPageDe \o Anota, getPageDe \o Trae \o Anota}}

mandarPaginaAgonza == Con("memory", Usa) \o send_message_swamp
editarAlgoEnMemoria ==
    Llama("getFrameDeUn") \o Con("memory", Usa) \o getPageDe \o mandarPaginaAgonza

\* Faulty variant of LeePagina: the frame is used after its section.
LeePaginaTarde ==
    Con("utilizacionDePagina", Llama("getFrameDeUn")) \o Con("memory", Usa)
LeePagina == Con("utilizacionDePagina", Llama("getFrameDeUn") \o Con("memory", Usa))
read_from_memory == {LeePagina, LeePagina \o LeePagina}

agregarXPaginasPara ==
    {getPageDe \o Solo("list_pages") \o estaOcupadoUn \o expulsa
        \o get_pages_by \o Solo("list_pages") :
        expulsa \in {<< >>, seleccionLRU \o estaOcupadoUn}}

\* With an entry in the TLB, or without.
deletePagina ==
    {get_pages_by \o fetch_entrada_tlb \o Con("list_pages", tabla \o delete_entrada_tlb) :
        tabla \in {getPageDe, << >>}}

LeeCabecera == Llama("getFrameDeUn") \o Con("memory", Usa)
entraEnElEspacioLibre ==
    {get_pages_by \o Solo("list_pages") \o busca :
        busca \in {<< >>, LeeCabecera, LeeCabecera \o LeeCabecera \o Solo("memory")}}
Busca == Con("utilizacionDePagina", Llama("entraEnElEspacioLibre"))

-----------------------------------------------------------------------------
(* The calls.  Those of memalloc are told apart by what the search finds   *)
(* and what swamp answers.                                                 *)

inicializarUnProceso ==
    {Solo("list_tables")
        \o Con("utilizacionDePagina", estaOcupadoUn \o Obtiene \o Con("memory", Usa)
                                          \o Solo("list_pages"))}

memallocAlFinal ==
    {Busca \o get_pages_by \o Solo("list_pages")
        \o Con("utilizacionDePagina", editarAlgoEnMemoria)
        \o Con("utilizacionDePagina", editarAlgoEnMemoria) \o Solo("list_pages")}

\* Pages are added; if swamp refused one they are deleted, out of the section.
CreceY(degenera) ==
    {Busca \o get_pages_by \o Solo("list_pages")
        \o Con("utilizacionDePagina", Llama("agregarXPaginasPara") \o editarAlgoEnMemoria
                                          \o editarAlgoEnMemoria)
        \o degenera \o Solo("list_pages") \o Solo("list_pages")}
memallocCrece == CreceY(<< >>)
memallocDegenera == CreceY(Llama("deletePagina"))

\* A free block is used again: nothing of this is in the section of the search.
Marca == Busca \o LeeCabecera \o getPageDe \o LeeCabecera
memallocReusa == {Marca \o mandarPaginaAgonza}
\* The block is split: memory_mutex is taken, and then taken again by what is called.
memallocDivide ==
    {Marca \o Con("memory", Llama("getFrameDeUn") \o Usa \o mandarPaginaAgonza \o getPageDe)}

\* The header is marked without memory_mutex, in one page or in two.
LiberaCabecera ==
    {Llama("getFrameDeUn") \o Usa,
     Llama("getFrameDeUn") \o Usa \o Llama("getFrameDeUn") \o Usa
        \o Usa \o getPageDe \o mandarPaginaAgonza
        \o Usa \o getPageDe \o mandarPaginaAgonza}
UneOSaca ==
    {editarAlgoEnMemoria \o editarAlgoEnMemoria, getPageDe, getPageDe \o Llama("deletePagina")}

\* Faulty variant of DireccionInvalida: the mutex is not left on the way out.
DireccionInvalidaTomado == <<Paso("toma", "utilizacionDePagina")>>
DireccionInvalida == Solo("utilizacionDePagina")
memfree ==
    {get_pages_by \o Solo("list_pages") \o camino :
        camino \in {DireccionInvalida,
                    Con("utilizacionDePagina", Llama("LiberaCabecera") \o getPageDe),
                    Con("utilizacionDePagina", Llama("LiberaCabecera"))
                        \o Llama("read_from_memory")
                        \o Con("utilizacionDePagina", Llama("UneOSaca"))}}

memread == {get_pages_by, get_pages_by \o Llama("read_from_memory")}
memwrite ==
    {get_pages_by \o Solo("list_pages") \o escribe :
        escribe \in {<< >>, Con("utilizacionDePagina", editarAlgoEnMemoria)}}

\* Faulty variant of Borra: only the mutex of the list is taken.
BorraSinSeccion == Con("list_pages", Solo("list_tables"))
\* exist_table takes list_tables_mutex while list_pages_mutex is held.
Borra == Con("utilizacionDePagina", Con("list_pages", Solo("list_tables")))
delete_process == {get_pages_by \o send_message_swamp \o Borra}

\* The section of each page is taken while list_pages_mutex is held.
Manda == Obtiene \o Con("memory", Usa) \o send_message_swamp \o delete_entrada_tlb
Suspende == Con("utilizacionDePagina", Manda \o Con("memory", Desaloja))
suspend_process ==
    {get_pages_by \o Con("list_pages", Suspende),
     get_pages_by \o Con("list_pages", Suspende \o Suspende)}
\* Swamp refuses a page: list_pages_mutex is not left.
suspendRechazada ==
    {get_pages_by \o <<Paso("toma", "list_pages")>> \o Con("utilizacionDePagina", Manda)}

-----------------------------------------------------------------------------

Pedidos ==
    [inicializarUnProceso |-> inicializarUnProceso, memallocAlFinal |-> memallocAlFinal,
     memallocCrece |-> memallocCrece, memallocDegenera |-> memallocDegenera,
     memallocReusa |-> memallocReusa, memallocDivide |-> memallocDivide, memfree |-> memfree,
     memread |-> memread, memwrite |-> memwrite, delete_process |-> delete_process,
     suspend_process |-> suspend_process, suspendRechazada |-> suspendRechazada]
Funciones ==
    [getFrameDeUn |-> getFrameDeUn, read_from_memory |-> read_from_memory,
     agregarXPaginasPara |-> agregarXPaginasPara, deletePagina |-> deletePagina,
     entraEnElEspacioLibre |-> entraEnElEspacioLibre, LiberaCabecera |-> LiberaCabecera,
     UneOSaca |-> UneOSaca]

Init ==
    /\ llamada = [t \in Servidores |-> "ninguna"]
    /\ hilo = [t \in Servidores |-> << >>]
    /\ dueno = [m \in Mutexes |-> Nadie]

Atiende(t) ==
    \E c \in DOMAIN Pedidos : \E camino \in Pedidos[c] :
        /\ llamada[t] = "ninguna"
        /\ llamada' = [llamada EXCEPT ![t] = c]
        /\ hilo' = [hilo EXCEPT ![t] = camino]
        /\ UNCHANGED dueno

En(t, op) == hilo[t] # << >> /\ Head(hilo[t]).op = op
Sobre(t) == Head(hilo[t]).sobre
Avanza(t) == hilo' = [hilo EXCEPT ![t] = Tail(@)]

Toma(t) ==
    /\ En(t, "toma") /\ dueno[Sobre(t)] = Nadie
    /\ dueno' = [dueno EXCEPT ![Sobre(t)] = t]
    /\ Avanza(t) /\ UNCHANGED llamada

Deja(t) ==
    /\ En(t, "deja")
    /\ dueno' = [dueno EXCEPT ![Sobre(t)] = Nadie]
    /\ Avanza(t) /\ UNCHANGED llamada

Entra(t) ==
    /\ En(t, "llama")
    /\ \E camino \in Funciones[Sobre(t)] : hilo' = [hilo EXCEPT ![t] = camino \o Tail(@)]
    /\ UNCHANGED <<llamada, dueno>>

Hace(t) ==
    /\ En(t, "obtiene") \/ En(t, "usa") \/ En(t, "desaloja")
    /\ Avanza(t) /\ UNCHANGED <<llamada, dueno>>

Sigue(t) == Toma(t) \/ Deja(t) \/ Entra(t) \/ Hace(t)

Next == \E t \in Servidores : Atiende(t) \/ Sigue(t)

\* Every thread runs until it waits for a mutex.
Spec == Init /\ [][Next]_vars /\ \A t \in Servidores : WF_vars(Sigue(t))

-----------------------------------------------------------------------------
(* Properties.                                                             *)

Pasos == [op : {"toma", "deja"}, sobre : Mutexes]
            \cup [op : {"llama"}, sobre : DOMAIN Funciones]
            \cup [op : {"obtiene", "usa", "desaloja"}, sobre : {"marco"}]

\* Every variable has its type, and a call that ended has no mutex, unless swamp
\* refused a suspension.
TypeOK ==
    /\ llamada \in [Servidores -> {"ninguna"} \cup DOMAIN Pedidos]
    /\ hilo \in [Servidores -> Seq(Pasos)]
    /\ dueno \in [Mutexes -> Servidores \cup {Nadie}]
    /\ \A m \in Mutexes : dueno[m] # Nadie /\ llamada[dueno[m]] # "suspendRechazada" =>
          hilo[dueno[m]] # << >>

\* The calls that use pages out of utilizacionDePagina_mutex, and those that take
\* other mutexes before it or without it.
SinSeccion == {"memallocReusa", "memallocDivide"}
SinOrden == SinSeccion \cup {"memallocDegenera", "suspend_process", "suspendRechazada"}

Espera(t, u) == En(t, "toma") /\ dueno[Sobre(t)] = u
\* The threads that wait for one another in a circle, or for themselves.
EnCirculo(ts) == \A t \in ts : \E u \in ts : Espera(t, u)

\* No set of calls wait for one another, unless one of them has no order: the mutexes
\* are taken in two orders, and utilizacionDePagina_mutex keeps them apart.
SinEsperaCircular ==
    \A ts \in (SUBSET Servidores) \ {{}} :
        EnCirculo(ts) => \E t \in ts : llamada[t] \in SinOrden

ConSeccion(t, u) == {llamada[t], llamada[u]} \cap SinSeccion = {}

\* No two calls are at the bytes of memory at once, though memfree writes them without
\* memory_mutex, unless a free block is being used again.
MemoriaExclusiva ==
    \A t, u \in Servidores : En(t, "usa") /\ En(u, "usa") /\ ConSeccion(t, u) => t = u

\* A thread that knows a frame and has yet to use it.
ConMarco(t) ==
    \E i \in DOMAIN hilo[t] :
        /\ hilo[t][i].op = "usa"
        /\ \A j \in 1 .. i : hilo[t][j].op # "obtiene" /\ hilo[t][j].sobre # "getFrameDeUn"

\* No frame is taken from its page, by an eviction or a suspension, while another call
\* knows a frame and has yet to use it, unless a free block is being used again.
MarcoVigente ==
    \A t, u \in Servidores : En(t, "desaloja") /\ ConMarco(u) /\ ConSeccion(t, u) => t = u

\* Every call ends if none of those with no order is made.
TodaLlamadaTermina ==
    [](\A t \in Servidores : llamada[t] \notin SinOrden) =>
        \A t \in Servidores : <>[](hilo[t] = << >>)
=============================================================================
