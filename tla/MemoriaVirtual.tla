---------------------------- MODULE MemoriaVirtual ----------------------------
(***************************************************************************)
(* What a carpincho expects of memoria: its pages keep what was written in *)
(* them, wherever they are, until it writes again, frees the last page or  *)
(* ends; nobody else's call changes them.                                  *)
(***************************************************************************)
EXTENDS Integers, Sequences

CONSTANTS
    Procesos, Contenidos,
    Ruido,       \* what else a page that was never written may hold
    MaxPaginas,  \* bound: pages of a process
    Nada         \* no answer

VARIABLES
    contenido,   \* the pages of each process
    leido,       \* what the read just done answered
    fiable       \* nothing out of these promises has happened

Bytes == Contenidos \cup Ruido
Respuestas == {Nada} \cup [proceso : Procesos, pagina : 1 .. MaxPaginas, contenido : Bytes]

Init ==
    /\ contenido = [p \in Procesos |-> << >>]
    /\ leido = Nada
    /\ fiable = TRUE

Lee(p, g) ==
    /\ leido' = [proceso |-> p, pagina |-> g, contenido |-> contenido[p][g]]
    /\ UNCHANGED contenido

\* How a call may change the pages of its process.
Inicializa(antes, despues) == antes = << >> /\ \E x \in Contenidos : despues = <<x>>

\* Data, or the headers of blocks, on some of its pages.
Escribe(antes, despues) ==
    /\ DOMAIN antes = DOMAIN despues
    /\ \A g \in DOMAIN antes : despues[g] \in {antes[g]} \cup Contenidos

\* New pages hold anything; the block that was the last one is chained to a new one.
Crece(antes, despues) ==
    /\ antes # << >>
    /\ Len(antes) < Len(despues) /\ Len(despues) <= MaxPaginas
    /\ \A g \in DOMAIN antes : despues[g] \in {antes[g]} \cup Contenidos

\* The last pages are taken out, or all of them when the process ends.
Quita(antes, despues) == \E n \in 0 .. Len(antes) - 1 : despues = SubSeq(antes, 1, n)

Cambia(p, antes, despues) ==
    /\ leido' = Nada
    /\ \A q \in Procesos \ {p} : contenido'[q] = contenido[q]
    /\ \/ Inicializa(antes, despues) \/ Escribe(antes, despues)
       \/ Crece(antes, despues) \/ Quita(antes, despues)

Next ==
    \/ /\ fiable /\ fiable'
       /\ \/ leido' = Nada /\ UNCHANGED contenido
          \/ \E p \in Procesos : \E g \in DOMAIN contenido[p] : Lee(p, g)
          \/ \E p \in Procesos : Cambia(p, contenido[p], contenido'[p])
    \/ ~fiable'

Spec == Init /\ [][Next]_<<contenido, leido, fiable>>
=============================================================================
