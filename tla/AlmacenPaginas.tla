---------------------------- MODULE AlmacenPaginas ----------------------------
(***************************************************************************)
(* What memoria expects of swamp: a map from the pages of the processes to *)
(* contents.  A page that is stored can always be overwritten and is read  *)
(* as it was written last; a new page may be refused; a process that ends  *)
(* takes its pages with it.                                                *)
(***************************************************************************)
CONSTANTS
    Procesos, Paginas, Contenidos,
    Nada,       \* the content of a page that is not stored
    Ruido       \* what else may be answered for such a page

VARIABLES
    guardadas,  \* the content of each page
    respuesta   \* the last answer

\* What is answered about the content x of page g of process p.
Respuesta(p, g, x, resultado) ==
    [proceso |-> p, pagina |-> g, contenido |-> x, resultado |-> resultado]

Init ==
    /\ guardadas = [pagina \in Procesos \X Paginas |-> Nada]
    /\ respuesta = Respuesta(Nada, Nada, Nada, "ninguna")

Guardar(p, g, x) ==
    /\ respuesta' = Respuesta(p, g, x, "guardada")
    /\ guardadas' = [guardadas EXCEPT ![<<p, g>>] = x]

Rechazar(p, g, x) ==
    /\ respuesta' = Respuesta(p, g, x, "sin_espacio")
    /\ guardadas[<<p, g>>] = Nada
    /\ UNCHANGED guardadas

\* What is answered for a page that is not stored is anybody's guess.
Obtener(p, g) ==
    /\ \E x \in Contenidos \cup Ruido :
          /\ respuesta' = Respuesta(p, g, x, "leida")
          /\ guardadas[<<p, g>>] \in {Nada, x}
    /\ UNCHANGED guardadas

Finalizar(p) ==
    /\ UNCHANGED respuesta
    /\ guardadas' = [pagina \in Procesos \X Paginas |->
                        IF pagina[1] = p THEN Nada ELSE guardadas[pagina]]

Next ==
    \E p \in Procesos :
        \/ Finalizar(p)
        \/ \E g \in Paginas :
              \/ Obtener(p, g)
              \/ \E x \in Contenidos : Guardar(p, g, x) \/ Rechazar(p, g, x)

Spec == Init /\ [][Next]_<<guardadas, respuesta>>
=============================================================================
