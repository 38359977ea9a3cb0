---------------------------- MODULE MCPaginacion ----------------------------
(***************************************************************************)
(* Instances of the paging of memoria for TLC.                             *)
(***************************************************************************)
EXTENDS Paginacion, TLC

Simetria == Permutations(Procesos) \cup Permutations(Contenidos)

\* Bound: one call at a time is between two of its critical sections; the calls of
\* one section and the suspensions of the other carpinchos come between.
UnaEnCurso == Cardinality({p \in Procesos : hilo[p].pc \notin {"no", "libre", "fin"}}) <= 1

\* Bound: the processes have one page more than there are frames.
PocasPaginas == Len(lRU) <= CantidadFrames + 1

\* Nothing is promised of the pages after one is lost.
Acotado == UnaEnCurso /\ PocasPaginas /\ intacta

\* What the next steps depend on: the answer that was given is no part of it, and
\* of the copy of a page that is in memory, or deleted, only whether there is one.
\* Once memoria stops there are no next steps.
Copia(p, g) ==
    IF swap[p][g] # Nada /\ (g > Len(paginas[p]) \/ paginas[p][g].bitPresencia)
    THEN "alguna" ELSE swap[p][g]
SinCopias ==
    IF viva
    THEN <<paginas, lRU, memoria, tlb_list, intacta, hayQueDegenerar, fuera, hilo,
           [p \in Procesos |-> [g \in 1 .. MaxPaginas |-> Copia(p, g)]]>>
    ELSE <<fuera, hilo>>
=============================================================================
