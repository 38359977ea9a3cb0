----------------------------- MODULE Heap_proofs -----------------------------
(***************************************************************************)
(* The heap keeps its chain of headers, for every size of header and of    *)
(* page and whatever the carpincho asks for, and implements Reservas.      *)
(***************************************************************************)
EXTENDS Heap, TLAPS

\* A search is on a header of the chain, and the end of the heap has one.
Buscado ==
    hilo.pc = "busca" =>
        /\ hilo.espacio \in Tamanios
        /\ lastHeap \in DOMAIN cabecera
        /\ intacta => hilo.allocActual \in DOMAIN cabecera

\* The properties are inductive together with it.
Inductivo == TypeOK /\ CadenaCorrecta /\ ReservasEnElHeap /\ SinFugas /\ Buscado

-----------------------------------------------------------------------------
(* Arithmetic of pages.                                                    *)

\* Division rounds down.
LEMMA Division ==
    ASSUME NEW a \in Nat, NEW t \in Nat \ {0}
    PROVE  /\ a \div t \in Nat
           /\ a < (a \div t + 1) * t
  OBVIOUS

\* The pages that are added make room for both headers and the data.
LEMMA PaginasAlcanzan ==
    ASSUME ConstantesValidas, lastHeap \in Nat, paginas \in Nat,
           NEW n \in Nat, ~EntraAlFinal(n)
    PROVE  /\ PaginasQueFaltan(n) \in Nat
           /\ lastHeap + n + 2 * HEAP_METADATA_SIZE
                <= (paginas + PaginasQueFaltan(n)) * tamanioDePagina
  <1> DEFINE falta == n + HEAP_METADATA_SIZE - Disponible
             q == falta \div tamanioDePagina
  <1>1. paginas * tamanioDePagina \in Int /\ Disponible \in Int
    BY DEF ConstantesValidas, Disponible
  <1>2. falta \in Nat
    BY <1>1 DEF ConstantesValidas, EntraAlFinal
  <1>3. q \in Nat /\ falta < (q + 1) * tamanioDePagina
    BY <1>2, Division DEF ConstantesValidas
  <1>4. (paginas + (q + 1)) * tamanioDePagina
            = paginas * tamanioDePagina + (q + 1) * tamanioDePagina
    <2> HIDE DEF q
    <2> QED  BY <1>3 DEF ConstantesValidas
  <1>5. (q + 1) * tamanioDePagina \in Int
    <2> HIDE DEF q
    <2> QED  BY <1>3 DEF ConstantesValidas
  <1>6. n + HEAP_METADATA_SIZE - (paginas * tamanioDePagina - lastHeap - HEAP_METADATA_SIZE)
            < (q + 1) * tamanioDePagina
    BY <1>3 DEF Disponible
  <1>7. lastHeap + n + 2 * HEAP_METADATA_SIZE
            <= paginas * tamanioDePagina + (q + 1) * tamanioDePagina
    <2> DEFINE A == paginas * tamanioDePagina
               B == (q + 1) * tamanioDePagina
    <2>1. A \in Int /\ B \in Int  BY <1>1, <1>5
    <2>2. n + HEAP_METADATA_SIZE - (A - lastHeap - HEAP_METADATA_SIZE) < B  BY <1>6
    <2> HIDE DEF A, B
    <2>3. lastHeap + n + 2 * HEAP_METADATA_SIZE <= A + B
      BY <2>1, <2>2 DEF ConstantesValidas
    <2> QED  BY <2>3 DEF A, B
  <1>8. PaginasQueFaltan(n) = q + 1
    BY DEF PaginasQueFaltan
  <1> HIDE DEF q
  <1> QED  BY <1>3, <1>4, <1>7, <1>8

-----------------------------------------------------------------------------
(* What a header written at the end of the heap leaves.                    *)

\* Only the last header changes, and a new one follows it.
LEMMA EncadenaEscribe ==
    ASSUME ConstantesValidas, TypeOK, lastHeap \in DOMAIN cabecera, NEW n \in Tamanios,
           \A e \in DOMAIN cabecera : e <= lastHeap,
           NEW nuevo, nuevo = lastHeap + n + HEAP_METADATA_SIZE
    PROVE  /\ nuevo \in Nat /\ lastHeap + HEAP_METADATA_SIZE < nuevo
           /\ DOMAIN Encadena(n) = DOMAIN cabecera \cup {nuevo}
           /\ Encadena(n)[nuevo] = Cabecera(lastHeap, 0, FALSE)
           /\ Encadena(n)[lastHeap] = Cabecera(cabecera[lastHeap].prevAlloc, nuevo, FALSE)
           /\ \A e \in DOMAIN cabecera \ {lastHeap} : Encadena(n)[e] = cabecera[e]
  <1>1. nuevo \in Nat /\ lastHeap + HEAP_METADATA_SIZE < nuevo /\ lastHeap < nuevo
    BY DEF ConstantesValidas, TypeOK
  <1>2. \A e \in DOMAIN cabecera : e # nuevo
    BY <1>1 DEF TypeOK
  <1> DEFINE f == [cabecera EXCEPT ![lastHeap] =
                      Cabecera(cabecera[lastHeap].prevAlloc, nuevo, FALSE)]
  <1>3. Encadena(n) = [e \in DOMAIN f \cup {nuevo} |->
                          IF e = nuevo THEN Cabecera(lastHeap, 0, FALSE) ELSE f[e]]
    BY DEF Encadena, Con
  <1>4. DOMAIN f = DOMAIN cabecera
    OBVIOUS
  <1>5. f[lastHeap] = Cabecera(cabecera[lastHeap].prevAlloc, nuevo, FALSE)
    OBVIOUS
  <1>6. \A e \in DOMAIN cabecera \ {lastHeap} : f[e] = cabecera[e]
    OBVIOUS
  <1> HIDE DEF f
  <1> QED  BY <1>1, <1>2, <1>3, <1>4, <1>5, <1>6

\* The chain, and the blocks held, with a block more at the end.
LEMMA EncadenaConserva ==
    ASSUME ConstantesValidas, Inductivo, intacta, NEW n \in Tamanios, lastHeap \in DOMAIN cabecera,
           Agrega(n), cabecera' = Encadena(n), UNCHANGED intacta,
           lastHeap + n + 2 * HEAP_METADATA_SIZE <= paginas' * tamanioDePagina,
           paginas' \in Nat
    PROVE  Inductivo'
  <1> DEFINE nuevo == lastHeap + n + HEAP_METADATA_SIZE
  <1> USE DEF Inductivo
  <1>1. \A e \in DOMAIN cabecera : e <= lastHeap
    BY DEF CadenaCorrecta
  <1>2. /\ nuevo \in Nat /\ lastHeap + HEAP_METADATA_SIZE < nuevo
        /\ DOMAIN cabecera' = DOMAIN cabecera \cup {nuevo}
        /\ cabecera'[nuevo] = Cabecera(lastHeap, 0, FALSE)
        /\ cabecera'[lastHeap] = Cabecera(cabecera[lastHeap].prevAlloc, nuevo, FALSE)
        /\ \A e \in DOMAIN cabecera \ {lastHeap} : cabecera'[e] = cabecera[e]
    BY <1>1, EncadenaEscribe
  <1>3. lastHeap' = nuevo /\ hilo' = Libre /\ viva' = viva
    BY DEF Agrega, Responde
  <1>4. /\ DOMAIN reservas' = DOMAIN reservas \cup {lastHeap}
        /\ \A e \in DOMAIN reservas' : reservas'[e] = IF e = lastHeap THEN n ELSE reservas[e]
    BY DEF Agrega, Responde, Con
  <1>5. lastHeap \in Nat /\ n \in Nat \ {0} /\ HEAP_METADATA_SIZE \in Nat \ {0}
    BY DEF TypeOK, ConstantesValidas
  <1> HIDE DEF nuevo
  <1>6. TypeOK'
    <2>1. ASSUME NEW d \in DOMAIN cabecera'
          PROVE  cabecera'[d] \in [prevAlloc : Nat, nextAlloc : Nat, isfree : BOOLEAN]
      <3>1. CASE d = nuevo
        BY <3>1, <1>2, <1>5 DEF Cabecera
      <3>2. CASE d = lastHeap
        BY <3>2, <1>2, <1>5 DEF Cabecera, TypeOK
      <3>3. CASE d \in DOMAIN cabecera \ {lastHeap}
        BY <3>3, <1>2 DEF TypeOK
      <3> QED  BY <3>1, <3>2, <3>3, <1>2
    <2>2. \A d \in DOMAIN reservas' : reservas'[d] \in Tamanios
      BY <1>4 DEF TypeOK
    <2>3. DOMAIN cabecera' \subseteq Nat /\ DOMAIN reservas' \subseteq Nat
      BY <1>2, <1>4, <1>5 DEF TypeOK
    <2> QED  BY <2>1, <2>2, <2>3, <1>2, <1>3 DEF TypeOK, Libre
  <1>7. CadenaCorrecta'
    <2>1. {0, lastHeap'} \subseteq DOMAIN cabecera'
      BY <1>2, <1>3 DEF CadenaCorrecta
    <2>2. \A d \in DOMAIN cabecera' : d <= lastHeap'
      BY <1>1, <1>2, <1>3, <1>5 DEF TypeOK
    <2>3. ASSUME NEW d \in DOMAIN cabecera' \ {lastHeap'}
          PROVE  LET siguiente == cabecera'[d].nextAlloc
                 IN  /\ siguiente \in DOMAIN cabecera'
                     /\ d + HEAP_METADATA_SIZE < siguiente
                     /\ cabecera'[siguiente].prevAlloc = d
                     /\ \A e \in DOMAIN cabecera' : e <= d \/ siguiente <= e
      <3>1. d \in DOMAIN cabecera
        BY <1>2, <1>3
      <3>2. CASE d = lastHeap
        BY <3>2, <1>1, <1>2, <1>5 DEF Cabecera, TypeOK
      <3>3. CASE d # lastHeap
        <4> DEFINE s == cabecera[d].nextAlloc
        <4>1. /\ s \in DOMAIN cabecera /\ d + HEAP_METADATA_SIZE < s
              /\ cabecera[s].prevAlloc = d
              /\ \A e \in DOMAIN cabecera : e <= d \/ s <= e
          BY <3>1, <3>3 DEF CadenaCorrecta
        <4>2. cabecera'[d].nextAlloc = s
          BY <3>1, <3>3, <1>2
        <4>3. cabecera'[s].prevAlloc = d
          BY <4>1, <1>2 DEF Cabecera
        <4>4. s <= nuevo
          BY <4>1, <1>1, <1>2, <1>5 DEF TypeOK
        <4> HIDE DEF s
        <4> QED  BY <4>1, <4>2, <4>3, <4>4, <1>2
      <3> QED  BY <3>2, <3>3
    <2>4. ASSUME NEW d \in DOMAIN cabecera' \ {0}
          PROVE  LET previo == cabecera'[d].prevAlloc
                 IN  previo \in DOMAIN cabecera' \ {lastHeap'} /\ cabecera'[previo].nextAlloc = d
      <3>1. CASE d = nuevo
        BY <3>1, <1>2, <1>3, <1>5 DEF Cabecera
      <3>2. CASE d # nuevo
        <4> DEFINE p == cabecera[d].prevAlloc
        <4>1. d \in DOMAIN cabecera
          BY <3>2, <1>2
        <4>2. p \in DOMAIN cabecera \ {lastHeap} /\ cabecera[p].nextAlloc = d
          BY <4>1 DEF CadenaCorrecta
        <4>3. cabecera'[d].prevAlloc = p
          BY <4>1, <1>2 DEF Cabecera
        <4>4. p # nuevo /\ cabecera'[p] = cabecera[p]
          BY <4>2, <1>1, <1>2, <1>5 DEF TypeOK
        <4> HIDE DEF p
        <4> QED  BY <4>2, <4>3, <4>4, <1>2, <1>3
      <3> QED  BY <3>1, <3>2
    <2> QED  BY <2>1, <2>2, <2>3, <2>4 DEF CadenaCorrecta
  <1>8. ReservasEnElHeap'
    <2>1. ASSUME NEW d \in DOMAIN reservas'
          PROVE  /\ d \in DOMAIN cabecera' \ {lastHeap'} /\ ~cabecera'[d].isfree
                 /\ d + HEAP_METADATA_SIZE + reservas'[d] <= cabecera'[d].nextAlloc
      <3>1. CASE d = lastHeap
        <4>1. d # nuevo /\ ~cabecera'[d].isfree /\ cabecera'[d].nextAlloc = nuevo
          BY <3>1, <1>2, <1>5 DEF Cabecera
        <4>2. reservas'[d] = n
          BY <3>1, <1>4
        <4>3. d + HEAP_METADATA_SIZE + n <= nuevo
          BY <3>1, <1>5 DEF nuevo
        <4> QED  BY <4>1, <4>2, <4>3, <3>1, <1>2, <1>3
      <3>2. CASE d # lastHeap
        <4>1. d \in DOMAIN reservas /\ reservas'[d] = reservas[d]
          BY <3>2, <1>4
        <4>2. d \in DOMAIN cabecera /\ cabecera'[d] = cabecera[d]
          BY <4>1, <3>2, <1>2 DEF ReservasEnElHeap
        <4>3. d # nuevo
          BY <4>2, <1>1, <1>2, <1>5 DEF TypeOK
        <4> QED  BY <4>1, <4>2, <4>3, <1>2, <1>3 DEF ReservasEnElHeap
      <3> QED  BY <3>1, <3>2
    <2>2. lastHeap' + HEAP_METADATA_SIZE <= paginas' * tamanioDePagina
      <3>1. lastHeap' + HEAP_METADATA_SIZE = lastHeap + n + 2 * HEAP_METADATA_SIZE
        BY <1>3, <1>5 DEF nuevo
      <3> QED  BY <3>1
    <2> QED  BY <2>1, <2>2 DEF ReservasEnElHeap
  <1>9. SinFugas'
    BY <1>2, <1>3, <1>4 DEF SinFugas
  <1>10. Buscado'
    BY <1>3 DEF Buscado, Libre
  <1> QED  BY <1>6, <1>7, <1>8, <1>9, <1>10

-----------------------------------------------------------------------------
(* The steps.                                                              *)

LEMMA InicialInductivo == ASSUME ConstantesValidas, Init PROVE Inductivo
  <1>1. DOMAIN cabecera = {0} /\ cabecera[0] = Cabecera(0, 0, TRUE)
    BY DEF Init
  <1>2. DOMAIN reservas = {}
    BY DEF Init
  <1>3. 1 * tamanioDePagina = tamanioDePagina
    BY DEF ConstantesValidas
  <1> QED
    BY <1>1, <1>2, <1>3 DEF Init, Inductivo, TypeOK, CadenaCorrecta, ReservasEnElHeap, SinFugas,
                            Buscado, ConstantesValidas, Cabecera, Libre

\* What a step that leaves the heap alone has to show.
LEMMA HeapIgual ==
    ASSUME Inductivo, UNCHANGED <<cabecera, lastHeap, paginas, reservas, intacta>>,
           viva' \in BOOLEAN, viva' => viva,
           hilo' \in [pc : {"libre", "busca"}, espacio : Tamanios \cup {0}, allocActual : Nat],
           Buscado'
    PROVE  Inductivo'
  BY DEF Inductivo, TypeOK, CadenaCorrecta, ReservasEnElHeap, SinFugas

LEMMA MemallocConserva ==
    ASSUME ConstantesValidas, Inductivo, NEW n \in Tamanios, memalloc(n)
    PROVE  Inductivo'
  <1>1. hilo' = Busca(n, 0) /\ lastHeap \in DOMAIN cabecera
    BY DEF memalloc, Pide, Acotada
  <1>2. UNCHANGED <<cabecera, lastHeap, paginas, reservas, intacta, viva>>
    BY DEF memalloc
  <1>3. Buscado'
    BY <1>1, <1>2 DEF Inductivo, Buscado, CadenaCorrecta, Busca
  <1> QED  BY <1>1, <1>2, <1>3, HeapIgual DEF Inductivo, TypeOK, Busca

LEMMA SigueBuscandoConserva ==
    ASSUME ConstantesValidas, Inductivo, SigueBuscando(hilo.allocActual, hilo.espacio)
    PROVE  Inductivo'
  <1> DEFINE d == hilo.allocActual
  <1>1. /\ hilo' = Busca(hilo.espacio, cabecera[d].nextAlloc)
        /\ d \in DOMAIN cabecera /\ d < lastHeap /\ hilo.pc = "busca"
        /\ UNCHANGED <<cabecera, lastHeap, paginas, reservas, intacta, viva>>
    BY DEF SigueBuscando, EnMemoria, Buscando
  <1>2. cabecera[d].nextAlloc \in Nat /\ d \in Nat /\ lastHeap \in Nat
    BY <1>1 DEF Inductivo, TypeOK
  <1>3. intacta => cabecera[d].nextAlloc \in DOMAIN cabecera
    BY <1>1, <1>2 DEF Inductivo, CadenaCorrecta
  <1>4. Buscado'
    BY <1>1, <1>3 DEF Inductivo, Buscado, Busca
  <1> QED  BY <1>1, <1>2, <1>4, HeapIgual DEF Inductivo, TypeOK, Busca

LEMMA EncuentraConserva ==
    ASSUME ConstantesValidas, Inductivo, Encuentra(hilo.allocActual, hilo.espacio)
    PROVE  Inductivo'
  <1> DEFINE d == hilo.allocActual
             n == hilo.espacio
  <1>1. /\ d \in DOMAIN cabecera /\ d < lastHeap /\ hilo.pc = "busca"
        /\ cabecera[d].isfree /\ cabecera[d].nextAlloc - d - HEAP_METADATA_SIZE >= n
        /\ cabecera' = [cabecera EXCEPT ![d].isfree = FALSE]
        /\ UNCHANGED <<lastHeap, paginas, intacta>>
    BY DEF Encuentra, EnMemoria, Buscando, Sirve
  <1>2. n \in Tamanios /\ n \in Nat /\ d \in Nat /\ lastHeap \in Nat
    BY <1>1 DEF Inductivo, TypeOK, Buscado, ConstantesValidas
  <1>3. /\ DOMAIN cabecera' = DOMAIN cabecera
        /\ \A e \in DOMAIN cabecera :
              /\ cabecera'[e].prevAlloc = cabecera[e].prevAlloc
              /\ cabecera'[e].nextAlloc = cabecera[e].nextAlloc
              /\ cabecera'[e].isfree = IF e = d THEN FALSE ELSE cabecera[e].isfree
              /\ cabecera'[e] \in [prevAlloc : Nat, nextAlloc : Nat, isfree : BOOLEAN]
    BY <1>1 DEF Inductivo, TypeOK
  <1>4. CadenaCorrecta'
    BY <1>1, <1>3 DEF Inductivo, CadenaCorrecta
  <1>5. \/ viva' = FALSE /\ hilo' = hilo /\ reservas' = reservas
        \/ hilo' = Libre /\ reservas' = Con(reservas, d, n) /\ viva' = viva
    BY DEF Encuentra, Responde
  <1>6. CASE viva' = FALSE /\ hilo' = hilo /\ reservas' = reservas
    <2>1. TypeOK'
      BY <1>1, <1>3, <1>6 DEF Inductivo, TypeOK
    <2>2. ReservasEnElHeap'
      BY <1>1, <1>3, <1>6 DEF Inductivo, ReservasEnElHeap
    <2>3. SinFugas' /\ Buscado'
      BY <1>1, <1>3, <1>6 DEF Inductivo, SinFugas, Buscado
    <2> QED  BY <2>1, <2>2, <2>3, <1>4 DEF Inductivo
  <1>7. CASE hilo' = Libre /\ reservas' = Con(reservas, d, n) /\ viva' = viva
    <2>1. /\ DOMAIN reservas' = DOMAIN reservas \cup {d}
          /\ \A e \in DOMAIN reservas' : reservas'[e] = IF e = d THEN n ELSE reservas[e]
      BY <1>7 DEF Con
    <2>2. TypeOK'
      <3>1. /\ DOMAIN cabecera' \subseteq Nat
            /\ \A e \in DOMAIN cabecera' :
                  cabecera'[e] \in [prevAlloc : Nat, nextAlloc : Nat, isfree : BOOLEAN]
        BY <1>3 DEF Inductivo, TypeOK
      <3>2. DOMAIN reservas' \subseteq Nat /\ \A e \in DOMAIN reservas' : reservas'[e] \in Tamanios
        BY <1>2, <2>1 DEF Inductivo, TypeOK
      <3> QED  BY <3>1, <3>2, <1>1, <1>7 DEF Inductivo, TypeOK, Libre
    <2>3. ReservasEnElHeap'
      <3>1. ASSUME intacta, NEW e \in DOMAIN reservas'
            PROVE  /\ e \in DOMAIN cabecera' \ {lastHeap'} /\ ~cabecera'[e].isfree
                   /\ e + HEAP_METADATA_SIZE + reservas'[e] <= cabecera'[e].nextAlloc
        <4>1. CASE e = d
          <5>1. cabecera[d].nextAlloc \in Nat
            BY <1>1 DEF Inductivo, TypeOK
          <5>2. d + HEAP_METADATA_SIZE + n <= cabecera[d].nextAlloc
            BY <5>1, <1>1, <1>2 DEF ConstantesValidas
          <5> QED  BY <4>1, <5>2, <1>1, <1>2, <1>3, <2>1
        <4>2. CASE e # d
          BY <4>2, <3>1, <1>1, <1>3, <2>1 DEF Inductivo, ReservasEnElHeap
        <4> QED  BY <4>1, <4>2
      <3> QED  BY <3>1, <1>1 DEF Inductivo, ReservasEnElHeap
    <2>4. SinFugas'
      BY <1>1, <1>3, <1>7, <2>1 DEF Inductivo, SinFugas
    <2>5. Buscado'
      BY <1>7 DEF Buscado, Libre
    <2> QED  BY <2>2, <2>3, <2>4, <2>5, <1>4 DEF Inductivo
  <1> QED  BY <1>5, <1>6, <1>7

\* A set of headers, each with its fields.
Cabeceras(f) ==
    /\ DOMAIN f \subseteq Nat
    /\ \A d \in DOMAIN f : f[d] \in [prevAlloc : Nat, nextAlloc : Nat, isfree : BOOLEAN]

LEMMA EncadenaTipo ==
    ASSUME ConstantesValidas, TypeOK, NEW n \in Tamanios, lastHeap \in DOMAIN cabecera
    PROVE  Cabeceras(Encadena(n))
  <1> DEFINE nuevo == lastHeap + n + HEAP_METADATA_SIZE
             ultimo == Cabecera(cabecera[lastHeap].prevAlloc, nuevo, FALSE)
             f == [cabecera EXCEPT ![lastHeap] = ultimo]
             Campos == [prevAlloc : Nat, nextAlloc : Nat, isfree : BOOLEAN]
  <1>1. nuevo \in Nat /\ lastHeap \in Nat
    BY DEF ConstantesValidas, TypeOK
  <1>2. ultimo \in Campos /\ Cabecera(lastHeap, 0, FALSE) \in Campos
    <2> HIDE DEF nuevo
    <2> QED  BY <1>1 DEF Cabecera, TypeOK
  <1>3. DOMAIN f = DOMAIN cabecera /\ \A e \in DOMAIN f : f[e] \in Campos
    <2> HIDE DEF ultimo, nuevo
    <2> QED  BY <1>2 DEF TypeOK
  <1>4. Encadena(n) = [e \in DOMAIN f \cup {nuevo} |->
                          IF e = nuevo THEN Cabecera(lastHeap, 0, FALSE) ELSE f[e]]
    BY DEF Encadena, Con
  <1> HIDE DEF f, ultimo, nuevo
  <1> QED  BY <1>1, <1>2, <1>3, <1>4 DEF Cabeceras, TypeOK

LEMMA HastaTipo ==
    ASSUME NEW f, Cabeceras(f), NEW k PROVE Cabeceras(Hasta(f, k))
  BY DEF Cabeceras, Hasta

\* A step that ends with pages taken out, or after one did, has only types to keep.
LEMMA SinPromesas ==
    ASSUME TypeOK', Buscado', intacta' = FALSE
    PROVE  Inductivo'
  BY DEF Inductivo, CadenaCorrecta, ReservasEnElHeap, SinFugas

LEMMA AgregaTipo ==
    ASSUME ConstantesValidas, TypeOK, NEW n \in Tamanios, Agrega(n),
           Cabeceras(cabecera'), paginas' \in Nat, intacta' \in BOOLEAN
    PROVE  TypeOK' /\ Buscado'
  <1>1. lastHeap' \in Nat /\ lastHeap \in Nat
    BY DEF Agrega, TypeOK, ConstantesValidas
  <1>2. hilo' = Libre /\ viva' = viva
    BY DEF Agrega, Responde
  <1>3. DOMAIN reservas' \subseteq Nat /\ \A d \in DOMAIN reservas' : reservas'[d] \in Tamanios
    BY <1>1 DEF Agrega, Responde, Con, TypeOK
  <1> QED  BY <1>1, <1>2, <1>3 DEF TypeOK, Buscado, Cabeceras, Libre

LEMMA AlFinalConserva ==
    ASSUME ConstantesValidas, Inductivo, AlFinal(hilo.allocActual, hilo.espacio)
    PROVE  Inductivo'
  <1> DEFINE n == hilo.espacio
  <1>1. /\ hilo.pc = "busca" /\ EntraAlFinal(n) /\ Agrega(n) /\ cabecera' = Encadena(n)
        /\ UNCHANGED <<paginas, intacta>>
    BY DEF AlFinal, NoEncuentra, Buscando
  <1>2. n \in Tamanios /\ n \in Nat /\ lastHeap \in DOMAIN cabecera
    BY <1>1 DEF Inductivo, Buscado, ConstantesValidas
  <1>3. CASE intacta
    <2>1. paginas' * tamanioDePagina \in Int /\ lastHeap \in Nat /\ paginas' \in Nat
      BY <1>1 DEF Inductivo, TypeOK, ConstantesValidas
    <2>2. lastHeap + n + 2 * HEAP_METADATA_SIZE <= paginas' * tamanioDePagina
      BY <2>1, <1>1, <1>2 DEF EntraAlFinal, Disponible, ConstantesValidas
    <2> QED  BY <2>1, <2>2, <1>1, <1>2, <1>3, EncadenaConserva
  <1>4. CASE ~intacta
    <2>1. TypeOK' /\ Buscado'
      BY <1>1, <1>2, EncadenaTipo, AgregaTipo DEF Inductivo, TypeOK
    <2> QED  BY <2>1, <1>1, <1>4, SinPromesas DEF Inductivo, TypeOK
  <1> QED  BY <1>3, <1>4

LEMMA CreceConserva ==
    ASSUME ConstantesValidas, Inductivo, Crece(hilo.allocActual, hilo.espacio)
    PROVE  Inductivo'
  <1> DEFINE n == hilo.espacio
  <1>1. /\ hilo.pc = "busca" /\ ~EntraAlFinal(n) /\ Agrega(n)
        /\ \/ /\ paginas' = paginas + PaginasQueFaltan(n) /\ cabecera' = Encadena(n)
              /\ UNCHANGED intacta
           \/ /\ cabecera' = Hasta(Encadena(n), paginas)
              /\ intacta' = FALSE /\ UNCHANGED paginas
    BY DEF Crece, NoEncuentra, Buscando
  <1>2. n \in Tamanios /\ n \in Nat /\ lastHeap \in DOMAIN cabecera
    BY <1>1 DEF Inductivo, Buscado, ConstantesValidas
  <1>3. lastHeap \in Nat /\ paginas \in Nat
    BY DEF Inductivo, TypeOK
  <1>4. /\ PaginasQueFaltan(n) \in Nat
        /\ lastHeap + n + 2 * HEAP_METADATA_SIZE
              <= (paginas + PaginasQueFaltan(n)) * tamanioDePagina
    BY <1>1, <1>2, <1>3, PaginasAlcanzan
  <1>5. Cabeceras(Encadena(n)) /\ Cabeceras(Hasta(Encadena(n), paginas))
    BY <1>2, EncadenaTipo, HastaTipo DEF Inductivo
  <1>6. CASE /\ paginas' = paginas + PaginasQueFaltan(n) /\ cabecera' = Encadena(n)
             /\ UNCHANGED intacta
    <2>1. paginas' \in Nat
      BY <1>3, <1>4, <1>6
    <2>2. CASE intacta
      BY <2>1, <2>2, <1>1, <1>2, <1>4, <1>6, EncadenaConserva
    <2>3. CASE ~intacta
      <3>1. TypeOK' /\ Buscado'
        BY <2>1, <1>1, <1>2, <1>5, <1>6, AgregaTipo DEF Inductivo, TypeOK
      <3> QED  BY <3>1, <2>3, <1>6, SinPromesas DEF Inductivo, TypeOK
    <2> QED  BY <2>2, <2>3
  <1>7. CASE /\ cabecera' = Hasta(Encadena(n), paginas)
             /\ intacta' = FALSE /\ UNCHANGED paginas
    <2>1. TypeOK' /\ Buscado'
      BY <1>1, <1>2, <1>3, <1>5, <1>7, AgregaTipo DEF Inductivo
    <2> QED  BY <2>1, <1>7, SinPromesas
  <1> QED  BY <1>1, <1>6, <1>7

\* The block freed joins the free one before it.
LEMMA UneConserva ==
    ASSUME ConstantesValidas, Inductivo, intacta, NEW d \in DOMAIN reservas, UneAnterior(d),
           cabecera' = Une(d), Olvida(d),
           UNCHANGED <<lastHeap, paginas, intacta, hilo, viva>>, hilo = Libre
    PROVE  Inductivo'
  <1> USE DEF Inductivo
  <1> DEFINE p == cabecera[d].prevAlloc
             s == cabecera[d].nextAlloc
  <1>1. d \in DOMAIN cabecera \ {0, lastHeap} /\ cabecera[p].isfree
    BY DEF UneAnterior, Anterior, ReservasEnElHeap
  <1>2. /\ s \in DOMAIN cabecera /\ d + HEAP_METADATA_SIZE < s /\ cabecera[s].prevAlloc = d
        /\ \A e \in DOMAIN cabecera : e <= d \/ s <= e
    BY <1>1 DEF CadenaCorrecta
  <1>3. /\ p \in DOMAIN cabecera \ {lastHeap} /\ cabecera[p].nextAlloc = d
        /\ p + HEAP_METADATA_SIZE < d
        /\ \A e \in DOMAIN cabecera : e <= p \/ d <= e
    BY <1>1 DEF CadenaCorrecta
  <1>4. p \in Nat /\ d \in Nat /\ s \in Nat /\ lastHeap \in Nat /\ HEAP_METADATA_SIZE \in Nat \ {0}
    BY <1>1, <1>2, <1>3 DEF TypeOK, ConstantesValidas
  <1>5. p < d /\ d < s /\ p # s
    BY <1>2, <1>3, <1>4
  <1>6. /\ DOMAIN cabecera' = DOMAIN cabecera \ {d}
        /\ cabecera'[p] = [cabecera[p] EXCEPT !.nextAlloc = s]
        /\ cabecera'[s] = [cabecera[s] EXCEPT !.prevAlloc = p]
        /\ \A e \in DOMAIN cabecera \ {d, p, s} : cabecera'[e] = cabecera[e]
    BY <1>2, <1>3, <1>5 DEF Une, Anterior
  <1>7. /\ DOMAIN reservas' = DOMAIN reservas \ {d}
        /\ \A e \in DOMAIN reservas' : reservas'[e] = reservas[e]
    BY DEF Olvida
  <1> HIDE DEF p, s
  <1>8. \A e \in DOMAIN cabecera' :
          /\ cabecera'[e].isfree = cabecera[e].isfree
          /\ e # p => cabecera'[e].nextAlloc = cabecera[e].nextAlloc
          /\ e # s => cabecera'[e].prevAlloc = cabecera[e].prevAlloc
          /\ cabecera'[e] \in [prevAlloc : Nat, nextAlloc : Nat, isfree : BOOLEAN]
    <2> TAKE e \in DOMAIN cabecera'
    <2>1. CASE e = p
      BY <2>1, <1>3, <1>4, <1>5, <1>6 DEF TypeOK
    <2>2. CASE e = s
      BY <2>2, <1>2, <1>4, <1>5, <1>6 DEF TypeOK
    <2>3. CASE e \notin {p, s}
      BY <2>3, <1>6 DEF TypeOK
    <2> QED  BY <2>1, <2>2, <2>3
  <1>9. cabecera'[p].nextAlloc = s /\ cabecera'[s].prevAlloc = p
    BY <1>2, <1>3, <1>6 DEF TypeOK
  <1>10. TypeOK'
    <2>1. DOMAIN cabecera' \subseteq Nat /\ DOMAIN reservas' \subseteq Nat
      BY <1>6, <1>7 DEF TypeOK
    <2>2. \A e \in DOMAIN reservas' : reservas'[e] \in Tamanios
      BY <1>7 DEF TypeOK
    <2> QED  BY <2>1, <2>2, <1>8 DEF TypeOK
  <1>11. CadenaCorrecta'
    <2>1. {0, lastHeap'} \subseteq DOMAIN cabecera' /\ \A e \in DOMAIN cabecera' : e <= lastHeap'
      BY <1>1, <1>6 DEF CadenaCorrecta
    <2>2. ASSUME NEW e \in DOMAIN cabecera' \ {lastHeap'}
          PROVE  LET siguiente == cabecera'[e].nextAlloc
                 IN  /\ siguiente \in DOMAIN cabecera'
                     /\ e + HEAP_METADATA_SIZE < siguiente
                     /\ cabecera'[siguiente].prevAlloc = e
                     /\ \A x \in DOMAIN cabecera' : x <= e \/ siguiente <= x
      <3>1. CASE e = p
        <4>1. \A x \in DOMAIN cabecera' : x <= p \/ s <= x
          BY <1>2, <1>3, <1>4, <1>6 DEF TypeOK
        <4>2. p + HEAP_METADATA_SIZE < s /\ s # d
          BY <1>2, <1>3, <1>4
        <4> QED  BY <3>1, <4>1, <4>2, <1>2, <1>6, <1>9
      <3>2. CASE e # p
        <4> DEFINE t == cabecera[e].nextAlloc
        <4>1. e \in DOMAIN cabecera \ {lastHeap} /\ e # d
          BY <1>6
        <4>2. /\ t \in DOMAIN cabecera /\ e + HEAP_METADATA_SIZE < t
              /\ cabecera[t].prevAlloc = e
              /\ \A x \in DOMAIN cabecera : x <= e \/ t <= x
          BY <4>1 DEF CadenaCorrecta
        <4>3. cabecera'[e].nextAlloc = t
          BY <3>2, <1>8
        <4> HIDE DEF t
        <4>4. t # d /\ t # s
          BY <4>1, <4>2, <3>2, <1>2 DEF p
        <4>5. cabecera'[t].prevAlloc = e
          BY <4>2, <4>4, <1>6, <1>8
        <4> QED  BY <4>2, <4>3, <4>4, <4>5, <1>6
      <3> QED  BY <3>1, <3>2
    <2>3. ASSUME NEW e \in DOMAIN cabecera' \ {0}
          PROVE  LET previo == cabecera'[e].prevAlloc
                 IN  previo \in DOMAIN cabecera' \ {lastHeap'} /\ cabecera'[previo].nextAlloc = e
      <3>1. CASE e = s
        <4>1. cabecera'[e].prevAlloc = p /\ cabecera'[p].nextAlloc = e
          BY <3>1, <1>9
        <4>2. p # d
          BY <1>4, <1>5
        <4>3. p \in DOMAIN cabecera' \ {lastHeap'}
          BY <4>2, <1>3, <1>6
        <4> QED  BY <4>1, <4>3
      <3>2. CASE e # s
        <4> DEFINE t == cabecera[e].prevAlloc
        <4>1. t \in DOMAIN cabecera \ {lastHeap} /\ cabecera[t].nextAlloc = e
          BY <1>6 DEF CadenaCorrecta
        <4>2. cabecera'[e].prevAlloc = t
          BY <3>2, <1>8
        <4> HIDE DEF t
        <4>3. t # d
          BY <4>1, <3>2 DEF s
        <4>4. t # p
          BY <4>1, <1>3, <1>6
        <4> QED  BY <4>1, <4>2, <4>3, <4>4, <1>6, <1>8
      <3> QED  BY <3>1, <3>2
    <2> QED  BY <2>1, <2>2, <2>3 DEF CadenaCorrecta
  <1>12. ReservasEnElHeap'
    <2>1. ASSUME NEW e \in DOMAIN reservas'
          PROVE  /\ e \in DOMAIN cabecera' \ {lastHeap'} /\ ~cabecera'[e].isfree
                 /\ e + HEAP_METADATA_SIZE + reservas'[e] <= cabecera'[e].nextAlloc
      <3>1. /\ e \in DOMAIN cabecera \ {lastHeap} /\ ~cabecera[e].isfree /\ e # d
            /\ e + HEAP_METADATA_SIZE + reservas[e] <= cabecera[e].nextAlloc
        BY <1>7 DEF ReservasEnElHeap
      <3>2. e # p
        BY <3>1, <1>1
      <3> QED  BY <3>1, <3>2, <1>6, <1>7, <1>8
    <2> QED  BY <2>1 DEF ReservasEnElHeap
  <1>13. SinFugas'
    BY <1>6, <1>7, <1>8 DEF SinFugas
  <1>14. Buscado'
    BY DEF Buscado, Libre
  <1> QED  BY <1>10, <1>11, <1>12, <1>13, <1>14

LEMMA MemfreeConserva ==
    ASSUME ConstantesValidas, Inductivo, NEW d \in DOMAIN reservas, memfree(d)
    PROVE  Inductivo'
  <1>1. /\ hilo = Libre /\ d \in DOMAIN cabecera /\ Olvida(d)
        /\ UNCHANGED <<hilo, viva>>
    BY DEF memfree, EsSuyo, EnMemoriaYMas, EnMemoria
  <1>2. /\ DOMAIN reservas' = DOMAIN reservas \ {d}
        /\ \A e \in DOMAIN reservas' : reservas'[e] = reservas[e]
    BY <1>1 DEF Olvida
  <1>3. /\ DOMAIN reservas' \subseteq Nat
        /\ \A e \in DOMAIN reservas' : reservas'[e] \in Tamanios
    BY <1>2 DEF Inductivo, TypeOK
  <1>4. Buscado'
    BY <1>1 DEF Buscado, Libre
  <1>5. Cabeceras(cabecera)
    BY DEF Inductivo, TypeOK, Cabeceras
  <1>6. CASE /\ UneAnterior(d) /\ cabecera' = Une(d)
             /\ UNCHANGED <<lastHeap, paginas, intacta>>
    <2>1. CASE intacta
      BY <2>1, <1>1, <1>6, UneConserva
    <2>2. CASE ~intacta
      <3>1. Cabeceras(cabecera')
        BY <1>1, <1>5, <1>6 DEF Une, Anterior, Cabeceras
      <3>2. TypeOK'
        BY <3>1, <1>1, <1>3, <1>6 DEF Inductivo, TypeOK, Cabeceras
      <3> QED  BY <3>2, <2>2, <1>4, <1>6, SinPromesas DEF Inductivo, TypeOK
    <2> QED  BY <2>1, <2>2
  <1>7. CASE /\ SacaPagina(d) /\ cabecera' = Hasta(cabecera, paginas - 1)
             /\ lastHeap' = Anterior(d) /\ paginas' = paginas - 1 /\ intacta' = FALSE
    <2>1. Cabeceras(cabecera')
      BY <1>5, <1>7, HastaTipo
    <2>2. lastHeap' \in Nat
      BY <1>1, <1>5, <1>7 DEF Anterior, Cabeceras
    <2>3. paginas' \in Nat
      <3>1. d \in Nat /\ d \div tamanioDePagina \in Nat
        BY Division DEF Inductivo, TypeOK, ConstantesValidas
      <3>2. paginas = d \div tamanioDePagina + 1
        BY <1>7 DEF SacaPagina, Pagina
      <3> QED  BY <3>1, <3>2, <1>7
    <2>4. TypeOK'
      BY <2>1, <2>2, <2>3, <1>1, <1>3, <1>7 DEF Inductivo, TypeOK, Cabeceras
    <2> QED  BY <2>4, <1>4, <1>7, SinPromesas
  <1>8. CASE cabecera' = Liberada(d) /\ UNCHANGED <<lastHeap, paginas, intacta>>
    <2>1. /\ DOMAIN cabecera' = DOMAIN cabecera
          /\ \A e \in DOMAIN cabecera :
                /\ cabecera'[e].prevAlloc = cabecera[e].prevAlloc
                /\ cabecera'[e].nextAlloc = cabecera[e].nextAlloc
                /\ cabecera'[e].isfree = IF e = d THEN TRUE ELSE cabecera[e].isfree
                /\ cabecera'[e] \in [prevAlloc : Nat, nextAlloc : Nat, isfree : BOOLEAN]
      BY <1>1, <1>8 DEF Liberada, Inductivo, TypeOK
    <2>2. TypeOK'
      <3>1. DOMAIN cabecera' \subseteq Nat
        BY <2>1 DEF Inductivo, TypeOK
      <3> QED  BY <3>1, <2>1, <1>1, <1>3, <1>8 DEF Inductivo, TypeOK
    <2>3. CadenaCorrecta'
      <3>1. ASSUME intacta, NEW e \in DOMAIN cabecera' \ {lastHeap'}
            PROVE  LET siguiente == cabecera'[e].nextAlloc
                   IN  /\ siguiente \in DOMAIN cabecera'
                       /\ e + HEAP_METADATA_SIZE < siguiente
                       /\ cabecera'[siguiente].prevAlloc = e
                       /\ \A x \in DOMAIN cabecera' : x <= e \/ siguiente <= x
        <4> DEFINE t == cabecera[e].nextAlloc
        <4>1. /\ t \in DOMAIN cabecera /\ e + HEAP_METADATA_SIZE < t /\ cabecera[t].prevAlloc = e
              /\ \A x \in DOMAIN cabecera : x <= e \/ t <= x
          BY <3>1, <2>1, <1>8 DEF Inductivo, CadenaCorrecta
        <4>2. cabecera'[e].nextAlloc = t /\ cabecera'[t].prevAlloc = e
          BY <3>1, <4>1, <2>1
        <4> HIDE DEF t
        <4> QED  BY <4>1, <4>2, <2>1
      <3>2. ASSUME intacta, NEW e \in DOMAIN cabecera' \ {0}
            PROVE  LET previo == cabecera'[e].prevAlloc
                   IN  previo \in DOMAIN cabecera' \ {lastHeap'} /\ cabecera'[previo].nextAlloc = e
        <4> DEFINE t == cabecera[e].prevAlloc
        <4>1. t \in DOMAIN cabecera \ {lastHeap} /\ cabecera[t].nextAlloc = e
          BY <3>2, <2>1 DEF Inductivo, CadenaCorrecta
        <4>2. cabecera'[e].prevAlloc = t /\ cabecera'[t].nextAlloc = e
          BY <3>2, <4>1, <2>1
        <4> HIDE DEF t
        <4> QED  BY <4>1, <4>2, <2>1, <1>8
      <3>3. intacta => /\ {0, lastHeap'} \subseteq DOMAIN cabecera'
                       /\ \A e \in DOMAIN cabecera' : e <= lastHeap'
        BY <2>1, <1>8 DEF Inductivo, CadenaCorrecta
      <3> QED  BY <3>1, <3>2, <3>3, <1>8 DEF CadenaCorrecta
    <2>4. ReservasEnElHeap'
      BY <2>1, <1>2, <1>8 DEF Inductivo, ReservasEnElHeap
    <2>5. SinFugas'
      BY <2>1, <1>1, <1>2, <1>8 DEF Inductivo, SinFugas
    <2> QED  BY <2>2, <2>3, <2>4, <2>5, <1>4 DEF Inductivo
  <1> QED  BY <1>6, <1>7, <1>8 DEF memfree

\* Every step keeps the invariant.
LEMMA PasoInductivo ==
    ASSUME ConstantesValidas, Inductivo, [Next]_vars
    PROVE  Inductivo'
  <1>1. ASSUME NEW n \in Tamanios, memalloc(n) PROVE Inductivo'
    BY <1>1, MemallocConserva
  <1>2. ASSUME Sigue PROVE Inductivo'
    BY <1>2, SigueBuscandoConserva, EncuentraConserva, AlFinalConserva, CreceConserva DEF Sigue
  <1>3. ASSUME NEW d \in DOMAIN reservas, memfree(d) PROVE Inductivo'
    BY <1>3, MemfreeConserva
  <1>4. ASSUME NEW d \in DOMAIN reservas, memfreeFalla(d) \/ memread(d) \/ memwrite(d)
        PROVE  Inductivo'
    <2>1. UNCHANGED <<cabecera, lastHeap, paginas, hilo, viva, intacta, reservas>>
      BY <1>4 DEF memfreeFalla, memread, memwrite, Accede
    <2> QED  BY <2>1, HeapIgual DEF Inductivo, TypeOK, Buscado
  <1>5. ASSUME NEW d, PaginaInexistente(d) PROVE Inductivo'
    <2>1. /\ UNCHANGED <<cabecera, lastHeap, paginas, hilo, intacta, reservas>>
          /\ viva' = FALSE
      BY <1>5 DEF PaginaInexistente
    <2> QED  BY <2>1, HeapIgual DEF Inductivo, TypeOK, Buscado
  <1>6. ASSUME UNCHANGED vars PROVE Inductivo'
    BY <1>6, HeapIgual DEF vars, Inductivo, TypeOK, Buscado
  <1> QED  BY <1>1, <1>2, <1>3, <1>4, <1>5, <1>6 DEF Next

\* Whatever the sizes, the pages and the calls, the invariant holds.
THEOREM SiempreInductivo == Spec => []Inductivo
  <1>1. Init => Inductivo
    BY ConstantesValidas, InicialInductivo
  <1>2. Inductivo /\ [Next]_vars => Inductivo'
    BY ConstantesValidas, PasoInductivo
  <1> QED  BY <1>1, <1>2, PTL DEF Spec

\* Every variable of the heap keeps its type.
THEOREM TipoDelHeap == Spec => []TypeOK
  <1>1. Inductivo => TypeOK
    BY DEF Inductivo
  <1> QED  BY <1>1, SiempreInductivo, PTL

\* The chain of headers that memalloc extends and memfree joins tiles the heap.
THEOREM CadenaSiempreCorrecta == Spec => []CadenaCorrecta
  <1>1. Inductivo => CadenaCorrecta
    BY DEF Inductivo
  <1> QED  BY <1>1, SiempreInductivo, PTL

\* A block that memalloc gave stays in use, with its space, until memfree.
THEOREM ReservasSiempreEnElHeap == Spec => []ReservasEnElHeap
  <1>1. Inductivo => ReservasEnElHeap
    BY DEF Inductivo
  <1> QED  BY <1>1, SiempreInductivo, PTL

\* No block stays marked in use that the carpincho does not hold.
THEOREM NuncaHayFugas == Spec => []SinFugas
  <1>1. Inductivo => SinFugas
    BY DEF Inductivo
  <1> QED  BY <1>1, SiempreInductivo, PTL

-----------------------------------------------------------------------------
(* Refinement of Reservas.                                                 *)

\* The blocks held are before the end of the heap, one after the other.
LEMMA Separadas ==
    ASSUME ConstantesValidas, Inductivo, intacta, NEW e \in DOMAIN reservas
    PROVE  /\ e \in Nat /\ reservas[e] \in Nat \ {0}
           /\ e + HEAP_METADATA_SIZE + reservas[e] <= lastHeap
           /\ \A d \in DOMAIN cabecera :
                 d <= e \/ e + HEAP_METADATA_SIZE + reservas[e] <= d
  <1>1. /\ e \in DOMAIN cabecera \ {lastHeap}
        /\ e + HEAP_METADATA_SIZE + reservas[e] <= cabecera[e].nextAlloc
    BY DEF Inductivo, ReservasEnElHeap
  <1>2. /\ cabecera[e].nextAlloc \in DOMAIN cabecera /\ cabecera[e].nextAlloc <= lastHeap
        /\ \A d \in DOMAIN cabecera : d <= e \/ cabecera[e].nextAlloc <= d
    BY <1>1 DEF Inductivo, CadenaCorrecta
  <1>3. /\ e \in Nat /\ reservas[e] \in Nat \ {0} /\ lastHeap \in Nat
        /\ DOMAIN cabecera \subseteq Nat /\ HEAP_METADATA_SIZE \in Nat
    BY DEF Inductivo, TypeOK, ConstantesValidas
  <1> QED  BY <1>1, <1>2, <1>3

\* The block of a search that succeeds, or that at the end, is nobody's.
LEMMA ReservaSeparada ==
    ASSUME ConstantesValidas, Inductivo, intacta, intacta', NEW n \in Tamanios,
           NEW d \in DOMAIN cabecera, Responde(d, n),
           \/ d = lastHeap
           \/ d # lastHeap /\ Sirve(d, n)
    PROVE  Abstracto!Next
  <1>1. d \in Nat /\ n \in Nat /\ HEAP_METADATA_SIZE \in Nat /\ lastHeap \in Nat
    BY DEF Inductivo, TypeOK, ConstantesValidas
  <1>2. ASSUME NEW e \in DOMAIN reservas
        PROVE  Abstracto!Separados(d, n, e, reservas[e])
    <2>1. /\ e \in DOMAIN cabecera \ {lastHeap} /\ ~cabecera[e].isfree
          /\ e \in Nat /\ reservas[e] \in Nat \ {0}
          /\ e + HEAP_METADATA_SIZE + reservas[e] <= lastHeap
          /\ d <= e \/ e + HEAP_METADATA_SIZE + reservas[e] <= d
      BY Separadas DEF Inductivo, ReservasEnElHeap
    <2>2. CASE d = lastHeap
      BY <2>1, <2>2, <1>1 DEF Abstracto!Separados
    <2>3. CASE d # lastHeap /\ Sirve(d, n)
      <3>1. d # e /\ cabecera[d].nextAlloc \in Nat
            /\ d + HEAP_METADATA_SIZE + n <= cabecera[d].nextAlloc
        BY <2>1, <2>3, <1>1 DEF Sirve, Inductivo, TypeOK
      <3>2. e <= d \/ cabecera[d].nextAlloc <= e
        BY <2>1, <2>3 DEF Inductivo, CadenaCorrecta
      <3> QED  BY <2>1, <3>1, <3>2, <1>1 DEF Abstracto!Separados
    <2> QED  BY <2>2, <2>3
  <1>3. reservas' = Abstracto!Con(reservas, d, n) /\ respuesta' = d
    BY DEF Responde, Con, Abstracto!Con
  <1>4. d \in DOMAIN reservas' /\ reservas'[d] = n
    BY <1>3 DEF Abstracto!Con
  <1>5. Abstracto!Reserva(d, reservas'[d])
    BY <1>2, <1>3, <1>4 DEF Abstracto!Reserva
  <1> QED  BY <1>4, <1>5 DEF Abstracto!Next

\* Every step of the heap is a step of Reservas.
LEMMA PasoImplementa ==
    ASSUME ConstantesValidas, Inductivo, [Next]_vars
    PROVE  [Abstracto!Next]_<<reservas, respuesta, intacta>>
  <1> DEFINE Meta == [Abstracto!Next]_<<reservas, respuesta, intacta>>
             a == hilo.allocActual
             n == hilo.espacio
  <1>1. CASE ~intacta'
    BY <1>1 DEF Abstracto!Next
  <1>2. CASE intacta'
    <2> USE <1>2
    <2>1. ASSUME NEW k \in Tamanios, memalloc(k) PROVE Meta
      BY <2>1 DEF memalloc, Abstracto!Next, Abstracto!Atiende
    <2>2. ASSUME SigueBuscando(a, n) PROVE Meta
      BY <2>2 DEF SigueBuscando
    <2>3. ASSUME Encuentra(a, n) PROVE Meta
      <3>1. CASE UNCHANGED <<hilo, respuesta, reservas>>
        BY <3>1, <2>3 DEF Encuentra
      <3>2. CASE Responde(a, n)
        <4>1. /\ a \in DOMAIN cabecera /\ a < lastHeap /\ Sirve(a, n) /\ hilo.pc = "busca"
              /\ UNCHANGED intacta
          BY <2>3 DEF Encuentra, EnMemoria, Buscando
        <4>2. n \in Tamanios /\ a # lastHeap
          BY <4>1 DEF Inductivo, Buscado, TypeOK
        <4> QED  BY <4>1, <4>2, <3>2, ReservaSeparada
      <3> QED  BY <2>3, <3>1, <3>2 DEF Encuentra
    <2>4. ASSUME AlFinal(a, n) \/ Crece(a, n) PROVE Meta
      <3>1. Responde(lastHeap, n) /\ hilo.pc = "busca" /\ intacta
        BY <2>4 DEF AlFinal, Crece, Agrega, NoEncuentra, Buscando, Inductivo, TypeOK
      <3>2. n \in Tamanios /\ lastHeap \in DOMAIN cabecera
        BY <3>1 DEF Inductivo, Buscado
      <3> QED  BY <3>1, <3>2, ReservaSeparada
    <2>5. ASSUME NEW d \in DOMAIN reservas, memfree(d) PROVE Meta
      <3>1. intacta
        BY <2>5 DEF memfree, Inductivo, TypeOK
      <3>2. Abstracto!Libera(d)
        BY <2>5 DEF memfree, Olvida, Abstracto!Libera
      <3> QED  BY <3>1, <3>2 DEF Abstracto!Next
    <2>6. ASSUME NEW d \in DOMAIN reservas, memfreeFalla(d) \/ memread(d) \/ memwrite(d)
          PROVE  Meta
      <3>1. intacta /\ UNCHANGED reservas
        BY <2>6 DEF memfreeFalla, memread, memwrite, Accede
      <3>2. /\ d \in Nat /\ lastHeap \in Nat /\ HEAP_METADATA_SIZE \in Nat /\ reservas[d] \in Nat \ {0}
            /\ d + HEAP_METADATA_SIZE + reservas[d] <= lastHeap
        BY <3>1, Separadas DEF Inductivo, TypeOK, ConstantesValidas
      <3>3. d < lastHeap /\ d + HEAP_METADATA_SIZE < lastHeap
        BY <3>2
      <3>4. respuesta' = OK
        <4>1. CASE memfreeFalla(d)
          BY <4>1, <3>2, <3>3 DEF memfreeFalla
        <4>2. CASE memread(d)
          BY <4>2, <3>3 DEF memread, Accede
        <4>3. CASE memwrite(d)
          BY <4>3, <3>3 DEF memwrite, Accede
        <4> QED  BY <2>6, <4>1, <4>2, <4>3
      <3> QED  BY <3>1, <3>4 DEF Abstracto!Next, Abstracto!Accede
    <2>7. ASSUME NEW d, PaginaInexistente(d) PROVE Meta
      BY <2>7 DEF PaginaInexistente
    <2>8. ASSUME UNCHANGED vars PROVE Meta
      BY <2>8 DEF vars
    <2> QED  BY <2>1, <2>2, <2>3, <2>4, <2>5, <2>6, <2>7, <2>8 DEF Next, Sigue
  <1> QED  BY <1>1, <1>2 DEF Inductivo, TypeOK

\* The heap is an allocator: until a page with blocks is taken out, memalloc gives
\* blocks that nobody has, memfree gives back one, and no access to them fails.
THEOREM HeapImplementaReservas == Spec => ImplementaReservas
  <1>1. Init => Abstracto!Init
    BY DEF Init, Abstracto!Init
  <1>2. Inductivo /\ [Next]_vars => [Abstracto!Next]_<<reservas, respuesta, intacta>>
    BY ConstantesValidas, PasoImplementa
  <1> QED  BY <1>1, <1>2, SiempreInductivo, PTL DEF Spec, ImplementaReservas, Abstracto!Spec

=============================================================================
