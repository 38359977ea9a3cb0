--------------------------- MODULE Paginacion_proofs ---------------------------
(***************************************************************************)
(* Theorems about Paginacion.                                              *)
(***************************************************************************)
EXTENDS Paginacion, Secuencias_proofs

-----------------------------------------------------------------------------
(* Loops.  D[n] is where the loop may be after the round n.                *)

\* An execution of the loop whose round n is the function F[n].
Recorre(t, a, b, x0, F) ==
    t = [n \in a - 1 .. b |-> IF n = a - 1 THEN x0 ELSE F[n][t[n - 1]]]

\* A loop that keeps to D has one execution, and it keeps to D.
LEMMA HayVueltas ==
    ASSUME NEW a \in Int, NEW b \in Int, a - 1 <= b, NEW x0, NEW D, NEW F, x0 \in D[a - 1],
           \A n \in a .. b : \A x \in D[n - 1] : F[n][x] \in D[n]
    PROVE  \E t : /\ Recorre(t, a, b, x0, F)
                  /\ \A n \in a - 1 .. b : t[n] \in D[n]
<1> DEFINE Hasta(m, t) ==
               /\ DOMAIN t = a - 1 .. m /\ t[a - 1] = x0
               /\ \A n \in a .. m : t[n] = F[n][t[n - 1]]
               /\ \A n \in a - 1 .. m : t[n] \in D[n]
           Malas == {k \in Nat : a - 1 + k <= b /\ ~ \E t : Hasta(a - 1 + k, t)}
<1>1. Malas = {}
  <2> SUFFICES ASSUME Malas # {} PROVE FALSE
    OBVIOUS
  <2>1. Malas \in SUBSET Nat
    OBVIOUS
  <2>2. PICK k \in Malas : \A j \in Malas : k <= j
    BY <2>1, MinimoDeNaturales
  <2>3. k \in Nat /\ a - 1 + k <= b /\ ~ \E t : Hasta(a - 1 + k, t)
    BY <2>2
  <2> HIDE DEF Hasta
  <2>4. CASE k = 0
    <3>1. PICK t : t = [n \in a - 1 .. a - 1 |-> x0]
      OBVIOUS
    <3>2. Hasta(a - 1, t)
      BY <3>1 DEF Hasta
    <3> QED BY <2>3, <2>4, <3>2
  <2>5. CASE k # 0
    <3>1. PICK m \in Int : m = a - 1 + k
      BY <2>3
    <3>2. m \in a .. b /\ m - 1 = a - 1 + (k - 1) /\ k - 1 \in Nat /\ ~(k <= k - 1)
      BY <2>3, <2>5, <3>1
    <3>3. k - 1 \notin Malas
      BY <2>2, <3>2
    <3>4. PICK t : Hasta(m - 1, t)
      BY <2>3, <3>2, <3>3
    <3>5. PICK u : u = [n \in a - 1 .. m |-> IF n = m THEN F[m][t[m - 1]] ELSE t[n]]
      OBVIOUS
    <3>6. Hasta(m, u)
      <4>1. /\ DOMAIN u = a - 1 .. m /\ u[m] = F[m][t[m - 1]]
            /\ \A n \in a - 1 .. m - 1 : u[n] = t[n]
        BY <3>2, <3>5
      <4>2. /\ t[a - 1] = x0 /\ \A n \in a .. m - 1 : t[n] = F[n][t[n - 1]]
            /\ \A n \in a - 1 .. m - 1 : t[n] \in D[n]
        BY <3>4 DEF Hasta
      <4>3. u[a - 1] = x0
        BY <3>2, <4>1, <4>2
      <4>4. ASSUME NEW n \in a .. m PROVE u[n] = F[n][u[n - 1]]
        <5>1. n - 1 \in a - 1 .. m - 1 /\ u[n - 1] = t[n - 1]
          BY <3>2, <4>1
        <5>2. CASE n = m
          BY <4>1, <5>1, <5>2
        <5>3. CASE n # m
          BY <3>2, <4>1, <4>2, <5>1, <5>3
        <5> QED BY <5>2, <5>3
      <4>5. ASSUME NEW n \in a - 1 .. m PROVE u[n] \in D[n]
        <5>1. t[m - 1] \in D[m - 1]
          BY <3>2, <4>2
        <5>2. CASE n = m
          <6>1. u[m] \in D[m]
            BY <3>2, <4>1, <5>1
          <6> QED BY <5>2, <6>1
        <5>3. CASE n # m
          <6>1. n \in a - 1 .. m - 1
            BY <3>2, <5>3
          <6> QED BY <4>1, <4>2, <6>1
        <5> QED BY <5>2, <5>3
      <4> QED BY <4>1, <4>3, <4>4, <4>5 DEF Hasta
    <3> QED BY <2>3, <3>1, <3>6
  <2> QED BY <2>4, <2>5
<1>2. PICK t : Hasta(b, t)
  <2>1. PICK k \in Nat : b = a - 1 + k
    <3>1. b - (a - 1) \in Nat /\ b = a - 1 + (b - (a - 1))
      OBVIOUS
    <3> QED BY <3>1
  <2>2. k \notin Malas
    BY <1>1
  <2> HIDE DEF Hasta
  <2> QED BY <2>1, <2>2
<1>3. PICK u : u = [n \in a - 1 .. b |-> t[n]]
  OBVIOUS
<1>4. u = [n \in a - 1 .. b |-> IF n = a - 1 THEN x0 ELSE F[n][u[n - 1]]]
  <2>1. \A n \in a - 1 .. b : u[n] = IF n = a - 1 THEN x0 ELSE F[n][u[n - 1]]
    BY <1>2, <1>3
  <2> QED BY <1>3, <2>1
<1> QED BY <1>2, <1>3, <1>4 DEF Recorre

\* Any execution of the loop keeps to D.
LEMMA VueltasEnD ==
    ASSUME NEW a \in Int, NEW b \in Int, a - 1 <= b, NEW t, NEW D, t[a - 1] \in D[a - 1],
           \A n \in a .. b : t[n - 1] \in D[n - 1] => t[n] \in D[n]
    PROVE  t[b] \in D[b]
<1> DEFINE Malas == {k \in Nat : a - 1 + k <= b /\ t[a - 1 + k] \notin D[a - 1 + k]}
<1>1. Malas = {}
  <2> SUFFICES ASSUME Malas # {} PROVE FALSE
    OBVIOUS
  <2>1. Malas \in SUBSET Nat
    OBVIOUS
  <2>2. PICK k \in Malas : \A j \in Malas : k <= j
    BY <2>1, MinimoDeNaturales
  <2>3. k # 0
    BY <2>2
  <2>4. k - 1 \in Nat /\ k - 1 \notin Malas /\ a - 1 + (k - 1) <= b
    BY <2>2, <2>3
  <2>5. PICK m \in Int : m = a - 1 + k
    BY <2>2
  <2>6. m \in a .. b /\ m - 1 = a - 1 + (k - 1)
    BY <2>2, <2>3, <2>5
  <2> QED BY <2>2, <2>4, <2>5, <2>6
<1>2. b - (a - 1) \in Nat /\ b = a - 1 + (b - (a - 1))
  OBVIOUS
<1> QED BY <1>1, <1>2

\* The first of a set of positions, 0 if there is none.
LEMMA PrimeraDe ==
    ASSUME NEW n \in Nat, NEW I \in SUBSET (1 .. n), NEW i, i = IF I # {} THEN Min(I) ELSE 0
    PROVE  i \in 0 .. n /\ (i # 0 => i \in I) /\ (i = 0 => I = {})
<1>1. CASE I # {}
  <2>1. I \in SUBSET Nat
    OBVIOUS
  <2>2. Min(I) \in I /\ i = Min(I)
    BY <1>1, <2>1, MinimoDeNaturales
  <2>3. i \in 1 .. n
    BY <2>2
  <2> QED BY <1>1, <2>2, <2>3
<1>2. CASE I = {}
  BY <1>2
<1> QED BY <1>1, <1>2

-----------------------------------------------------------------------------
(* The state of the tables, and what every critical section keeps of it.   *)

Paginas == [frame : TodosLosMarcos, bitPresencia : BOOLEAN]
Entradas == [pid : Procesos, pagina : Numeros, frame : TodosLosMarcos]

Estados ==
    [paginas : [Procesos -> Seq(Paginas)],
     lRU : Seq(Procesos \X Numeros),
     memoria : [Frames -> Valores],
     tlb : Seq(Entradas \cup {Nada}),
     swap : [Procesos -> [Numeros -> Valores \cup {Nada}]],
     degenerar : BOOLEAN, intacta : BOOLEAN, viva : BOOLEAN]

\* The pages of all the tables, by process and number.
Todas(e) == {q \in Procesos \X Numeros : q[2] \in 1 .. Len(e.paginas[q[1]])}
LaPagina(e, q) == e.paginas[q[1]][q[2]]
DeLaTLB(e) == Range(e.tlb) \ {Nada}

Cortas(e) == \A p \in Procesos : Len(e.paginas[p]) <= MaxPaginas
Ordenado(e) == IsInjective(e.lRU) /\ Range(e.lRU) = Todas(e)

\* No two pages name one frame, in memory or not: a suspended page keeps its own.
SinCompartir(e) ==
    \A q, r \in Todas(e) :
        LaPagina(e, q).frame = LaPagina(e, r).frame /\ LaPagina(e, q).frame \in Frames => q = r

\* Under the fixed assignment a process has one page in memory at most.
UnaPresente(e) ==
    \A q, r \in Todas(e) : q[1] = r[1] /\ Presente(e, q) /\ Presente(e, r) => q = r

\* The TLB has each entry once, and none if it has no room for any.
TLBUnica(e) ==
    /\ \A i, j \in DOMAIN e.tlb : e.tlb[i] = e.tlb[j] /\ e.tlb[i] # Nada => i = j
    /\ max_entradas_tlb = 0 => DOMAIN e.tlb = {}

\* Its entries are of pages in memory, with their frames, but for those of the processes
\* that ended.
TLBCierta(e) ==
    \A t \in DeLaTLB(e) :
        e.paginas[t.pid] # << >> =>
            /\ <<t.pid, t.pagina>> \in Todas(e)
            /\ e.paginas[t.pid][t.pagina] = Pagina(t.frame)

Fija == ~tipoDeAsignacionDinamica
Reloj == ALGORITMO_REEMPLAZO_MMU = "CLOCK-M"

\* The TLB entry of a victim is looked for under its own process.
Propia == Reloj \/ Fija
\* So the TLB can be relied on: with LRU and the dynamic assignment, it keeps the entry of
\* a victim of another process, if it has room for any.
Fiel == Propia \/ max_entradas_tlb = 0

\* What holds of every state of the tables, and what holds until a page is lost.
Sano(e) == e \in Estados /\ Cortas(e) /\ Ordenado(e) /\ SinCompartir(e) /\ TLBUnica(e)

Bueno(e) ==
    /\ Sano(e)
    /\ e.intacta /\ Fija => UnaPresente(e)
    /\ e.intacta /\ Propia => TLBCierta(e)

\* What a page holds: its frame if it is in memory, what swamp keeps otherwise.
Cont(e, q) ==
    IF Presente(e, q) THEN Bytes(e, LaPagina(e, q).frame) ELSE TraeDeSwamp(e, q[1], q[2])

\* The pages of p, and no others, may hold something new, and until one is lost it is
\* what was written; or none does.
Cambia(e, s, p) ==
    Fiel /\ s.intacta =>
        \A q \in Todas(e) \cap Todas(s) :
            Cont(s, q) = Cont(e, q) \/ (q[1] = p /\ Cont(s, q) \in Contenidos)
Conserva(e, s) ==
    Fiel /\ s.intacta => \A q \in Todas(e) \cap Todas(s) : Cont(s, q) = Cont(e, q)

\* A step of p keeps the tables sound: those of the others keep their sizes, and entries
\* of the TLB are added for p only.
Mantiene(e, s, p) ==
    /\ Bueno(s)
    /\ s.intacta => e.intacta
    /\ \A r \in Procesos \ {p} : Len(s.paginas[r]) = Len(e.paginas[r])
    /\ \A t \in DeLaTLB(s) : t \in DeLaTLB(e) \/ t.pid = p

\* What the rest of a call of p may count on: all the tables keep their sizes, and the
\* pages what they hold, but for what p writes.
Sigue(e, s, p) ==
    /\ Bueno(s)
    /\ s.intacta => e.intacta
    /\ \A r \in Procesos : Len(s.paginas[r]) = Len(e.paginas[r])
    /\ \A t \in DeLaTLB(s) : t \in DeLaTLB(e) \/ t.pid = p
    /\ Cambia(e, s, p)

-----------------------------------------------------------------------------
(* The fields each operator changes.                                       *)

LEMMA TablaDe ==
    ASSUME NEW e \in Estados, NEW p \in Procesos
    PROVE  /\ e.paginas[p] \in Seq(Paginas) /\ Len(e.paginas[p]) \in Nat
           /\ DOMAIN e.paginas[p] = 1 .. Len(e.paginas[p])
           /\ \A g \in 1 .. Len(e.paginas[p]) : e.paginas[p][g] \in Paginas
<1>1. e.paginas[p] \in Seq(Paginas)
  BY DEF Estados
<1> QED BY <1>1

\* No data change.
MismosDatos(e, s) == s.memoria = e.memoria /\ s.swap = e.swap

LEMMA ConTablaEs ==
    ASSUME NEW e \in Estados, NEW p \in Procesos, NEW t \in Seq(Paginas),
           NEW s, s = ConTabla(e, p, t)
    PROVE  /\ s \in Estados
           /\ s.paginas = [e.paginas EXCEPT ![p] = t]
           /\ s.lRU = e.lRU /\ s.tlb = e.tlb /\ s.intacta = e.intacta
           /\ MismosDatos(e, s)
BY DEF ConTabla, Estados, MismosDatos

LEMMA ConLRUEs ==
    ASSUME NEW e \in Estados, NEW o \in Seq(Procesos \X Numeros), NEW s, s = ConLRU(e, o)
    PROVE  /\ s \in Estados
           /\ s.lRU = o /\ s.paginas = e.paginas /\ s.tlb = e.tlb /\ s.intacta = e.intacta
           /\ MismosDatos(e, s)
BY DEF ConLRU, Estados, MismosDatos

\* Only data change.
SoloDatos(e, s) ==
    /\ s \in Estados
    /\ s.paginas = e.paginas /\ s.lRU = e.lRU /\ s.tlb = e.tlb
    /\ s.intacta => e.intacta

LEMMA EscribeEs ==
    ASSUME NEW e \in Estados, NEW f, NEW x \in Valores
    PROVE  /\ SoloDatos(e, Escribe(e, f, x)) /\ Escribe(e, f, x).swap = e.swap
           /\ f \notin Frames => ~Escribe(e, f, x).intacta
           /\ f \in Frames => Escribe(e, f, x).memoria = [e.memoria EXCEPT ![f] = x]
BY DEF Escribe, SoloDatos, Estados

LEMMA EscribeEn ==
    ASSUME NEW e \in Estados, NEW f, NEW x \in Valores, NEW s, s = Escribe(e, f, x)
    PROVE  /\ SoloDatos(e, s) /\ s.swap = e.swap
           /\ s.intacta => f \in Frames
           /\ f \in Frames => s.memoria = [e.memoria EXCEPT ![f] = x]
BY DEF Escribe, SoloDatos, Estados

LEMMA EnSwapEs ==
    ASSUME NEW e \in Estados, NEW p \in Procesos, NEW g \in Numeros, NEW x \in Valores
    PROVE  /\ SoloDatos(e, EnSwap(e, p, g, x)) /\ EnSwap(e, p, g, x).intacta = e.intacta
           /\ EnSwap(e, p, g, x).memoria = e.memoria
           /\ \A r \in Procesos, h \in Numeros :
                 EnSwap(e, p, g, x).swap[r][h] = IF r = p /\ h = g THEN x ELSE e.swap[r][h]
BY DEF EnSwap, SoloDatos, Estados

LEMMA MandaASwampEs ==
    ASSUME NEW e \in Estados, NEW p \in Procesos, NEW g \in Numeros, NEW x \in Valores,
           NEW s \in MandaASwamp(e, p, g, x)
    PROVE  /\ SoloDatos(e, s) /\ s.intacta = e.intacta /\ s.memoria = e.memoria
           /\ \/ s.swap = e.swap
              \/ \A r \in Procesos, h \in Numeros :
                    s.swap[r][h] = IF r = p /\ h = g THEN x ELSE e.swap[r][h]
           /\ s.swap[p][g] # Nada => s.swap[p][g] = x
<1>1. CASE s = EnSwap(e, p, g, x)
  BY <1>1, EnSwapEs
<1>2. CASE s = [e EXCEPT !.degenerar = TRUE] /\ e.swap[p][g] = Nada
  BY <1>2 DEF SoloDatos, Estados
<1> QED BY <1>1, <1>2 DEF MandaASwamp

\* What is read from a frame, and from swamp, is bytes.
LEMMA SonValores ==
    ASSUME NEW e \in Estados
    PROVE  /\ \A f : Bytes(e, f) \in Valores
           /\ \A p \in Procesos, g \in Numeros : TraeDeSwamp(e, p, g) \in Valores
BY DEF Bytes, TraeDeSwamp, Estados, Valores

LEMMA SoloDatosBueno ==
    ASSUME NEW e, Bueno(e), NEW s, SoloDatos(e, s), NEW p
    PROVE  /\ Mantiene(e, s, p)
           /\ Cambia(e, s, p) => Sigue(e, s, p)
<1>1. s \in Estados /\ Cortas(s) /\ Ordenado(s) /\ SinCompartir(s) /\ TLBUnica(s)
  BY DEF Bueno, Sano, SoloDatos, Cortas, Ordenado, SinCompartir, TLBUnica, Todas, LaPagina
<1>2. UnaPresente(e) => UnaPresente(s)
  BY DEF SoloDatos, UnaPresente, Todas, Presente
<1>3. TLBCierta(e) => TLBCierta(s)
  BY DEF SoloDatos, TLBCierta, Todas, DeLaTLB
<1> QED BY <1>1, <1>2, <1>3 DEF Bueno, Sano, Mantiene, Sigue, SoloDatos, DeLaTLB

-----------------------------------------------------------------------------
(* What the pages hold.                                                    *)

\* The tables and the data are the same.
LEMMA NadaCambia ==
    ASSUME NEW e, NEW s, s.paginas = e.paginas, MismosDatos(e, s)
    PROVE  /\ Todas(s) = Todas(e) /\ Conserva(e, s)
           /\ \A q : Cont(s, q) = Cont(e, q)
<1>1. \A q : Cont(s, q) = Cont(e, q)
  BY DEF MismosDatos, Cont, Presente, LaPagina, Bytes, TraeDeSwamp
<1> QED BY <1>1 DEF Conserva, Todas

LEMMA ConservaCambia ==
    ASSUME NEW e, NEW s, Conserva(e, s), NEW p
    PROVE  Cambia(e, s, p)
BY DEF Conserva, Cambia

\* A lost page leaves nothing to keep.
LEMMA Perdida ==
    ASSUME NEW e, NEW s, ~s.intacta, NEW p
    PROVE  Conserva(e, s) /\ Cambia(e, s, p)
BY DEF Conserva, Cambia

LEMMA ConservaLuego ==
    ASSUME NEW e, NEW s, NEW u, Conserva(e, s), Conserva(s, u), u.intacta => s.intacta,
           Todas(e) \subseteq Todas(s) \/ Todas(u) \subseteq Todas(s)
    PROVE  Conserva(e, u)
BY DEF Conserva

LEMMA CambiaLuego ==
    ASSUME NEW e, NEW s, NEW u, NEW p, Cambia(e, s, p), Cambia(s, u, p),
           u.intacta => s.intacta,
           Todas(e) \subseteq Todas(s) \/ Todas(u) \subseteq Todas(s)
    PROVE  Cambia(e, u, p)
BY DEF Cambia

LEMMA SigueIgual ==
    ASSUME NEW e, Bueno(e), NEW p
    PROVE  Sigue(e, e, p) /\ Conserva(e, e)
<1>1. SoloDatos(e, e) /\ MismosDatos(e, e)
  BY DEF SoloDatos, MismosDatos, Bueno, Sano
<1>2. Conserva(e, e)
  BY <1>1, NadaCambia
<1> QED BY <1>1, <1>2, SoloDatosBueno, ConservaCambia

\* A frame is written: the pages in memory that name it get what was written.
LEMMA EscribeCont ==
    ASSUME NEW e \in Estados, NEW f, NEW x \in Valores, NEW s, s = Escribe(e, f, x),
           s.intacta
    PROVE  \A q \in Todas(e) :
              Cont(s, q) = IF Presente(e, q) /\ LaPagina(e, q).frame = f THEN x ELSE Cont(e, q)
<1>1. f \in Frames /\ s.memoria = [e.memoria EXCEPT ![f] = x] /\ s.swap = e.swap
      /\ s.paginas = e.paginas
  BY EscribeEs DEF SoloDatos
<1>2. e.memoria \in [Frames -> Valores]
  BY DEF Estados
<1>3. \A k : Bytes(s, k) = IF k = f THEN x ELSE Bytes(e, k)
  BY <1>1, <1>2 DEF Bytes
<1> QED BY <1>1, <1>3 DEF Cont, Presente, LaPagina, TraeDeSwamp

LEMMA EscribeCambia ==
    ASSUME NEW e, Bueno(e), NEW f, NEW x \in Contenidos, NEW s, s = Escribe(e, f, x), NEW p,
           Fiel /\ s.intacta =>
               \A q \in Todas(e) : Presente(e, q) /\ LaPagina(e, q).frame = f => q[1] = p
    PROVE  Sigue(e, s, p)
<1>1. e \in Estados /\ x \in Valores
  BY DEF Bueno, Sano, Valores
<1>2. SoloDatos(e, s)
  BY <1>1, EscribeEs
<1>3. Cambia(e, s, p)
  BY <1>1, EscribeCont DEF Cambia
<1> QED BY <1>2, <1>3, SoloDatosBueno

\* What swamp keeps of a page that is in memory does not count.
LEMMA MandaCambia ==
    ASSUME NEW e, Bueno(e), NEW p \in Procesos, NEW g, <<p, g>> \in Todas(e), NEW x \in Valores,
           NEW s \in MandaASwamp(e, p, g, x),
           Fiel /\ s.intacta => Presente(e, <<p, g>>) \/ x \in Contenidos
    PROVE  Sigue(e, s, p)
<1>1. e \in Estados /\ g \in Numeros
  BY DEF Bueno, Sano, Todas
<1>2. /\ SoloDatos(e, s) /\ s.memoria = e.memoria
      /\ \/ s.swap = e.swap
         \/ \A r \in Procesos, h \in Numeros :
               s.swap[r][h] = IF r = p /\ h = g THEN x ELSE e.swap[r][h]
  BY <1>1, MandaASwampEs
<1>3. ASSUME Fiel, s.intacta, NEW q \in Todas(e)
      PROVE  Cont(s, q) = Cont(e, q) \/ (q[1] = p /\ Cont(s, q) \in Contenidos)
  <2>1. Presente(s, q) <=> Presente(e, q)
    BY <1>2 DEF SoloDatos, Presente
  <2>2. CASE Presente(e, q)
    BY <1>2, <2>1, <2>2 DEF SoloDatos, Cont, LaPagina, Bytes
  <2>3. CASE ~Presente(e, q)
    <3>1. q[1] \in Procesos /\ q[2] \in Numeros /\ q = <<q[1], q[2]>>
      BY DEF Todas
    <3>2. /\ Cont(s, q) = TraeDeSwamp(s, q[1], q[2])
          /\ Cont(e, q) = TraeDeSwamp(e, q[1], q[2])
      BY <2>1, <2>3 DEF Cont
    <3>3. CASE s.swap[q[1]][q[2]] = e.swap[q[1]][q[2]]
      BY <3>2, <3>3 DEF TraeDeSwamp
    <3>4. CASE s.swap[q[1]][q[2]] # e.swap[q[1]][q[2]]
      <4>1. q[1] = p /\ q[2] = g /\ s.swap[q[1]][q[2]] = x
        BY <1>2, <3>1, <3>4
      <4>2. x \in Contenidos
        BY <1>3, <2>3, <3>1, <4>1
      <4> QED BY <3>2, <4>1, <4>2, ConstantesValidas DEF TraeDeSwamp
    <3> QED BY <3>3, <3>4
  <2> QED BY <2>2, <2>3
<1>4. Cambia(e, s, p)
  BY <1>2, <1>3 DEF Cambia, SoloDatos, Todas
<1> QED BY <1>2, <1>4, SoloDatosBueno

-----------------------------------------------------------------------------
(* The TLB.                                                                *)

\* Only the TLB changes.
SoloTLB(e, s) ==
    /\ s \in Estados
    /\ s.paginas = e.paginas /\ s.lRU = e.lRU /\ s.intacta = e.intacta
    /\ MismosDatos(e, s)

LEMMA EntradaEs ==
    ASSUME NEW e \in Estados, NEW t \in DeLaTLB(e)
    PROVE  t \in Entradas
<1>1. e.tlb \in Seq(Entradas \cup {Nada})
  BY DEF Estados
<1>2. PICK i \in DOMAIN e.tlb : t = e.tlb[i] /\ t # Nada
  BY DEF DeLaTLB, Range
<1>3. e.tlb[i] \in Entradas \cup {Nada}
  BY <1>1, <1>2
<1> QED BY <1>2, <1>3

\* A position of the TLB is written.
Pone(e, i, x) == [e EXCEPT !.tlb = ReplaceAt(@, i, x)]

LEMMA PonEnTLB ==
    ASSUME NEW e \in Estados, NEW i \in 1 .. Len(e.tlb), NEW x \in Entradas \cup {Nada},
           NEW s, s = Pone(e, i, x)
    PROVE  /\ SoloTLB(e, s)
           /\ DOMAIN s.tlb = DOMAIN e.tlb
           /\ \A j \in DOMAIN e.tlb : s.tlb[j] = IF j = i THEN x ELSE e.tlb[j]
<1>1. PICK t : t = ReplaceAt(e.tlb, i, x)
  OBVIOUS
<1>2. e.tlb \in Seq(Entradas \cup {Nada})
  BY DEF Estados
<1>3. /\ t \in Seq(Entradas \cup {Nada}) /\ DOMAIN t = DOMAIN e.tlb
      /\ \A j \in DOMAIN e.tlb : t[j] = IF j = i THEN x ELSE e.tlb[j]
  BY <1>1, <1>2 DEF ReplaceAt
<1>4. s = [e EXCEPT !.tlb = t]
  BY <1>1 DEF Pone
<1> QED BY <1>3, <1>4 DEF SoloTLB, MismosDatos, Estados

LEMMA BorraEs ==
    ASSUME NEW e \in Estados, TLBUnica(e), NEW p, NEW g, NEW f,
           NEW s, s = delete_entrada_tlb(e, p, g, f)
    PROVE  /\ SoloTLB(e, s) /\ TLBUnica(s)
           /\ \A t \in DeLaTLB(s) : t \in DeLaTLB(e) /\ t # Entrada(p, g, f)
<1> DEFINE I == {k \in 1 .. Len(e.tlb) : e.tlb[k] = Entrada(p, g, f)}
<1>1. PICK i : i = IF I # {} THEN Min(I) ELSE 0
  OBVIOUS
<1>2. s = IF i = 0 THEN e ELSE Pone(e, i, Nada)
  BY <1>1 DEF delete_entrada_tlb, SelectInSeq, Pone
<1>3. Len(e.tlb) \in Nat /\ DOMAIN e.tlb = 1 .. Len(e.tlb)
  BY DEF Estados
<1>4. i \in 0 .. Len(e.tlb) /\ (i # 0 => i \in I) /\ (i = 0 => I = {})
  <2>1. I \in SUBSET (1 .. Len(e.tlb))
    OBVIOUS
  <2> HIDE DEF I
  <2> QED BY <1>1, <1>3, <2>1, PrimeraDe
<1>5. CASE i = 0
  <2>1. s = e /\ \A k \in DOMAIN e.tlb : e.tlb[k] # Entrada(p, g, f)
    BY <1>2, <1>3, <1>4, <1>5
  <2> QED BY <2>1 DEF SoloTLB, MismosDatos, DeLaTLB, Range
<1>6. CASE i # 0
  <2>1. i \in 1 .. Len(e.tlb) /\ e.tlb[i] = Entrada(p, g, f)
    BY <1>4, <1>6
  <2> HIDE DEF I
  <2>2. /\ SoloTLB(e, s) /\ DOMAIN s.tlb = DOMAIN e.tlb
        /\ \A j \in DOMAIN e.tlb : s.tlb[j] = IF j = i THEN Nada ELSE e.tlb[j]
    BY <1>2, <1>6, <2>1, PonEnTLB
  <2>3. TLBUnica(s)
    BY <2>2 DEF TLBUnica
  <2>4. ASSUME NEW t \in DeLaTLB(s) PROVE t \in DeLaTLB(e) /\ t # Entrada(p, g, f)
    <3>1. PICK j \in DOMAIN s.tlb : s.tlb[j] = t /\ t # Nada
      BY DEF DeLaTLB, Range
    <3>2. j \in DOMAIN e.tlb /\ j # i /\ e.tlb[j] = t
      BY <2>2, <3>1
    <3> QED BY <1>3, <2>1, <3>1, <3>2 DEF DeLaTLB, Range, TLBUnica
  <2> QED BY <2>2, <2>3, <2>4
<1> QED BY <1>5, <1>6

LEMMA AgregaEs ==
    ASSUME NEW e \in Estados, TLBUnica(e), NEW p \in Procesos, NEW g \in Numeros,
           NEW f \in TodosLosMarcos, NEW s \in add_entrada_tlb(e, p, g, f)
    PROVE  /\ SoloTLB(e, s) /\ TLBUnica(s)
           /\ \A t \in DeLaTLB(s) : t \in DeLaTLB(e) \/ t = Entrada(p, g, f)
<1>1. PICK nueva \in Entradas : nueva = Entrada(p, g, f)
  BY DEF Entrada, Entradas
<1>2. e.tlb \in Seq(Entradas \cup {Nada}) /\ DOMAIN e.tlb = 1 .. Len(e.tlb) /\ Len(e.tlb) \in Nat
  BY DEF Estados
<1>3. CASE s = e
  BY <1>3 DEF SoloTLB, MismosDatos
<1>4. CASE max_entradas_tlb # 0 /\ nueva \notin Range(e.tlb) /\ s = [e EXCEPT !.tlb = Append(@, nueva)]
  <2>1. PICK t : t = Append(e.tlb, nueva)
    OBVIOUS
  <2>2. /\ t \in Seq(Entradas \cup {Nada}) /\ DOMAIN t = 1 .. Len(e.tlb) + 1
        /\ t[Len(e.tlb) + 1] = nueva /\ \A j \in 1 .. Len(e.tlb) : t[j] = e.tlb[j]
    BY <1>2, <2>1, AppendProperties
  <2>3. s = [e EXCEPT !.tlb = t]
    BY <1>4, <2>1
  <2>4. SoloTLB(e, s) /\ s.tlb = t
    BY <2>2, <2>3 DEF SoloTLB, MismosDatos, Estados
  <2>5. \A j \in 1 .. Len(e.tlb) : e.tlb[j] # nueva
    BY <1>2, <1>4 DEF Range
  <2>6. TLBUnica(s)
    <3> SUFFICES ASSUME NEW i \in DOMAIN t, NEW j \in DOMAIN t, t[i] = t[j], t[i] # Nada
                 PROVE  i = j
      BY <1>4, <2>4 DEF TLBUnica
    <3> QED BY <1>2, <2>2, <2>5 DEF TLBUnica
  <2>7. \A x \in DeLaTLB(s) : x \in DeLaTLB(e) \/ x = nueva
    BY <1>2, <2>2, <2>4 DEF DeLaTLB, Range
  <2> QED BY <1>1, <2>4, <2>6, <2>7
<1>5. ASSUME NEW i \in DOMAIN e.tlb, nueva \notin Range(e.tlb),
             s = Pone(e, i, nueva)
      PROVE  /\ SoloTLB(e, s) /\ TLBUnica(s)
             /\ \A t \in DeLaTLB(s) : t \in DeLaTLB(e) \/ t = Entrada(p, g, f)
  <2>1. /\ SoloTLB(e, s) /\ DOMAIN s.tlb = DOMAIN e.tlb
        /\ \A j \in DOMAIN e.tlb : s.tlb[j] = IF j = i THEN nueva ELSE e.tlb[j]
    BY <1>2, <1>5, PonEnTLB
  <2>2. \A j \in DOMAIN e.tlb : e.tlb[j] # nueva
    BY <1>5 DEF Range
  <2>3. TLBUnica(s)
    BY <2>1, <2>2 DEF TLBUnica
  <2> QED BY <1>1, <2>1, <2>3 DEF DeLaTLB, Range
<1>6. \/ s = e
      \/ max_entradas_tlb # 0 /\ nueva \notin Range(e.tlb) /\ s = [e EXCEPT !.tlb = Append(@, nueva)]
      \/ \E i \in DOMAIN e.tlb : nueva \notin Range(e.tlb) /\ s = Pone(e, i, nueva)
  <2> DEFINE vacias == {i \in DOMAIN e.tlb : e.tlb[i] = Nada}
             lugares == IF vacias # {} THEN {Min(vacias)} ELSE DOMAIN e.tlb
  <2>1. lugares \subseteq DOMAIN e.tlb
    <3>1. vacias # {} => Min(vacias) \in vacias
      <4>1. vacias \in SUBSET Nat
        BY <1>2
      <4> QED BY <4>1, MinimoDeNaturales
    <3> QED BY <3>1
  <2>2. s \in IF max_entradas_tlb = 0 \/ nueva \in Range(e.tlb) THEN {e}
              ELSE IF vacias = {} /\ Len(e.tlb) < max_entradas_tlb
                   THEN {[e EXCEPT !.tlb = Append(@, nueva)]}
                   ELSE {Pone(e, i, nueva) : i \in lugares}
    BY <1>1 DEF Pone, add_entrada_tlb
  <2> HIDE DEF vacias, lugares
  <2> QED BY <2>1, <2>2
<1> QED BY <1>3, <1>4, <1>5, <1>6

-----------------------------------------------------------------------------
(* Replacement.                                                            *)

\* The tables keep their sizes.
MismosLargos(e, s) == \A r \in Procesos : Len(s.paginas[r]) = Len(e.paginas[r])

\* No page comes into memory, and none in memory changes its frame.
SoloSalen(e, s) ==
    \A q \in Todas(e) : Presente(s, q) => Presente(e, q) /\ LaPagina(s, q) = LaPagina(e, q)

LEMMA MismasPaginas ==
    ASSUME NEW e, NEW s, MismosLargos(e, s)
    PROVE  Todas(s) = Todas(e)
BY DEF MismosLargos, Todas

\* Every page that names the frame loses it, and no other changes.
LEMMA LiberarEs ==
    ASSUME NEW e \in Estados, NEW f, NEW s, s = liberarFrame(e, f)
    PROVE  /\ s \in Estados /\ s.lRU = e.lRU /\ s.tlb = e.tlb
           /\ MismosLargos(e, s) /\ (s.intacta => e.intacta)
           /\ s.swap = e.swap /\ (s.intacta => \A k : k # f => Bytes(s, k) = Bytes(e, k))
           /\ \A q \in Todas(e) :
                 /\ LaPagina(s, q) = IF LaPagina(e, q).frame = f THEN Sacada ELSE LaPagina(e, q)
                 /\ s.intacta /\ LaPagina(e, q).frame = f => f \in Frames
<1>1. \A p \in Procesos :
         /\ e.paginas[p] \in Seq(Paginas) /\ Len(e.paginas[p]) \in Nat
         /\ DOMAIN e.paginas[p] = 1 .. Len(e.paginas[p])
         /\ \A g \in 1 .. Len(e.paginas[p]) : e.paginas[p][g] \in Paginas
  BY TablaDe
<1>2. CASE f \notin Asignados(e)
  <2>1. s = e
    BY <1>2 DEF liberarFrame
  <2>2. \A q \in Todas(e) : LaPagina(e, q).frame # f
    BY <1>1, <1>2 DEF Asignados, Todas, LaPagina
  <2> QED BY <2>1, <2>2 DEF MismosLargos, Bytes
<1>3. CASE f \in Asignados(e)
  <2> DEFINE Pierde(pagina) == IF pagina.frame = f THEN Sacada ELSE pagina
  <2>1. PICK T : T = [p \in Procesos |-> [g \in DOMAIN e.paginas[p] |-> Pierde(e.paginas[p][g])]]
    OBVIOUS
  <2>2. Sacada \in Paginas
    BY ConstantesValidas DEF Sacada, SinMarco, Paginas, TodosLosMarcos
  <2>3. ASSUME NEW p \in Procesos
        PROVE  /\ T[p] \in Seq(Paginas) /\ Len(T[p]) = Len(e.paginas[p])
               /\ \A g \in 1 .. Len(e.paginas[p]) : T[p][g] = Pierde(e.paginas[p][g])
    <3>1. PICK n \in Nat : n = Len(e.paginas[p])
      BY <1>1
    <3>2. T[p] = [g \in 1 .. n |-> Pierde(e.paginas[p][g])]
      BY <1>1, <2>1, <3>1
    <3>3. \A g \in 1 .. n : Pierde(e.paginas[p][g]) \in Paginas
      BY <1>1, <2>2, <3>1
    <3> HIDE DEF Pierde
    <3>4. T[p] \in Seq(Paginas) /\ Len(T[p]) = n
      BY <3>2, <3>3
    <3> QED BY <3>1, <3>2, <3>4
  <2>4. T \in [Procesos -> Seq(Paginas)]
    BY <2>1, <2>3
  <2>5. PICK u : u = [e EXCEPT !.paginas = T]
    OBVIOUS
  <2>6. /\ u \in Estados /\ u.paginas = T /\ u.lRU = e.lRU /\ u.tlb = e.tlb
        /\ u.intacta = e.intacta /\ u.swap = e.swap /\ u.memoria = e.memoria
    BY <2>4, <2>5 DEF Estados
  <2>7. s = Escribe(u, f, Vacio)
    BY <1>3, <2>1, <2>5 DEF liberarFrame
  <2>8. /\ SoloDatos(u, s) /\ s.swap = e.swap /\ (f \notin Frames => ~s.intacta)
        /\ f \in Frames => s.memoria = [u.memoria EXCEPT ![f] = Vacio]
    <3>1. Vacio \in Valores
      BY DEF Valores
    <3>2. /\ SoloDatos(u, s) /\ s.swap = u.swap /\ (f \notin Frames => ~s.intacta)
          /\ f \in Frames => s.memoria = [u.memoria EXCEPT ![f] = Vacio]
      BY <2>6, <2>7, <3>1, EscribeEs
    <3> QED BY <2>6, <3>2
  <2>10. s.intacta => \A k : k # f => Bytes(s, k) = Bytes(e, k)
    <3>1. u.memoria \in [Frames -> Valores]
      BY <2>6 DEF Estados
    <3> QED BY <2>6, <2>8, <3>1 DEF Bytes
  <2>9. ASSUME NEW q \in Todas(e)
        PROVE  LaPagina(s, q) = IF LaPagina(e, q).frame = f THEN Sacada ELSE LaPagina(e, q)
    BY <2>3, <2>6, <2>8, <2>9 DEF SoloDatos, Todas, LaPagina
  <2> QED BY <2>3, <2>6, <2>8, <2>9, <2>10 DEF SoloDatos, MismosLargos
<1> QED BY <1>2, <1>3

LEMMA LiberarSano ==
    ASSUME NEW e, Sano(e), NEW f, NEW s, s = liberarFrame(e, f)
    PROVE  Sano(s) /\ SoloSalen(e, s)
<1>1. e \in Estados
  BY DEF Sano
<1>2. /\ s \in Estados /\ s.lRU = e.lRU /\ s.tlb = e.tlb /\ MismosLargos(e, s)
      /\ \A q \in Todas(e) :
            LaPagina(s, q) = IF LaPagina(e, q).frame = f THEN Sacada ELSE LaPagina(e, q)
  BY <1>1, LiberarEs
<1>3. Todas(s) = Todas(e)
  BY <1>2, MismasPaginas
<1>4. Cortas(s) /\ Ordenado(s) /\ TLBUnica(s)
  BY <1>2, <1>3 DEF Sano, Cortas, MismosLargos, Ordenado, TLBUnica
<1>5. Sacada.frame \notin Frames /\ ~Sacada.bitPresencia
  BY ConstantesValidas DEF Sacada, SinMarco, Frames
<1>6. SinCompartir(s)
  <2> SUFFICES ASSUME NEW q \in Todas(e), NEW r \in Todas(e),
                      LaPagina(s, q).frame = LaPagina(s, r).frame, LaPagina(s, q).frame \in Frames
               PROVE  q = r
    BY <1>3 DEF SinCompartir
  <2>1. LaPagina(s, q) = LaPagina(e, q) /\ LaPagina(s, r) = LaPagina(e, r)
    BY <1>2, <1>5
  <2> QED BY <2>1 DEF Sano, SinCompartir
<1>7. SoloSalen(e, s)
  BY <1>2, <1>5 DEF SoloSalen, LaPagina, Presente
<1> QED BY <1>2, <1>4, <1>6, <1>7 DEF Sano

\* A page that leaves in order leaves nothing behind it.
LEMMA ExpulsaEs ==
    ASSUME NEW e, Bueno(e), NEW q \in Todas(e), NEW pid, Propia => pid = q[1],
           NEW s \in Expulsa(e, q, pid), NEW p \in Procesos
    PROVE  /\ Sigue(e, s, p) /\ SoloSalen(e, s) /\ Conserva(e, s)
           /\ s.intacta => Presente(e, q) /\ ~Presente(s, q)
<1>1. PICK f : f = LaPagina(e, q).frame
  OBVIOUS
<1>2. e \in Estados /\ q[1] \in Procesos /\ q[2] \in Numeros
  BY DEF Bueno, Sano, Todas
<1>3. PICK v \in MandaASwamp(e, q[1], q[2], Bytes(e, f)) :
         LET w == [v EXCEPT !.intacta = @ /\ Presente(e, q) /\ v.swap[q[1]][q[2]] # Nada]
         IN  s = liberarFrame(delete_entrada_tlb(w, pid, q[2], f), f)
  BY <1>1 DEF Expulsa, LaPagina
<1>4. PICK b : b = (v.intacta /\ Presente(e, q) /\ v.swap[q[1]][q[2]] # Nada)
  OBVIOUS
<1>5. b \in BOOLEAN
  BY <1>4
<1>6. PICK w : w = [v EXCEPT !.intacta = b]
  OBVIOUS
<1>7. PICK x : x = delete_entrada_tlb(w, pid, q[2], f)
  OBVIOUS
<1>8. s = liberarFrame(x, f)
  BY <1>3, <1>4, <1>6, <1>7
<1>9. /\ SoloDatos(e, v) /\ v.intacta = e.intacta /\ v.memoria = e.memoria
      /\ \A r \in Procesos, h \in Numeros :
            r # q[1] \/ h # q[2] => v.swap[r][h] = e.swap[r][h]
      /\ v.swap[q[1]][q[2]] # Nada => v.swap[q[1]][q[2]] = Bytes(e, f)
  BY <1>2, SonValores, MandaASwampEs
<1>10. /\ SoloDatos(e, w) /\ MismosDatos(v, w)
       /\ w.intacta => e.intacta /\ Presente(e, q) /\ v.swap[q[1]][q[2]] # Nada
  <2>1. w.intacta = b
    BY <1>6, <1>9 DEF SoloDatos, Estados
  <2>2. w \in Estados
    BY <1>5, <1>6, <1>9 DEF SoloDatos, Estados
  <2>3. w.paginas = v.paginas /\ w.lRU = v.lRU /\ w.tlb = v.tlb /\ MismosDatos(v, w)
    BY <1>6, <1>9 DEF SoloDatos, MismosDatos, Estados
  <2> QED BY <1>4, <1>9, <2>1, <2>2, <2>3 DEF SoloDatos
<1>11. Bueno(w)
  BY <1>10, SoloDatosBueno DEF Mantiene
<1>12. /\ SoloTLB(w, x) /\ TLBUnica(x)
       /\ \A t \in DeLaTLB(x) : t \in DeLaTLB(w) /\ t # Entrada(pid, q[2], f)
  BY <1>7, <1>10, <1>11, BorraEs DEF SoloDatos, Bueno, Sano
<1>13. Sano(x) /\ x.paginas = e.paginas /\ Todas(x) = Todas(e)
  BY <1>10, <1>11, <1>12
     DEF Bueno, Sano, SoloDatos, SoloTLB, Cortas, Ordenado, SinCompartir, Todas, LaPagina
<1>14. Sano(s) /\ SoloSalen(x, s)
  BY <1>8, <1>13, LiberarSano
<1>15. /\ s \in Estados /\ s.tlb = x.tlb /\ MismosLargos(x, s) /\ (s.intacta => x.intacta)
       /\ \A r \in Todas(x) :
             /\ LaPagina(s, r) = IF LaPagina(x, r).frame = f THEN Sacada ELSE LaPagina(x, r)
             /\ s.intacta /\ LaPagina(x, r).frame = f => f \in Frames
       /\ s.swap = x.swap /\ (s.intacta => \A k : k # f => Bytes(s, k) = Bytes(x, k))
  BY <1>8, <1>13, LiberarEs DEF Sano
<1>16. MismosLargos(e, s) /\ SoloSalen(e, s) /\ Todas(s) = Todas(e)
  BY <1>13, <1>14, <1>15, MismasPaginas DEF MismosLargos, SoloSalen, Presente, LaPagina
<1>17. s.intacta => e.intacta /\ Presente(e, q) /\ ~Presente(s, q) /\ f \in Frames
  BY <1>1, <1>10, <1>12, <1>13, <1>15 DEF SoloTLB, LaPagina, Presente, Sacada
<1>18. e.intacta /\ Fija /\ s.intacta => UnaPresente(s)
  BY <1>16 DEF Bueno, UnaPresente, SoloSalen
<1>19. \A t \in DeLaTLB(s) : t \in DeLaTLB(e) /\ t # Entrada(pid, q[2], f)
  BY <1>10, <1>12, <1>15 DEF SoloDatos, DeLaTLB
<1>20. s.intacta /\ Propia => TLBCierta(s)
  <2> SUFFICES ASSUME s.intacta, Propia, NEW t \in DeLaTLB(s), s.paginas[t.pid] # << >>
               PROVE  /\ <<t.pid, t.pagina>> \in Todas(s)
                      /\ s.paginas[t.pid][t.pagina] = Pagina(t.frame)
    BY DEF TLBCierta
  <2>1. TLBCierta(e)
    BY <1>17 DEF Bueno
  <2>2. t \in Entradas
    BY <1>2, <1>19, EntradaEs
  <2>3. e.paginas[t.pid] # << >>
    <3>1. /\ s.paginas[t.pid] \in Seq(Paginas) /\ e.paginas[t.pid] \in Seq(Paginas)
          /\ Len(s.paginas[t.pid]) = Len(e.paginas[t.pid])
      BY <1>2, <1>15, <1>16, <2>2, TablaDe DEF Entradas, MismosLargos
    <3> QED BY <3>1
  <2>4. PICK r : r = <<t.pid, t.pagina>>
    OBVIOUS
  <2>5. r \in Todas(e) /\ LaPagina(e, r) = Pagina(t.frame)
    BY <1>19, <2>1, <2>3, <2>4 DEF TLBCierta, LaPagina
  <2>6. LaPagina(e, r).frame = t.frame
    BY <2>5 DEF Pagina
  <2>7. t.frame # f
    <3> SUFFICES ASSUME t.frame = f PROVE FALSE
      OBVIOUS
    <3>1. r = q
      BY <1>1, <1>17, <2>5, <2>6 DEF Bueno, Sano, SinCompartir
    <3>2. t = Entrada(pid, q[2], f)
      BY <2>2, <2>4, <3>1 DEF Entradas, Entrada
    <3> QED BY <1>19, <3>2
  <2>8. LaPagina(s, r) = LaPagina(e, r)
    BY <1>13, <1>15, <2>5, <2>6, <2>7 DEF LaPagina
  <2> QED BY <1>16, <2>4, <2>5, <2>8 DEF LaPagina
<1>21. Conserva(e, s)
  <2> SUFFICES ASSUME s.intacta, NEW r \in Todas(e)
               PROVE  Cont(s, r) = Cont(e, r)
    BY DEF Conserva
  <2>1. /\ x.memoria = e.memoria /\ s.swap = v.swap /\ LaPagina(x, r) = LaPagina(e, r)
        /\ \A k : k # f => Bytes(s, k) = Bytes(e, k)
    BY <1>9, <1>10, <1>12, <1>13, <1>15 DEF SoloTLB, MismosDatos, LaPagina, Bytes
  <2>2. /\ LaPagina(s, r) = IF LaPagina(e, r).frame = f THEN Sacada ELSE LaPagina(e, r)
        /\ w.intacta
    BY <1>12, <1>13, <1>15, <2>1 DEF SoloTLB
  <2>3. CASE r = q
    <3>1. ~Presente(s, r) /\ Presente(e, r)
      BY <1>17, <2>3
    <3>2. Cont(e, r) = Bytes(e, f) /\ Cont(s, r) = TraeDeSwamp(s, q[1], q[2])
      BY <1>1, <2>3, <3>1 DEF Cont
    <3> QED BY <1>9, <1>10, <2>1, <2>2, <3>2 DEF TraeDeSwamp
  <2>4. CASE r # q
    <3>1. LaPagina(e, r).frame # f
      BY <1>1, <1>17, <2>4 DEF Bueno, Sano, SinCompartir
    <3>2. LaPagina(s, r) = LaPagina(e, r)
      BY <2>2, <3>1
    <3>3. s.swap[r[1]][r[2]] = e.swap[r[1]][r[2]]
      <4>1. /\ r[1] \in Procesos /\ r[2] \in Numeros /\ r = <<r[1], r[2]>>
            /\ q = <<q[1], q[2]>>
        BY DEF Todas
      <4> QED BY <1>9, <2>1, <2>4, <4>1
    <3> QED BY <2>1, <3>1, <3>2, <3>3 DEF Cont, Presente, LaPagina, TraeDeSwamp
  <2> QED BY <2>3, <2>4
<1>22. Cambia(e, s, p)
  BY <1>21, ConservaCambia
<1> QED BY <1>14, <1>16, <1>17, <1>18, <1>19, <1>20, <1>21, <1>22 DEF Bueno, Sigue, MismosLargos

\* A step after another.
LEMMA SigueLuego ==
    ASSUME NEW e, NEW s, NEW u, NEW p, Sigue(e, s, p), Sigue(s, u, p)
    PROVE  Sigue(e, u, p) /\ Todas(s) = Todas(e) /\ Todas(u) = Todas(e)
<1>1. Todas(s) = Todas(e) /\ Todas(u) = Todas(e)
  BY MismasPaginas DEF Sigue, MismosLargos
<1>2. Cambia(e, u, p)
  BY <1>1, CambiaLuego DEF Sigue
<1> QED BY <1>1, <1>2 DEF Sigue

LEMMA SalenLuego ==
    ASSUME NEW e, NEW s, NEW u, MismosLargos(e, s), SoloSalen(e, s), SoloSalen(s, u)
    PROVE  SoloSalen(e, u)
BY MismasPaginas DEF SoloSalen

\* With no page present something is lost, and the tables stay sound.
LEMMA ExpulsaSinVictimaEs ==
    ASSUME NEW e, Bueno(e), NEW p \in Procesos, NEW s \in ExpulsaSinVictima(e, p)
    PROVE  Sigue(e, s, p) /\ SoloSalen(e, s) /\ Conserva(e, s) /\ ~s.intacta
<1>1. PICK x \in {e} \cup {delete_entrada_tlb(EnSwap(e, q[1], q[2], Bytes(e, 0)), p, q[2], 0) :
                              q \in Range(e.lRU)} :
         s = liberarFrame([x EXCEPT !.intacta = FALSE], 0)
  BY DEF ExpulsaSinVictima
<1>2. e \in Estados /\ Range(e.lRU) = Todas(e)
  BY DEF Bueno, Sano, Ordenado
<1>3. Sano(x) /\ x.paginas = e.paginas /\ \A t \in DeLaTLB(x) : t \in DeLaTLB(e)
  <2>1. CASE x = e
    BY <2>1 DEF Bueno
  <2>2. CASE x # e
    <3>1. PICK q \in Todas(e) : x = delete_entrada_tlb(EnSwap(e, q[1], q[2], Bytes(e, 0)), p, q[2], 0)
      BY <1>1, <1>2, <2>2
    <3>2. PICK v : v = EnSwap(e, q[1], q[2], Bytes(e, 0))
      OBVIOUS
    <3>3. SoloDatos(e, v)
      BY <1>2, <3>2, EnSwapEs, SonValores DEF Todas
    <3>4. Bueno(v)
      BY <3>3, SoloDatosBueno DEF Mantiene
    <3>5. SoloTLB(v, x) /\ TLBUnica(x) /\ \A t \in DeLaTLB(x) : t \in DeLaTLB(v)
      BY <3>1, <3>2, <3>4, BorraEs DEF Bueno, Sano
    <3>6. DeLaTLB(v) = DeLaTLB(e)
      BY <3>3 DEF SoloDatos, DeLaTLB
    <3> QED BY <3>3, <3>4, <3>5, <3>6
            DEF Bueno, Sano, SoloDatos, SoloTLB, Cortas, Ordenado, SinCompartir, Todas, LaPagina
  <2> QED BY <2>1, <2>2
<1>4. PICK y : y = [x EXCEPT !.intacta = FALSE]
  OBVIOUS
<1>5. y \in Estados /\ ~y.intacta /\ y.paginas = e.paginas /\ y.lRU = x.lRU /\ y.tlb = x.tlb
  BY <1>3, <1>4 DEF Sano, Estados
<1>6. Sano(y)
  BY <1>3, <1>5 DEF Sano, Cortas, Ordenado, SinCompartir, TLBUnica, Todas, LaPagina
<1>7. s = liberarFrame(y, 0)
  BY <1>1, <1>4
<1>8. Sano(s) /\ SoloSalen(y, s)
  BY <1>6, <1>7, LiberarSano
<1>9. s.tlb = y.tlb /\ MismosLargos(y, s) /\ ~s.intacta
  BY <1>5, <1>7, LiberarEs
<1>10. SoloSalen(e, s) /\ MismosLargos(e, s)
  BY <1>5, <1>8, <1>9 DEF SoloSalen, MismosLargos, Todas, Presente, LaPagina
<1>11. \A t \in DeLaTLB(s) : t \in DeLaTLB(e)
  BY <1>3, <1>5, <1>9 DEF DeLaTLB
<1>12. Cambia(e, s, p) /\ Conserva(e, s)
  BY <1>9, Perdida
<1> QED BY <1>8, <1>9, <1>10, <1>11, <1>12 DEF Bueno, Sigue, MismosLargos

\* A process has no page in memory.
SinPresentes(e, p) == \A q \in Todas(e) : q[1] = p => ~Presente(e, q)

\* Under the fixed assignment a victim of the process leaves it with none.
LEMMA SaleLaUnica ==
    ASSUME NEW e, Bueno(e), e.intacta, Fija, NEW q \in Todas(e), Presente(e, q),
           NEW s, MismosLargos(e, s), SoloSalen(e, s), ~Presente(s, q)
    PROVE  SinPresentes(s, q[1])
<1>1. Todas(s) = Todas(e)
  BY MismasPaginas
<1> QED BY <1>1 DEF Bueno, UnaPresente, SoloSalen, SinPresentes

\* What a replacement made for p does.
Reemplaza(e, s, p) ==
    /\ Sigue(e, s, p) /\ SoloSalen(e, s) /\ Conserva(e, s)
    /\ Fija /\ s.intacta => SinPresentes(s, p)

LEMMA LRUEs ==
    ASSUME NEW e, Bueno(e), ~Reloj, NEW p \in Procesos, NEW s \in seleccionLRU(e, p)
    PROVE  Reemplaza(e, s, p)
<1> DEFINE I == {k \in 1 .. Len(e.lRU) : Presente(e, e.lRU[k]) /\ Suya(e.lRU[k], p)}
<1>1. PICK i : i = IF I # {} THEN Min(I) ELSE 0
  OBVIOUS
<1>2. s \in IF i = 0 THEN ExpulsaSinVictima(e, p) ELSE Expulsa(e, e.lRU[i], p)
  BY <1>1 DEF seleccionLRU, SelectInSeq
<1>3. Len(e.lRU) \in Nat /\ DOMAIN e.lRU = 1 .. Len(e.lRU)
  BY DEF Bueno, Sano, Estados
<1>4. i \in 0 .. Len(e.lRU) /\ (i # 0 => i \in I)
  <2>1. I \in SUBSET (1 .. Len(e.lRU))
    OBVIOUS
  <2> HIDE DEF I
  <2> QED BY <1>1, <1>3, <2>1, PrimeraDe
<1>5. CASE i = 0
  BY <1>2, <1>5, ExpulsaSinVictimaEs DEF Reemplaza
<1>6. CASE i # 0
  <2>1. PICK q : q = e.lRU[i]
    OBVIOUS
  <2>2. q \in Todas(e) /\ Presente(e, q) /\ Suya(q, p)
    BY <1>3, <1>4, <1>6, <2>1 DEF Bueno, Sano, Ordenado, Range
  <2> HIDE DEF I
  <2>3. s \in Expulsa(e, q, p)
    BY <1>2, <1>6, <2>1
  <2>4. /\ Sigue(e, s, p) /\ SoloSalen(e, s) /\ Conserva(e, s)
        /\ s.intacta => Presente(e, q) /\ ~Presente(s, q)
    <3>1. Propia => p = q[1]
      BY <2>2 DEF Propia, Suya, Fija
    <3> QED BY <2>2, <2>3, <3>1, ExpulsaEs
  <2>5. Fija /\ s.intacta => SinPresentes(s, p)
    BY <2>2, <2>4, SaleLaUnica DEF Sigue, MismosLargos, Suya, Fija
  <2> QED BY <2>4, <2>5 DEF Reemplaza
<1> QED BY <1>5, <1>6

LEMMA EnElRelojEs ==
    ASSUME NEW e, Bueno(e), NEW p \in Procesos, NEW q \in EnElReloj(e, p)
    PROVE  q \in Todas(e) /\ (Fija => q[1] = p)
<1>1. Range(e.lRU) = Todas(e) /\ e \in Estados
  BY DEF Bueno, Sano, Ordenado
<1>2. CASE Fija
  BY <1>1, <1>2 DEF EnElReloj, Fija
<1>3. CASE ~Fija
  <2>1. PICK f \in Frames : q \in getMarcoDe(e, f)
    BY <1>3 DEF EnElReloj, Fija
  <2>2. CASE q \in Range(e.lRU)
    BY <1>1, <1>3, <2>2
  <2>3. CASE q \notin Range(e.lRU)
    <3>1. PICK r \in Procesos : e.paginas[r] # << >> /\ q = <<r, Len(e.paginas[r])>>
      BY <2>1, <2>3 DEF getMarcoDe
    <3>2. e.paginas[r] \in Seq(Paginas) /\ Len(e.paginas[r]) \in Nat
      BY <1>1, TablaDe
    <3>3. Len(e.paginas[r]) \in Numeros
      BY <3>1, <3>2, ConstantesValidas DEF Bueno, Sano, Cortas, Numeros
    <3> QED BY <1>3, <3>1, <3>2, <3>3 DEF Todas, Numeros
  <2> QED BY <2>2, <2>3
<1> QED BY <1>2, <1>3

LEMMA RelojEs ==
    ASSUME NEW e, Bueno(e), NEW p \in Procesos, NEW s \in seleccionClockMejorado(e, p)
    PROVE  Reemplaza(e, s, p)
<1> DEFINE Una(v) == UNION {Expulsa(v, q, q[1]) : q \in EnElReloj(v, p)}
<1>1. ASSUME NEW v, Bueno(v), NEW u \in Una(v)
      PROVE  Reemplaza(v, u, p)
  <2>1. PICK q \in EnElReloj(v, p) : u \in Expulsa(v, q, q[1])
    OBVIOUS
  <2>2. q \in Todas(v) /\ (Fija => q[1] = p)
    BY <1>1, EnElRelojEs
  <2>3. /\ Sigue(v, u, p) /\ SoloSalen(v, u) /\ Conserva(v, u)
        /\ u.intacta => Presente(v, q) /\ ~Presente(u, q)
    BY <1>1, <2>1, <2>2, ExpulsaEs
  <2>4. Fija /\ u.intacta => SinPresentes(u, p)
    BY <1>1, <2>2, <2>3, SaleLaUnica DEF Sigue, MismosLargos
  <2> QED BY <2>3, <2>4 DEF Reemplaza
<1>2. CASE s = [e EXCEPT !.viva = FALSE, !.intacta = FALSE]
  <2>1. SoloDatos(e, s) /\ ~s.intacta
    BY <1>2 DEF Bueno, Sano, SoloDatos, Estados
  <2>2. Cambia(e, s, p) /\ Conserva(e, s)
    BY <2>1, Perdida
  <2>3. Sigue(e, s, p)
    BY <2>1, <2>2, SoloDatosBueno
  <2> QED BY <2>1, <2>2, <2>3 DEF Reemplaza, SoloDatos, SoloSalen, Presente, LaPagina
<1>3. CASE s \in Una(e)
  BY <1>1, <1>3
<1>4. ASSUME NEW v \in Una(e), s \in Una(v)
      PROVE  Reemplaza(e, s, p)
  <2> HIDE DEF Una
  <2>1. Reemplaza(e, v, p) /\ Bueno(v)
    BY <1>1 DEF Reemplaza, Sigue
  <2>2. Reemplaza(v, s, p)
    BY <1>1, <1>4, <2>1
  <2>3. Sigue(e, s, p)
    BY <2>1, <2>2, SigueLuego DEF Reemplaza
  <2>4. SoloSalen(e, s)
    BY <2>1, <2>2, SalenLuego DEF Reemplaza, Sigue, MismosLargos
  <2>5. Conserva(e, s)
    <3>1. Conserva(e, v) /\ Conserva(v, s) /\ (s.intacta => v.intacta) /\ Todas(v) = Todas(e)
      BY <2>1, <2>2, SigueLuego DEF Reemplaza, Sigue
    <3> QED BY <3>1, ConservaLuego
  <2> QED BY <2>2, <2>3, <2>4, <2>5 DEF Reemplaza
<1>5. \/ s = [e EXCEPT !.viva = FALSE, !.intacta = FALSE]
      \/ s \in Una(e)
      \/ \E v \in Una(e) : s \in Una(v)
  BY DEF seleccionClockMejorado, Luego
<1> QED BY <1>2, <1>3, <1>4, <1>5

LEMMA UtilizarEs ==
    ASSUME NEW e, Bueno(e), NEW p \in Procesos, NEW s \in utilizarAlgritmoDeAsignacion(e, p)
    PROVE  Reemplaza(e, s, p)
BY LRUEs, RelojEs, ConstantesValidas DEF utilizarAlgritmoDeAsignacion, Reloj

-----------------------------------------------------------------------------
(* Frames and pages.                                                       *)

\* A free frame is one that no page names.
LEMMA MarcoLibre ==
    ASSUME NEW e \in Estados, NEW p, NEW f, f = getNewEmptyFrame(e, p)
    PROVE  /\ f \in TodosLosMarcos
           /\ f \in Frames => \A q \in Todas(e) : LaPagina(e, q).frame # f
<1> DEFINE libres == Frames \ Asignados(e)
<1>1. f = IF Completo(e, p) \/ libres = {} THEN -1 ELSE Min(libres)
  BY DEF getNewEmptyFrame
<1>2. CantidadFrames \in Nat
  BY ConstantesValidas
<1>3. libres # {} => Min(libres) \in libres
  <2>1. libres \in SUBSET Nat
    BY <1>2 DEF Frames
  <2> QED BY <2>1, MinimoDeNaturales
<1>4. f = -1 \/ f \in libres
  BY <1>1, <1>3
<1>5. f \in TodosLosMarcos /\ -1 \notin Frames
  BY <1>2, <1>4 DEF TodosLosMarcos, Frames
<1>6. \A q \in Todas(e) : LaPagina(e, q).frame \in Asignados(e)
  BY TablaDe DEF Todas, LaPagina, Asignados
<1> QED BY <1>4, <1>5, <1>6

\* So is the first frame of a process, when it is a frame at all.
LEMMA MarcoDelPrimero ==
    ASSUME NEW e \in Estados, NEW f, f = getframeNoAsignadoEnMemoria(e)
    PROVE  /\ f \in TodosLosMarcos
           /\ f \in Frames => \A q \in Todas(e) : LaPagina(e, q).frame # f
<1> DEFINE S == 0 .. CantidadFrames + 1 \ (Asignados(e) \cap 0 .. CantidadFrames)
<1>1. CantidadFrames \in Nat
  BY ConstantesValidas
<1>2. CantidadFrames + 1 \in S /\ S \in SUBSET Nat
  BY <1>1
<1>3. f \in S
  <2>1. f = Min(S)
    BY DEF getframeNoAsignadoEnMemoria
  <2> HIDE DEF S
  <2> QED BY <1>2, <2>1, MinimoDeNaturales
<1>4. \A q \in Todas(e) : LaPagina(e, q).frame \in Asignados(e)
  BY TablaDe DEF Todas, LaPagina, Asignados
<1> QED BY <1>1, <1>3, <1>4 DEF TodosLosMarcos, Frames

\* The record of a page changes.
LEMMA ConPaginaEs ==
    ASSUME NEW e \in Estados, NEW p \in Procesos, NEW g, <<p, g>> \in Todas(e),
           NEW x \in Paginas, NEW s, s = ConPagina(e, p, g, x)
    PROVE  /\ s \in Estados /\ MismosLargos(e, s)
           /\ s.lRU = e.lRU /\ s.tlb = e.tlb /\ s.intacta = e.intacta /\ MismosDatos(e, s)
           /\ \A q \in Todas(e) : LaPagina(s, q) = IF q = <<p, g>> THEN x ELSE LaPagina(e, q)
<1>1. /\ e.paginas[p] \in Seq(Paginas) /\ Len(e.paginas[p]) \in Nat
      /\ g \in 1 .. Len(e.paginas[p])
  BY TablaDe DEF Todas
<1>2. PICK t : t = ReplaceAt(e.paginas[p], g, x)
  OBVIOUS
<1>3. /\ t \in Seq(Paginas) /\ Len(t) = Len(e.paginas[p])
      /\ \A h \in 1 .. Len(e.paginas[p]) : t[h] = IF h = g THEN x ELSE e.paginas[p][h]
  BY <1>1, <1>2 DEF ReplaceAt
<1>4. s = ConTabla(e, p, t)
  BY <1>2 DEF ConPagina
<1>5. /\ s \in Estados /\ s.paginas = [e.paginas EXCEPT ![p] = t]
      /\ s.lRU = e.lRU /\ s.tlb = e.tlb /\ s.intacta = e.intacta /\ MismosDatos(e, s)
  BY <1>3, <1>4, ConTablaEs
<1>6. e.paginas \in [Procesos -> Seq(Paginas)]
  BY DEF Estados
<1>7. s.paginas[p] = t /\ \A r \in Procesos \ {p} : s.paginas[r] = e.paginas[r]
  BY <1>5, <1>6
<1>8. MismosLargos(e, s)
  BY <1>3, <1>7 DEF MismosLargos
<1>9. ASSUME NEW q \in Todas(e)
      PROVE  LaPagina(s, q) = IF q = <<p, g>> THEN x ELSE LaPagina(e, q)
  <2>1. q = <<q[1], q[2]>> /\ q[1] \in Procesos /\ q[2] \in 1 .. Len(e.paginas[q[1]])
    BY DEF Todas
  <2>2. CASE q[1] = p
    BY <1>3, <1>7, <2>1, <2>2 DEF LaPagina
  <2>3. CASE q[1] # p
    BY <1>7, <2>1, <2>3 DEF LaPagina
  <2> QED BY <2>2, <2>3
<1> QED BY <1>5, <1>8, <1>9

\* The pages are used in another order.
LEMMA OrdenBueno ==
    ASSUME NEW e, Bueno(e), NEW o \in Seq(Procesos \X Numeros), IsInjective(o),
           Range(o) = Todas(e), NEW s, s = ConLRU(e, o), NEW p
    PROVE  /\ Sigue(e, s, p) /\ Conserva(e, s)
           /\ s.paginas = e.paginas /\ s.tlb = e.tlb /\ s.intacta = e.intacta
<1>1. /\ s \in Estados /\ s.lRU = o /\ s.paginas = e.paginas /\ s.tlb = e.tlb
      /\ s.intacta = e.intacta /\ MismosDatos(e, s)
  BY ConLRUEs DEF Bueno, Sano
<1>2. Sano(s)
  BY <1>1 DEF Bueno, Sano, Cortas, Ordenado, SinCompartir, TLBUnica, Todas, LaPagina
<1>3. (UnaPresente(e) => UnaPresente(s)) /\ (TLBCierta(e) => TLBCierta(s))
  BY <1>1 DEF UnaPresente, TLBCierta, Todas, Presente, DeLaTLB
<1>4. Conserva(e, s) /\ Cambia(e, s, p)
  BY <1>1, NadaCambia, ConservaCambia
<1> QED BY <1>1, <1>2, <1>3, <1>4 DEF Bueno, Sigue, DeLaTLB

LEMMA UsaEs ==
    ASSUME NEW e, Bueno(e), NEW p, NEW g, <<p, g>> \in Todas(e), NEW s, s = Usa(e, p, g)
    PROVE  /\ Sigue(e, s, p) /\ Conserva(e, s)
           /\ s.paginas = e.paginas /\ s.tlb = e.tlb /\ s.intacta = e.intacta
<1>1. PICK S, q : S = Procesos \X Numeros /\ q = <<p, g>>
  OBVIOUS
<1>2. /\ e.lRU \in Seq(S) /\ IsInjective(e.lRU) /\ Range(e.lRU) = Todas(e)
      /\ q \in S /\ q \in Range(e.lRU)
  BY <1>1 DEF Bueno, Sano, Ordenado, Estados, Todas
<1>3. PICK r : r = RemoveFirst(e.lRU, q)
  OBVIOUS
<1>4. r \in Seq(S) /\ IsInjective(r) /\ Range(r) = Todas(e) \ {q}
  BY ONLY <1>2, <1>3, QuitaInyectiva
<1>5. PICK o : o = Append(r, q)
  OBVIOUS
<1>6. o \in Seq(S) /\ Range(o) = Range(r) \cup {q}
  BY ONLY <1>2, <1>4, <1>5, AppendEs
<1>7. IsInjective(o)
  BY ONLY <1>2, <1>4, <1>5, AgregaInyectiva
<1>8. s = ConLRU(e, o)
  BY <1>1, <1>3, <1>5 DEF Usa
<1>9. o \in Seq(Procesos \X Numeros) /\ Range(o) = Todas(e)
  BY <1>1, <1>2, <1>4, <1>6
<1> QED BY <1>7, <1>8, <1>9, OrdenBueno

\* A page that is not in memory gets a free frame, when its process may have it.
LEMMA TraePaginaEs ==
    ASSUME NEW e, Bueno(e), NEW p \in Procesos, NEW g, <<p, g>> \in Todas(e),
           ~Presente(e, <<p, g>>), Fija /\ e.intacta => SinPresentes(e, p),
           NEW f \in TodosLosMarcos, f \in Frames => \A q \in Todas(e) : LaPagina(e, q).frame # f,
           NEW s, s = Escribe(ConPagina(e, p, g, Pagina(f)), f, TraeDeSwamp(e, p, g))
    PROVE  /\ Sigue(e, s, p) /\ Conserva(e, s) /\ Presente(s, <<p, g>>)
           /\ \A q \in Todas(e) : q # <<p, g>> => LaPagina(s, q) = LaPagina(e, q)
<1>1. e \in Estados
  BY DEF Bueno, Sano
<1>0. PICK x \in Valores : x = TraeDeSwamp(e, p, g)
  <2>1. g \in Numeros
    BY DEF Todas
  <2> QED BY <1>1, <2>1, SonValores
<1>2. PICK v : v = ConPagina(e, p, g, Pagina(f))
  OBVIOUS
<1>3. Pagina(f) \in Paginas /\ Pagina(f).frame = f /\ Pagina(f).bitPresencia
  BY DEF Pagina, Paginas
<1>4. /\ v \in Estados /\ MismosLargos(e, v)
      /\ v.lRU = e.lRU /\ v.tlb = e.tlb /\ v.intacta = e.intacta /\ MismosDatos(e, v)
      /\ \A q \in Todas(e) : LaPagina(v, q) = IF q = <<p, g>> THEN Pagina(f) ELSE LaPagina(e, q)
  BY <1>1, <1>2, <1>3, ConPaginaEs
<1>5. Todas(v) = Todas(e)
  BY <1>4, MismasPaginas
<1>6. Presente(v, <<p, g>>)
  <2>1. LaPagina(v, <<p, g>>) = Pagina(f)
    BY <1>4
  <2> QED BY <1>3, <2>1 DEF LaPagina, Presente
<1>7. \A q \in Todas(e) : q # <<p, g>> => (Presente(v, q) <=> Presente(e, q))
  BY <1>4 DEF LaPagina, Presente
<1>8. SinCompartir(v)
  <2> SUFFICES ASSUME NEW q \in Todas(e), NEW r \in Todas(e), q # r,
                      LaPagina(v, q).frame = LaPagina(v, r).frame, LaPagina(v, q).frame \in Frames
               PROVE  FALSE
    BY <1>5 DEF SinCompartir
  <2>1. CASE q # <<p, g>> /\ r # <<p, g>>
    BY <1>4, <2>1 DEF Bueno, Sano, SinCompartir
  <2>2. CASE q = <<p, g>> \/ r = <<p, g>>
    BY <1>3, <1>4, <2>2
  <2> QED BY <2>1, <2>2
<1>9. Sano(v)
  BY <1>4, <1>5, <1>8 DEF Bueno, Sano, Cortas, MismosLargos, Ordenado, TLBUnica
<1>10. v.intacta /\ Fija => UnaPresente(v)
  <2> SUFFICES ASSUME e.intacta, Fija, NEW q \in Todas(e), NEW r \in Todas(e),
                      q[1] = r[1], Presente(v, q), Presente(v, r)
               PROVE  q = r
    BY <1>4, <1>5 DEF UnaPresente
  <2>1. CASE q # <<p, g>> /\ r # <<p, g>>
    BY <1>7, <2>1 DEF Bueno, UnaPresente
  <2>2. CASE q = <<p, g>> \/ r = <<p, g>>
    BY <1>7, <2>2 DEF SinPresentes
  <2> QED BY <2>1, <2>2
<1>11. v.intacta /\ Propia => TLBCierta(v)
  <2> SUFFICES ASSUME e.intacta, Propia, NEW t \in DeLaTLB(v), v.paginas[t.pid] # << >>
               PROVE  /\ <<t.pid, t.pagina>> \in Todas(v)
                      /\ v.paginas[t.pid][t.pagina] = Pagina(t.frame)
    BY <1>4 DEF TLBCierta
  <2>1. TLBCierta(e) /\ t \in DeLaTLB(e) /\ t.pid \in Procesos
    BY <1>4, EntradaEs DEF Bueno, DeLaTLB, Entradas
  <2>2. e.paginas[t.pid] # << >>
    <3>1. /\ v.paginas[t.pid] \in Seq(Paginas) /\ e.paginas[t.pid] \in Seq(Paginas)
          /\ Len(v.paginas[t.pid]) = Len(e.paginas[t.pid])
      BY <1>1, <1>4, <2>1, TablaDe DEF MismosLargos
    <3> QED BY <3>1
  <2>3. PICK r : r = <<t.pid, t.pagina>>
    OBVIOUS
  <2>4. r \in Todas(e) /\ LaPagina(e, r) = Pagina(t.frame)
    BY <2>1, <2>2, <2>3 DEF TLBCierta, LaPagina
  <2>5. r # <<p, g>>
    BY <2>4 DEF LaPagina, Presente, Pagina
  <2>6. LaPagina(v, r) = Pagina(t.frame)
    BY <1>4, <2>4, <2>5
  <2> QED BY <1>5, <2>3, <2>4, <2>6 DEF LaPagina
<1>12. Bueno(v)
  BY <1>4, <1>9, <1>10, <1>11 DEF Bueno
<1>13. SoloDatos(v, s) /\ s = Escribe(v, f, x) /\ (s.intacta => f \in Frames)
  BY <1>0, <1>2, <1>4, EscribeEs
<1>14. Mantiene(v, s, p) /\ Todas(s) = Todas(e)
  BY <1>5, <1>12, <1>13, SoloDatosBueno DEF SoloDatos, Todas
<1>15. Conserva(e, s)
  <2> SUFFICES ASSUME s.intacta, NEW q \in Todas(e)
               PROVE  Cont(s, q) = Cont(e, q)
    BY DEF Conserva
  <2>1. f \in Frames
    BY <1>13
  <2>2. Cont(s, q) = IF Presente(v, q) /\ LaPagina(v, q).frame = f THEN x ELSE Cont(v, q)
    BY <1>4, <1>5, <1>13, EscribeCont
  <2>3. CASE q = <<p, g>>
    <3>1. LaPagina(v, q).frame = f /\ Presente(v, q) /\ ~Presente(e, q)
      BY <1>3, <1>4, <1>6, <2>3
    <3>2. Cont(e, q) = x
      BY <1>0, <2>3, <3>1 DEF Cont
    <3> QED BY <2>2, <3>1, <3>2
  <2>4. CASE q # <<p, g>>
    <3>1. LaPagina(v, q) = LaPagina(e, q) /\ LaPagina(e, q).frame # f
      BY <1>4, <2>1, <2>4
    <3>2. Cont(v, q) = Cont(e, q)
      BY <1>4, <3>1 DEF Cont, Presente, LaPagina, Bytes, TraeDeSwamp, MismosDatos
    <3> QED BY <2>2, <3>1, <3>2
  <2> QED BY <2>3, <2>4
<1>16. Cambia(e, s, p)
  BY <1>15, ConservaCambia
<1>17. Sigue(e, s, p)
  BY <1>4, <1>12, <1>13, <1>14, <1>16 DEF Mantiene, Sigue, SoloDatos, MismosLargos, DeLaTLB
<1> QED BY <1>4, <1>6, <1>13, <1>15, <1>17 DEF SoloDatos, Presente, LaPagina

\* A page comes into memory; the others keep their frames or leave.
Trae(e, s, p, g) ==
    /\ Sigue(e, s, p) /\ Conserva(e, s) /\ Presente(s, <<p, g>>)
    /\ \A q \in Todas(e) :
          q # <<p, g>> /\ Presente(s, q) => Presente(e, q) /\ LaPagina(s, q) = LaPagina(e, q)

LEMMA FaltaDePaginaEs ==
    ASSUME NEW e, Bueno(e), NEW p \in Procesos, NEW g, <<p, g>> \in Todas(e),
           ~Presente(e, <<p, g>>), NEW s \in FaltaDePagina(e, p, g)
    PROVE  Trae(e, s, p, g)
<1>1. PICK v \in utilizarAlgritmoDeAsignacion(e, p) :
         LET f == getNewEmptyFrame(v, p)
         IN  s = Escribe(ConPagina(v, p, g, Pagina(f)), f, TraeDeSwamp(v, p, g))
  BY DEF FaltaDePagina
<1>2. Reemplaza(e, v, p)
  BY UtilizarEs
<1>3. /\ Sigue(e, v, p) /\ SoloSalen(e, v) /\ Conserva(e, v)
      /\ Fija /\ v.intacta => SinPresentes(v, p)
  BY <1>2 DEF Reemplaza
<1>4. Bueno(v) /\ v \in Estados /\ Todas(v) = Todas(e)
  BY <1>3, MismasPaginas DEF Sigue, Bueno, Sano, MismosLargos
<1>5. PICK f : f = getNewEmptyFrame(v, p)
  OBVIOUS
<1>6. f \in TodosLosMarcos /\ (f \in Frames => \A q \in Todas(v) : LaPagina(v, q).frame # f)
  BY <1>4, <1>5, MarcoLibre
<1>7. ~Presente(v, <<p, g>>)
  BY <1>3 DEF SoloSalen
<1>8. /\ Sigue(v, s, p) /\ Conserva(v, s) /\ Presente(s, <<p, g>>)
      /\ \A q \in Todas(v) : q # <<p, g>> => LaPagina(s, q) = LaPagina(v, q)
  BY <1>1, <1>3, <1>4, <1>5, <1>6, <1>7, TraePaginaEs
<1>9. Sigue(e, s, p) /\ (s.intacta => v.intacta)
  BY <1>3, <1>8, SigueLuego DEF Sigue
<1>10. Conserva(e, s)
  BY <1>3, <1>4, <1>8, <1>9, ConservaLuego
<1>11. ASSUME NEW q \in Todas(e), q # <<p, g>>, Presente(s, q)
       PROVE  Presente(e, q) /\ LaPagina(s, q) = LaPagina(e, q)
  <2>1. LaPagina(s, q) = LaPagina(v, q)
    BY <1>4, <1>8, <1>11
  <2>2. Presente(v, q)
    BY <1>11, <2>1 DEF Presente, LaPagina
  <2> QED BY <1>3, <2>1, <2>2 DEF SoloSalen
<1> QED BY <1>8, <1>9, <1>10, <1>11 DEF Trae

\* A page in memory gets its entry in the TLB.
LEMMA AgregaBueno ==
    ASSUME NEW e, Bueno(e), NEW p \in Procesos, NEW g, <<p, g>> \in Todas(e),
           Presente(e, <<p, g>>), NEW f, f = e.paginas[p][g].frame,
           NEW s \in add_entrada_tlb(e, p, g, f)
    PROVE  Sigue(e, s, p) /\ Conserva(e, s) /\ s.paginas = e.paginas
<1>1. e \in Estados /\ g \in Numeros /\ e.paginas[p][g] \in Paginas
  BY TablaDe DEF Bueno, Sano, Todas
<1>2. f \in TodosLosMarcos /\ e.paginas[p][g] = Pagina(f)
  BY <1>1 DEF Paginas, Pagina, Presente
<1>3. /\ SoloTLB(e, s) /\ TLBUnica(s)
      /\ \A t \in DeLaTLB(s) : t \in DeLaTLB(e) \/ t = Entrada(p, g, f)
  BY <1>1, <1>2, AgregaEs DEF Bueno, Sano
<1>4. Sano(s) /\ Todas(s) = Todas(e)
  BY <1>3 DEF Bueno, Sano, SoloTLB, Cortas, Ordenado, SinCompartir, Todas, LaPagina
<1>5. UnaPresente(e) => UnaPresente(s)
  BY <1>3 DEF SoloTLB, UnaPresente, Todas, Presente
<1>6. TLBCierta(e) => TLBCierta(s)
  <2> SUFFICES ASSUME TLBCierta(e), NEW t \in DeLaTLB(s), s.paginas[t.pid] # << >>
               PROVE  <<t.pid, t.pagina>> \in Todas(s) /\ s.paginas[t.pid][t.pagina] = Pagina(t.frame)
    BY DEF TLBCierta
  <2>1. CASE t \in DeLaTLB(e)
    BY <1>3, <1>4, <2>1 DEF TLBCierta, SoloTLB
  <2>2. CASE t = Entrada(p, g, f)
    BY <1>2, <1>3, <1>4, <2>2 DEF SoloTLB, Entrada
  <2> QED BY <1>3, <2>1, <2>2
<1>7. \A t \in DeLaTLB(s) : t \in DeLaTLB(e) \/ t.pid = p
  BY <1>3 DEF Entrada
<1>8. Conserva(e, s) /\ Cambia(e, s, p)
  BY <1>3, NadaCambia, ConservaCambia DEF SoloTLB
<1> QED BY <1>3, <1>4, <1>5, <1>6, <1>7, <1>8 DEF Bueno, Sigue, SoloTLB

\* A reliable TLB has the frame of each of its pages.
LEMMA EntradaCierta ==
    ASSUME NEW e, Bueno(e), e.intacta, Fiel, NEW q \in Todas(e), NEW i \in DOMAIN e.tlb,
           e.tlb[i] # Nada, e.tlb[i].pid = q[1], e.tlb[i].pagina = q[2]
    PROVE  e.tlb[i].frame = LaPagina(e, q).frame
<1>1. Propia
  BY DEF Fiel, Bueno, Sano, TLBUnica
<1>2. TLBCierta(e) /\ e.tlb[i] \in DeLaTLB(e)
  BY <1>1 DEF Bueno, DeLaTLB, Range
<1>3. e.paginas[q[1]] # << >>
  <2>1. PICK t : t = e.paginas[q[1]] /\ q[2] \in 1 .. Len(t)
    BY DEF Todas
  <2>2. t # << >>
    BY <2>1
  <2> QED BY <2>1, <2>2
<1>4. e.paginas[q[1]][q[2]] = Pagina(e.tlb[i].frame)
  BY <1>2, <1>3 DEF TLBCierta
<1> QED BY <1>4 DEF LaPagina, Pagina

\* Whatever it takes to find the frame of a page, the tables stay sound, the pages keep
\* what they hold, and the frame is that of the page.
LEMMA GetFrameEs ==
    ASSUME NEW e, Bueno(e), NEW p \in Procesos, NEW g, <<p, g>> \in Todas(e),
           NEW r \in getFrameDeUn(e, p, g)
    PROVE  /\ Trae(e, r.e, p, g)
           /\ Fiel /\ r.e.intacta => r.frame = LaPagina(r.e, <<p, g>>).frame
<1> DEFINE presente == e.paginas[p][g].bitPresencia
           en_memoria == IF presente THEN {e} ELSE FaltaDePagina(e, p, g)
           i == fetch_entrada_tlb(e, p, g)
<1>0. presente <=> Presente(e, <<p, g>>)
  BY DEF Presente
<1>1. \/ presente /\ i # 0 /\ r = [e |-> Usa(e, p, g), frame |-> e.tlb[i].frame]
      \/ \E t \in en_memoria :
            \E s \in add_entrada_tlb(Usa(t, p, g), p, g, t.paginas[p][g].frame) :
               r = [e |-> s, frame |-> s.paginas[p][g].frame]
  BY DEF getFrameDeUn, Luego
<1> HIDE DEF i, presente
<1>2. CASE presente /\ i # 0 /\ r = [e |-> Usa(e, p, g), frame |-> e.tlb[i].frame]
  <2>1. PICK s : s = Usa(e, p, g) /\ r.e = s /\ r.frame = e.tlb[i].frame
    BY <1>2
  <2>2. /\ Sigue(e, s, p) /\ Conserva(e, s) /\ s.paginas = e.paginas
        /\ s.intacta = e.intacta
    BY <2>1, UsaEs
  <2>3. Trae(e, s, p, g)
    BY <1>0, <1>2, <2>2 DEF Trae, Presente, LaPagina
  <2>4. i \in DOMAIN e.tlb /\ e.tlb[i] # Nada /\ e.tlb[i].pid = p /\ e.tlb[i].pagina = g
    <3> DEFINE I == {k \in 1 .. Len(e.tlb) :
                        e.tlb[k] # Nada /\ e.tlb[k].pid = p /\ e.tlb[k].pagina = g}
    <3>1. i = IF I # {} THEN Min(I) ELSE 0
      BY DEF i, fetch_entrada_tlb, SelectInSeq
    <3>2. Len(e.tlb) \in Nat /\ DOMAIN e.tlb = 1 .. Len(e.tlb)
      BY DEF Bueno, Sano, Estados
    <3>3. I \in SUBSET (1 .. Len(e.tlb))
      OBVIOUS
    <3>4. i # 0 => i \in I
      <4> HIDE DEF I
      <4> QED BY <3>1, <3>2, <3>3, PrimeraDe
    <3> QED BY <1>2, <3>2, <3>4
  <2>5. Fiel /\ s.intacta => r.frame = LaPagina(s, <<p, g>>).frame
    <3>1. PICK q : q = <<p, g>>
      OBVIOUS
    <3>2. q[1] = p /\ q[2] = g /\ q \in Todas(e)
      BY <3>1
    <3>3. Fiel /\ s.intacta => e.tlb[i].frame = LaPagina(e, q).frame
      BY <2>2, <2>4, <3>2, EntradaCierta
    <3> QED BY <2>1, <2>2, <3>1, <3>3 DEF LaPagina
  <2> QED BY <2>1, <2>3, <2>5
<1>3. ASSUME NEW t \in en_memoria,
             NEW s \in add_entrada_tlb(Usa(t, p, g), p, g, t.paginas[p][g].frame)
      PROVE  Trae(e, s, p, g)
  <2>1. Trae(e, t, p, g)
    <3>1. CASE presente
      <4>1. t = e /\ Presente(e, <<p, g>>)
        BY <1>0, <3>1
      <4> QED BY <4>1, SigueIgual DEF Trae
    <3>2. CASE ~presente
      <4>1. t \in FaltaDePagina(e, p, g) /\ ~Presente(e, <<p, g>>)
        BY <1>0, <3>2
      <4> QED BY <4>1, FaltaDePaginaEs
    <3> QED BY <3>1, <3>2
  <2>2. Bueno(t) /\ <<p, g>> \in Todas(t) /\ Todas(t) = Todas(e)
    BY <2>1, MismasPaginas DEF Trae, Sigue, MismosLargos
  <2>3. PICK u : u = Usa(t, p, g)
    OBVIOUS
  <2>4. Sigue(t, u, p) /\ Conserva(t, u) /\ u.paginas = t.paginas
    BY <2>2, <2>3, UsaEs
  <2>5. Bueno(u) /\ <<p, g>> \in Todas(u) /\ Presente(u, <<p, g>>) /\ Todas(u) = Todas(e)
    BY <2>1, <2>2, <2>4 DEF Trae, Sigue, Todas, Presente
  <2>6. PICK f : f = u.paginas[p][g].frame
    OBVIOUS
  <2>7. s \in add_entrada_tlb(u, p, g, f)
    BY <2>3, <2>4, <2>6
  <2>8. Sigue(u, s, p) /\ Conserva(u, s) /\ s.paginas = u.paginas
    BY <2>5, <2>6, <2>7, AgregaBueno
  <2>9. Sigue(e, u, p) /\ Sigue(e, s, p)
    <3>1. Sigue(e, u, p)
      BY <2>1, <2>4, SigueLuego DEF Trae
    <3> QED BY <2>8, <3>1, SigueLuego
  <2>10. Conserva(e, s)
    <3>1. Conserva(e, u)
      BY <2>1, <2>2, <2>4, ConservaLuego DEF Trae, Sigue
    <3> QED BY <2>5, <2>8, <3>1, ConservaLuego DEF Sigue
  <2> QED BY <2>1, <2>4, <2>8, <2>9, <2>10 DEF Trae, Presente, LaPagina
<1>4. ASSUME NEW t \in en_memoria,
             NEW s \in add_entrada_tlb(Usa(t, p, g), p, g, t.paginas[p][g].frame),
             r = [e |-> s, frame |-> s.paginas[p][g].frame]
      PROVE  /\ Trae(e, r.e, p, g)
             /\ Fiel /\ r.e.intacta => r.frame = LaPagina(r.e, <<p, g>>).frame
  BY <1>3, <1>4 DEF LaPagina
<1> HIDE DEF en_memoria
<1> QED BY <1>1, <1>2, <1>4

LEMMA EditaEs ==
    ASSUME NEW e, Bueno(e), NEW p \in Procesos, NEW g, <<p, g>> \in Todas(e),
           NEW x \in Contenidos, NEW s \in EditaPagina(e, p, g, x)
    PROVE  Sigue(e, s, p)
<1>1. PICK r \in getFrameDeUn(e, p, g) :
         LET escrita == Escribe(r.e, r.frame, x)
         IN  s \in MandaASwamp(escrita, p, g, Bytes(escrita, r.frame))
  BY DEF EditaPagina
<1>2. /\ Sigue(e, r.e, p) /\ Presente(r.e, <<p, g>>)
      /\ Fiel /\ r.e.intacta => r.frame = LaPagina(r.e, <<p, g>>).frame
  BY GetFrameEs DEF Trae
<1>3. PICK v : v = Escribe(r.e, r.frame, x)
  OBVIOUS
<1>4. Bueno(r.e) /\ r.e \in Estados /\ x \in Valores /\ <<p, g>> \in Todas(r.e)
  BY <1>2, MismasPaginas DEF Sigue, Bueno, Sano, Valores, MismosLargos
<1>5. SoloDatos(r.e, v) /\ (v.intacta => r.frame \in Frames)
  BY <1>3, <1>4, EscribeEs
<1>6. Sigue(r.e, v, p)
  <2> SUFFICES ASSUME Fiel, v.intacta, NEW q \in Todas(r.e), LaPagina(r.e, q).frame = r.frame
               PROVE  q[1] = p
    BY <1>3, <1>4, EscribeCambia
  <2>1. q = <<p, g>>
    BY <1>2, <1>4, <1>5 DEF SoloDatos, Bueno, Sano, SinCompartir
  <2> QED BY <2>1
<1>7. /\ Bueno(v) /\ <<p, g>> \in Todas(v) /\ Presente(v, <<p, g>>)
      /\ Bytes(v, r.frame) \in Valores
  BY <1>2, <1>4, <1>5, <1>6, SonValores DEF Sigue, SoloDatos, Todas, Presente
<1>8. Sigue(v, s, p)
  BY <1>1, <1>3, <1>7, MandaCambia
<1>9. Sigue(e, v, p)
  BY <1>2, <1>6, SigueLuego
<1> QED BY <1>8, <1>9, SigueLuego

-----------------------------------------------------------------------------
(* Pages that come and go.                                                 *)

\* As Sigue, but the table of p may change its size.
Avanza(e, s, p) == Mantiene(e, s, p) /\ Cambia(e, s, p)

LEMMA MasLarga ==
    ASSUME NEW e \in Estados, NEW s \in Estados, NEW p \in Procesos,
           \A r \in Procesos \ {p} : Len(s.paginas[r]) = Len(e.paginas[r]),
           Len(e.paginas[p]) <= Len(s.paginas[p])
    PROVE  Todas(e) \subseteq Todas(s)
<1>1. Len(e.paginas[p]) \in Nat /\ Len(s.paginas[p]) \in Nat
  BY TablaDe
<1> SUFFICES ASSUME NEW q \in Todas(e) PROVE q \in Todas(s)
  OBVIOUS
<1>2. CASE q[1] = p
  BY <1>1, <1>2 DEF Todas, Numeros
<1>3. CASE q[1] # p
  BY <1>3 DEF Todas
<1> QED BY <1>2, <1>3

LEMMA AvanzaLuego ==
    ASSUME NEW e, NEW s, NEW u, NEW p \in Procesos, e \in Estados,
           Avanza(e, s, p), Avanza(s, u, p),
           Len(e.paginas[p]) <= Len(s.paginas[p]) \/ Len(u.paginas[p]) <= Len(s.paginas[p])
    PROVE  /\ Avanza(e, u, p)
           /\ Todas(e) \subseteq Todas(s) \/ Todas(u) \subseteq Todas(s)
<1>1. s \in Estados /\ u \in Estados
  BY DEF Avanza, Mantiene, Bueno, Sano
<1>2. Todas(e) \subseteq Todas(s) \/ Todas(u) \subseteq Todas(s)
  BY <1>1, MasLarga DEF Avanza, Mantiene
<1>3. Cambia(e, u, p)
  BY <1>2, CambiaLuego DEF Avanza, Mantiene
<1> QED BY <1>2, <1>3 DEF Avanza, Mantiene

LEMMA SigueAvanza ==
    ASSUME NEW e, NEW s, NEW p, Sigue(e, s, p)
    PROVE  Avanza(e, s, p)
BY DEF Avanza, Mantiene, Sigue

\* A page in a free frame at the end of a table, when its process may have it.
LEMMA AlFinalEs ==
    ASSUME NEW e, Bueno(e), NEW p \in Procesos, Len(e.paginas[p]) < MaxPaginas,
           e.paginas[p] = << >> => \A t \in DeLaTLB(e) : t.pid # p,
           Fija /\ e.intacta => SinPresentes(e, p),
           NEW f \in TodosLosMarcos, f \in Frames => \A q \in Todas(e) : LaPagina(e, q).frame # f,
           NEW s, s = ConLRU(ConTabla(e, p, Append(e.paginas[p], Pagina(f))),
                             Append(e.lRU, <<p, Len(e.paginas[p]) + 1>>))
    PROVE  /\ Avanza(e, s, p) /\ Conserva(e, s) /\ Len(s.paginas[p]) = Len(e.paginas[p]) + 1
           /\ MismosDatos(e, s) /\ s.intacta = e.intacta
           /\ LaPagina(s, <<p, Len(e.paginas[p]) + 1>>) = Pagina(f)
<1>1. e \in Estados
  BY DEF Bueno, Sano
<1>2. PICK n \in Nat : n = Len(e.paginas[p])
  BY <1>1, TablaDe
<1>3. PICK q : q = <<p, n + 1>>
  OBVIOUS
<1>4. PICK t : t = Append(e.paginas[p], Pagina(f))
  OBVIOUS
<1>5. Pagina(f) \in Paginas /\ Pagina(f).frame = f
  BY DEF Pagina, Paginas
<1>6. /\ t \in Seq(Paginas) /\ Len(t) = n + 1 /\ t[n + 1] = Pagina(f)
      /\ \A g \in 1 .. n : t[g] = e.paginas[p][g]
  BY <1>1, <1>2, <1>4, <1>5, TablaDe, AppendProperties
<1>7. PICK v : v = ConTabla(e, p, t)
  OBVIOUS
<1>8. /\ v \in Estados /\ v.paginas = [e.paginas EXCEPT ![p] = t]
      /\ v.lRU = e.lRU /\ v.tlb = e.tlb /\ v.intacta = e.intacta /\ MismosDatos(e, v)
  BY <1>1, <1>6, <1>7, ConTablaEs
<1>9. e.paginas \in [Procesos -> Seq(Paginas)]
  BY <1>1 DEF Estados
<1>10. v.paginas[p] = t /\ \A r \in Procesos \ {p} : v.paginas[r] = e.paginas[r]
  BY <1>8, <1>9
<1>11. MaxPaginas \in Nat /\ n + 1 \in Numeros
  BY <1>2, ConstantesValidas DEF Numeros
<1>12. q \in Procesos \X Numeros /\ q[1] = p /\ q[2] = n + 1 /\ q \notin Todas(e)
  <2>1. n + 1 \notin 1 .. n
    BY <1>2
  <2> QED BY <1>2, <1>3, <1>11, <2>1 DEF Todas
<1>13. Todas(v) = Todas(e) \cup {q}
  <2>1. ASSUME NEW r \in Procesos \X Numeros
        PROVE  r \in Todas(v) <=> r \in Todas(e) \/ r = q
    <3>1. r = <<r[1], r[2]>> /\ r[1] \in Procesos /\ r[2] \in Numeros
      OBVIOUS
    <3>2. CASE r[1] = p
      <4>1. r \in Todas(v) <=> r[2] \in 1 .. n + 1
        BY <1>6, <1>10, <3>2 DEF Todas
      <4>2. r \in Todas(e) <=> r[2] \in 1 .. n
        BY <1>2, <3>2 DEF Todas
      <4>3. r = q <=> r[2] = n + 1
        BY <1>3, <3>1, <3>2
      <4> QED BY <1>2, <3>1, <4>1, <4>2, <4>3 DEF Numeros
    <3>3. CASE r[1] # p
      BY <1>10, <1>12, <3>1, <3>3 DEF Todas
    <3> QED BY <3>2, <3>3
  <2>2. Todas(v) \subseteq Procesos \X Numeros /\ Todas(e) \subseteq Procesos \X Numeros
    BY DEF Todas
  <2> QED BY <1>12, <2>1, <2>2
<1>14. /\ LaPagina(v, q) = Pagina(f)
       /\ \A r \in Todas(e) : LaPagina(v, r) = LaPagina(e, r)
  <2>1. LaPagina(v, q) = Pagina(f)
    BY <1>6, <1>10, <1>12 DEF LaPagina
  <2>2. ASSUME NEW r \in Todas(e) PROVE LaPagina(v, r) = LaPagina(e, r)
    <3>1. CASE r[1] = p
      BY <1>2, <1>6, <1>10, <3>1 DEF Todas, LaPagina
    <3>2. CASE r[1] # p
      BY <1>10, <3>2 DEF Todas, LaPagina
    <3> QED BY <3>1, <3>2
  <2> QED BY <2>1, <2>2
<1>15. PICK o : o = Append(e.lRU, q)
  OBVIOUS
<1>16. o \in Seq(Procesos \X Numeros) /\ IsInjective(o) /\ Range(o) = Todas(v)
  <2>1. PICK S : S = Procesos \X Numeros
    OBVIOUS
  <2>2. /\ e.lRU \in Seq(S) /\ IsInjective(e.lRU) /\ Range(e.lRU) = Todas(e)
        /\ q \in S /\ q \notin Range(e.lRU)
    BY <1>12, <2>1 DEF Bueno, Sano, Ordenado, Estados
  <2>3. o \in Seq(S) /\ Range(o) = Range(e.lRU) \cup {q}
    BY ONLY <1>15, <2>2, AppendEs
  <2>4. IsInjective(o)
    BY ONLY <1>15, <2>2, AgregaInyectiva
  <2> QED BY <1>13, <2>1, <2>2, <2>3, <2>4
<1>17. s = ConLRU(v, o)
  BY <1>2, <1>3, <1>4, <1>7, <1>15
<1>18. /\ s \in Estados /\ s.lRU = o /\ s.paginas = v.paginas /\ s.tlb = e.tlb
       /\ s.intacta = e.intacta /\ MismosDatos(e, s)
  BY <1>8, <1>16, <1>17, ConLRUEs DEF MismosDatos
<1>19. Todas(s) = Todas(e) \cup {q} /\ \A r : LaPagina(s, r) = LaPagina(v, r)
  BY <1>13, <1>18 DEF Todas, LaPagina
<1>20. SinCompartir(s)
  <2> SUFFICES ASSUME NEW r \in Todas(s), NEW k \in Todas(s), r # k,
                      LaPagina(s, r).frame = LaPagina(s, k).frame, LaPagina(s, r).frame \in Frames
               PROVE  FALSE
    BY DEF SinCompartir
  <2>1. CASE r # q /\ k # q
    BY <1>14, <1>19, <2>1 DEF Bueno, Sano, SinCompartir
  <2>2. CASE r = q \/ k = q
    BY <1>5, <1>14, <1>19, <2>2
  <2> QED BY <2>1, <2>2
<1>21. Cortas(s)
  BY <1>2, <1>6, <1>10, <1>11, <1>18 DEF Bueno, Sano, Cortas
<1>22. Sano(s)
  <2>1. Ordenado(s)
    BY <1>13, <1>16, <1>18, <1>19 DEF Ordenado
  <2>2. TLBUnica(s)
    BY <1>18 DEF Bueno, Sano, TLBUnica
  <2> QED BY <1>18, <1>20, <1>21, <2>1, <2>2 DEF Sano
<1>23. e.intacta /\ Fija => UnaPresente(s)
  <2> SUFFICES ASSUME e.intacta, Fija, NEW r \in Todas(s), NEW k \in Todas(s),
                      r[1] = k[1], Presente(s, r), Presente(s, k)
               PROVE  r = k
    BY DEF UnaPresente
  <2>1. \A j \in Todas(e) : Presente(s, j) <=> Presente(e, j)
    BY <1>14, <1>19 DEF LaPagina, Presente
  <2>2. CASE r # q /\ k # q
    BY <1>19, <2>1, <2>2 DEF Bueno, UnaPresente
  <2>3. CASE r = q \/ k = q
    BY <1>12, <1>19, <2>1, <2>3 DEF SinPresentes
  <2> QED BY <2>2, <2>3
<1>24. e.intacta /\ Propia => TLBCierta(s)
  <2> SUFFICES ASSUME e.intacta, Propia, NEW x \in DeLaTLB(s), s.paginas[x.pid] # << >>
               PROVE  /\ <<x.pid, x.pagina>> \in Todas(s)
                      /\ s.paginas[x.pid][x.pagina] = Pagina(x.frame)
    BY DEF TLBCierta
  <2>1. TLBCierta(e) /\ x \in DeLaTLB(e) /\ x.pid \in Procesos
    BY <1>1, <1>18, EntradaEs DEF Bueno, DeLaTLB, Entradas
  <2>2. e.paginas[x.pid] # << >>
    BY <1>10, <1>18, <2>1
  <2>3. PICK r : r = <<x.pid, x.pagina>>
    OBVIOUS
  <2>4. r \in Todas(e) /\ LaPagina(e, r) = Pagina(x.frame)
    BY <2>1, <2>2, <2>3 DEF TLBCierta, LaPagina
  <2> QED BY <1>14, <1>19, <2>3, <2>4 DEF LaPagina
<1>25. \A x \in DeLaTLB(s) : x \in DeLaTLB(e)
  BY <1>18 DEF DeLaTLB
<1>26. Conserva(e, s)
  <2> SUFFICES ASSUME NEW r \in Todas(e) PROVE Cont(s, r) = Cont(e, r)
    BY DEF Conserva
  <2>1. LaPagina(s, r) = LaPagina(e, r)
    BY <1>14, <1>19
  <2> QED BY <1>18, <2>1 DEF MismosDatos, Cont, Presente, LaPagina, Bytes, TraeDeSwamp
<1>27. Cambia(e, s, p)
  BY <1>26, ConservaCambia
<1>28. Mantiene(e, s, p)
  BY <1>10, <1>18, <1>22, <1>23, <1>24, <1>25 DEF Bueno, Mantiene
<1>29. LaPagina(s, q) = Pagina(f)
  BY <1>14, <1>19
<1> QED BY <1>2, <1>3, <1>6, <1>10, <1>18, <1>26, <1>27, <1>28, <1>29 DEF Avanza

\* A page is added, in the place of another one or in a free frame.
LEMMA PaginaNuevaEs ==
    ASSUME NEW e, Bueno(e), NEW p \in Procesos, e.paginas[p] # << >>,
           Len(e.paginas[p]) < MaxPaginas, Fija => getNewEmptyFrame(e, p) = -1,
           NEW s \in PaginaNueva(e, p)
    PROVE  Avanza(e, s, p) /\ Len(s.paginas[p]) = Len(e.paginas[p]) + 1
<1>1. PICK v \in IF getNewEmptyFrame(e, p) = -1 THEN utilizarAlgritmoDeAsignacion(e, p) ELSE {e} :
         s = ConLRU(ConTabla(v, p, Append(v.paginas[p], Pagina(getNewEmptyFrame(v, p)))),
                    Append(v.lRU, <<p, Len(v.paginas[p]) + 1>>))
  BY DEF PaginaNueva
<1>2. Sigue(e, v, p) /\ (Fija /\ v.intacta => SinPresentes(v, p))
  <2>1. CASE getNewEmptyFrame(e, p) = -1
    BY <1>1, <2>1, UtilizarEs DEF Reemplaza
  <2>2. CASE getNewEmptyFrame(e, p) # -1
    <3>1. v = e
      BY <1>1, <2>2
    <3> QED BY <2>2, <3>1, SigueIgual
  <2> QED BY <2>1, <2>2
<1>3. Bueno(v) /\ Len(v.paginas[p]) = Len(e.paginas[p]) /\ e \in Estados /\ v \in Estados
  BY <1>2 DEF Sigue, Bueno, Sano
<1>4. v.paginas[p] # << >>
  <2>1. e.paginas[p] \in Seq(Paginas) /\ v.paginas[p] \in Seq(Paginas)
    BY <1>3, TablaDe
  <2> QED BY <1>3, <2>1
<1>5. PICK f : f = getNewEmptyFrame(v, p)
  OBVIOUS
<1>6. f \in TodosLosMarcos /\ (f \in Frames => \A q \in Todas(v) : LaPagina(v, q).frame # f)
  BY <1>3, <1>5, MarcoLibre
<1>7. Avanza(v, s, p) /\ Len(s.paginas[p]) = Len(v.paginas[p]) + 1
  BY <1>1, <1>2, <1>3, <1>4, <1>5, <1>6, AlFinalEs
<1>8. Avanza(e, v, p)
  BY <1>2, SigueAvanza
<1>9. Avanza(e, s, p)
  <2>1. Len(e.paginas[p]) \in Nat
    BY <1>3, TablaDe
  <2> QED BY <1>3, <1>7, <1>8, <2>1, AvanzaLuego
<1> QED BY <1>3, <1>7, <1>9

\* A page that says it is in memory is lost, and nothing else is.
LEMMA MarcaUltimaEs ==
    ASSUME NEW e, Bueno(e), NEW p \in Procesos, e.paginas[p] # << >>,
           NEW s, s = MarcaUltima(e, p)
    PROVE  Sigue(e, s, p) /\ ~s.intacta
<1>1. e \in Estados
  BY DEF Bueno, Sano
<1>2. PICK n \in Nat : n = Len(e.paginas[p])
  BY <1>1, TablaDe
<1>3. e.paginas[p] \in Seq(Paginas) /\ MaxPaginas \in Nat /\ n <= MaxPaginas
  BY <1>1, <1>2, TablaDe, ConstantesValidas DEF Bueno, Sano, Cortas
<1>4. n \in 1 .. n /\ n \in Numeros
  BY <1>2, <1>3 DEF Numeros
<1>5. <<p, n>> \in Todas(e)
  BY <1>2, <1>4 DEF Todas
<1>6. PICK x \in Paginas : x = Pagina(e.paginas[p][n].frame)
  BY <1>1, <1>2, <1>4, TablaDe DEF Pagina, Paginas
<1>7. PICK v : v = ConPagina(e, p, n, x)
  OBVIOUS
<1>8. /\ v \in Estados /\ MismosLargos(e, v) /\ v.lRU = e.lRU /\ v.tlb = e.tlb
      /\ \A q \in Todas(e) : LaPagina(v, q) = IF q = <<p, n>> THEN x ELSE LaPagina(e, q)
  BY <1>1, <1>5, <1>7, ConPaginaEs
<1>9. PICK u : u = [v EXCEPT !.intacta = FALSE]
  OBVIOUS
<1>10. /\ u \in Estados /\ u.paginas = v.paginas /\ u.lRU = e.lRU /\ u.tlb = e.tlb
       /\ ~u.intacta
  BY <1>8, <1>9 DEF Estados
<1>11. Todas(u) = Todas(e) /\ MismosLargos(e, u)
  BY <1>8, <1>10, MismasPaginas DEF MismosLargos, Todas
<1>12. \A q \in Todas(e) : LaPagina(u, q).frame = LaPagina(e, q).frame
  BY <1>6, <1>8, <1>10 DEF LaPagina, Pagina
<1>13. SinCompartir(u)
  BY <1>11, <1>12 DEF Bueno, Sano, SinCompartir
<1>14. Sano(u)
  BY <1>10, <1>11, <1>13 DEF Bueno, Sano, Cortas, MismosLargos, Ordenado, TLBUnica
<1>15. Sigue(e, u, p)
  <2>1. Cambia(e, u, p)
    BY <1>10, Perdida
  <2> QED BY <1>10, <1>11, <1>14, <2>1 DEF Bueno, Sigue, MismosLargos, DeLaTLB
<1>16. s = Usa(u, p, n)
  BY <1>2, <1>6, <1>7, <1>9 DEF MarcaUltima
<1>17. Sigue(u, s, p)
  BY <1>5, <1>11, <1>15, <1>16, UsaEs DEF Sigue
<1> QED BY <1>10, <1>15, <1>17, SigueLuego DEF Sigue

LEMMA AgregaPaginaEs ==
    ASSUME NEW e, Bueno(e), NEW p \in Procesos, e.paginas[p] # << >>,
           Len(e.paginas[p]) < MaxPaginas, NEW s \in AgregaPagina(e, p)
    PROVE  /\ Avanza(e, s, p)
           /\ Len(s.paginas[p]) = Len(e.paginas[p]) \/ Len(s.paginas[p]) = Len(e.paginas[p]) + 1
           /\ s.intacta => Len(s.paginas[p]) = Len(e.paginas[p]) + 1
<1>1. CASE s \in PaginaNueva(e, p) /\ (Fija => getNewEmptyFrame(e, p) = -1)
  BY <1>1, PaginaNuevaEs
<1>2. CASE s = MarcaUltima(e, p)
  <2>1. Sigue(e, s, p) /\ ~s.intacta
    BY <1>2, MarcaUltimaEs
  <2> QED BY <2>1, SigueAvanza DEF Sigue
<1> QED BY <1>1, <1>2 DEF AgregaPagina, Fija

\* The last page of a table is taken out, with its TLB entry.
LEMMA DeletePaginaEs ==
    ASSUME NEW e, Bueno(e), NEW p \in Procesos, Len(e.paginas[p]) > 1,
           NEW s, s = deletePagina(e, p)
    PROVE  Avanza(e, s, p) /\ Conserva(e, s) /\ Len(s.paginas[p]) = Len(e.paginas[p]) - 1
<1>1. e \in Estados
  BY DEF Bueno, Sano
<1>2. PICK n \in Nat : n = Len(e.paginas[p])
  BY <1>1, TablaDe
<1>3. PICK q : q = <<p, n>>
  OBVIOUS
<1>4. e.paginas[p] \in Seq(Paginas) /\ n > 1
  BY <1>1, <1>2, TablaDe
<1>5. n \in Numeros
  BY <1>1, <1>2, <1>4, ConstantesValidas DEF Bueno, Sano, Cortas, Numeros
<1>6. q \in Procesos \X Numeros /\ q[1] = p /\ q[2] = n /\ q \in Todas(e)
  BY <1>2, <1>3, <1>4, <1>5 DEF Todas
<1>7. PICK f : f = e.paginas[p][n].frame
  OBVIOUS
<1>8. PICK x : x = delete_entrada_tlb(e, p, n, f)
  OBVIOUS
<1>9. /\ SoloTLB(e, x) /\ TLBUnica(x)
      /\ \A t \in DeLaTLB(x) : t \in DeLaTLB(e) /\ t # Entrada(p, n, f)
  BY <1>1, <1>8, BorraEs DEF Bueno, Sano
<1>10. PICK t : t = Front(e.paginas[p])
  OBVIOUS
<1>11. /\ t \in Seq(Paginas) /\ Len(t) = n - 1
       /\ \A g \in 1 .. n - 1 : t[g] = e.paginas[p][g]
  BY <1>2, <1>4, <1>10 DEF Front
<1>12. PICK v : v = ConTabla(x, p, t)
  OBVIOUS
<1>13. /\ v \in Estados /\ v.paginas = [e.paginas EXCEPT ![p] = t]
       /\ v.lRU = e.lRU /\ v.tlb = x.tlb /\ v.intacta = e.intacta /\ MismosDatos(e, v)
  BY <1>9, <1>11, <1>12, ConTablaEs DEF SoloTLB, MismosDatos
<1>14. e.paginas \in [Procesos -> Seq(Paginas)]
  BY <1>1 DEF Estados
<1>15. v.paginas[p] = t /\ \A r \in Procesos \ {p} : v.paginas[r] = e.paginas[r]
  BY <1>13, <1>14
<1>16. Todas(v) = Todas(e) \ {q}
  <2>1. ASSUME NEW r \in Procesos \X Numeros
        PROVE  r \in Todas(v) <=> r \in Todas(e) /\ r # q
    <3>1. r = <<r[1], r[2]>> /\ r[1] \in Procesos /\ r[2] \in Numeros
      OBVIOUS
    <3>2. CASE r[1] = p
      <4>1. r \in Todas(v) <=> r[2] \in 1 .. n - 1
        BY <1>11, <1>15, <3>2 DEF Todas
      <4>2. r \in Todas(e) <=> r[2] \in 1 .. n
        BY <1>2, <3>2 DEF Todas
      <4>3. r = q <=> r[2] = n
        BY <1>3, <3>1, <3>2
      <4> QED BY <1>2, <3>1, <4>1, <4>2, <4>3 DEF Numeros
    <3>3. CASE r[1] # p
      BY <1>6, <1>15, <3>3 DEF Todas
    <3> QED BY <3>2, <3>3
  <2>2. Todas(v) \subseteq Procesos \X Numeros /\ Todas(e) \subseteq Procesos \X Numeros
    BY DEF Todas
  <2> QED BY <2>1, <2>2
<1>17. \A r \in Todas(v) : LaPagina(v, r) = LaPagina(e, r)
  <2> SUFFICES ASSUME NEW r \in Todas(v) PROVE LaPagina(v, r) = LaPagina(e, r)
    OBVIOUS
  <2>1. CASE r[1] = p
    BY <1>11, <1>15, <2>1 DEF Todas, LaPagina
  <2>2. CASE r[1] # p
    BY <1>15, <2>2 DEF Todas, LaPagina
  <2> QED BY <2>1, <2>2
<1>18. PICK o : o = RemoveFirst(e.lRU, q)
  OBVIOUS
<1>19. o \in Seq(Procesos \X Numeros) /\ IsInjective(o) /\ Range(o) = Todas(v)
  <2>1. PICK S : S = Procesos \X Numeros
    OBVIOUS
  <2>2. /\ e.lRU \in Seq(S) /\ IsInjective(e.lRU) /\ Range(e.lRU) = Todas(e)
        /\ q \in Range(e.lRU)
    BY <1>6, <2>1 DEF Bueno, Sano, Ordenado, Estados
  <2>3. o \in Seq(S) /\ IsInjective(o) /\ Range(o) = Range(e.lRU) \ {q}
    BY ONLY <1>18, <2>2, QuitaInyectiva
  <2> QED BY <1>16, <2>1, <2>2, <2>3
<1>20. s = ConLRU(v, o)
  <2>1. x.paginas = e.paginas /\ v.lRU = e.lRU
    BY <1>9, <1>13 DEF SoloTLB
  <2>2. s = Olvida(ConTabla(x, p, Front(e.paginas[p])), p, n)
    BY <1>2, <1>7, <1>8 DEF deletePagina
  <2> QED BY <1>3, <1>10, <1>12, <1>18, <2>1, <2>2 DEF Olvida
<1>21. /\ s \in Estados /\ s.lRU = o /\ s.paginas = v.paginas /\ s.tlb = x.tlb
       /\ s.intacta = e.intacta /\ MismosDatos(e, s)
  BY <1>13, <1>19, <1>20, ConLRUEs DEF MismosDatos
<1>22. Todas(s) = Todas(e) \ {q} /\ \A r \in Todas(s) : LaPagina(s, r) = LaPagina(e, r)
  BY <1>16, <1>17, <1>21 DEF Todas, LaPagina
<1>23. Sano(s)
  <2>1. Ordenado(s)
    BY <1>16, <1>19, <1>21, <1>22 DEF Ordenado
  <2>2. TLBUnica(s)
    BY <1>9, <1>21 DEF TLBUnica
  <2>3. Cortas(s)
    BY <1>2, <1>11, <1>15, <1>21, ConstantesValidas DEF Bueno, Sano, Cortas
  <2>4. SinCompartir(s)
    BY <1>22 DEF Bueno, Sano, SinCompartir
  <2> QED BY <1>21, <2>1, <2>2, <2>3, <2>4 DEF Sano
<1>24. UnaPresente(e) => UnaPresente(s)
  BY <1>22 DEF UnaPresente, Presente, LaPagina
<1>25. \A y \in DeLaTLB(s) : y \in DeLaTLB(e) /\ y # Entrada(p, n, f)
  BY <1>9, <1>21 DEF DeLaTLB
<1>26. TLBCierta(e) => TLBCierta(s)
  <2> SUFFICES ASSUME TLBCierta(e), NEW y \in DeLaTLB(s), s.paginas[y.pid] # << >>
               PROVE  /\ <<y.pid, y.pagina>> \in Todas(s)
                      /\ s.paginas[y.pid][y.pagina] = Pagina(y.frame)
    BY DEF TLBCierta
  <2>1. y \in DeLaTLB(e) /\ y \in Entradas
    BY <1>1, <1>25, EntradaEs
  <2>2. e.paginas[y.pid] # << >>
    <3>1. CASE y.pid = p
      BY <1>2, <1>4, <3>1
    <3>2. CASE y.pid # p
      BY <1>15, <1>21, <2>1, <3>2 DEF Entradas
    <3> QED BY <3>1, <3>2
  <2>3. PICK r : r = <<y.pid, y.pagina>>
    OBVIOUS
  <2>4. r \in Todas(e) /\ LaPagina(e, r) = Pagina(y.frame)
    BY <2>1, <2>2, <2>3 DEF TLBCierta, LaPagina
  <2>5. r # q
    <3> SUFFICES ASSUME r = q PROVE FALSE
      OBVIOUS
    <3>1. y.pid = p /\ y.pagina = n
      BY <1>3, <2>3
    <3>2. y.frame = f
      BY <1>3, <1>7, <2>4 DEF LaPagina, Pagina
    <3>3. y = Entrada(p, n, f)
      BY <2>1, <3>1, <3>2 DEF Entradas, Entrada
    <3> QED BY <1>25, <3>3
  <2> QED BY <1>22, <2>3, <2>4, <2>5 DEF LaPagina
<1>27. Conserva(e, s)
  <2> SUFFICES ASSUME NEW r \in Todas(s) PROVE Cont(s, r) = Cont(e, r)
    BY DEF Conserva
  <2>1. LaPagina(s, r) = LaPagina(e, r)
    BY <1>22
  <2> QED BY <1>21, <2>1 DEF MismosDatos, Cont, Presente, LaPagina, Bytes, TraeDeSwamp
<1>28. Cambia(e, s, p)
  BY <1>27, ConservaCambia
<1>29. Mantiene(e, s, p)
  BY <1>15, <1>21, <1>23, <1>24, <1>25, <1>26 DEF Bueno, Mantiene
<1> QED BY <1>2, <1>11, <1>15, <1>21, <1>27, <1>28, <1>29 DEF Avanza

\* A page is suspended: it is not in memory, and keeps the frame it names.
LEMMA SuspendePaginaEs ==
    ASSUME NEW e, Bueno(e), NEW p \in Procesos, NEW g, <<p, g>> \in Todas(e),
           NEW s, s = SuspendePagina(e, p, g)
    PROVE  Sigue(e, s, p) /\ Conserva(e, s)
<1>1. e \in Estados /\ g \in Numeros
  BY DEF Bueno, Sano, Todas
<1>2. PICK f : f = e.paginas[p][g].frame
  OBVIOUS
<1>3. PICK x : x = delete_entrada_tlb(e, p, g, f)
  OBVIOUS
<1>4. /\ SoloTLB(e, x) /\ TLBUnica(x)
      /\ \A t \in DeLaTLB(x) : t \in DeLaTLB(e) /\ t # Entrada(p, g, f)
  BY <1>1, <1>3, BorraEs DEF Bueno, Sano
<1>5. PICK y : y = EnSwap(x, p, g, Bytes(e, f))
  OBVIOUS
<1>0. Bytes(e, f) \in Valores
  BY <1>1, SonValores
<1>6. /\ SoloDatos(x, y) /\ y.intacta = e.intacta /\ y.memoria = e.memoria
      /\ \A r \in Procesos, h \in Numeros :
            y.swap[r][h] = IF r = p /\ h = g THEN Bytes(e, f) ELSE e.swap[r][h]
  <2>1. x \in Estados /\ x.intacta = e.intacta /\ MismosDatos(e, x)
    BY <1>4 DEF SoloTLB
  <2> QED BY <1>0, <1>1, <1>5, <2>1, EnSwapEs DEF MismosDatos
<1>7. PICK b \in BOOLEAN : b = (y.intacta /\ e.paginas[p][g].bitPresencia)
  OBVIOUS
<1>8. PICK z : z = [y EXCEPT !.intacta = b]
  OBVIOUS
<1>9. /\ z \in Estados /\ z.paginas = e.paginas /\ z.lRU = e.lRU /\ z.tlb = x.tlb
      /\ z.intacta = b /\ MismosDatos(y, z)
  BY <1>4, <1>6, <1>7, <1>8 DEF SoloTLB, SoloDatos, Estados, MismosDatos
<1>10. e.paginas[p][g] \in Paginas
  BY <1>1, TablaDe DEF Todas
<1>11. PICK w \in Paginas : w = [frame |-> f, bitPresencia |-> FALSE]
  BY <1>2, <1>10 DEF Paginas
<1>12. PICK v : v = ConPagina(z, p, g, w)
  OBVIOUS
<1>13. Todas(z) = Todas(e) /\ <<p, g>> \in Todas(z)
  BY <1>9 DEF Todas
<1>14. /\ v \in Estados /\ MismosLargos(z, v) /\ v.lRU = z.lRU /\ v.tlb = z.tlb
       /\ v.intacta = z.intacta /\ MismosDatos(z, v)
       /\ \A q \in Todas(z) : LaPagina(v, q) = IF q = <<p, g>> THEN w ELSE LaPagina(z, q)
  BY <1>9, <1>12, <1>13, ConPaginaEs
<1>15. /\ v.lRU = e.lRU /\ v.tlb = x.tlb /\ (v.intacta => e.intacta)
       /\ MismosLargos(e, v) /\ Todas(v) = Todas(e)
       /\ \A q \in Todas(e) : LaPagina(v, q) = IF q = <<p, g>> THEN w ELSE LaPagina(e, q)
  <2>1. v.intacta => e.intacta
    BY <1>6, <1>7, <1>9, <1>14
  <2>2. MismosLargos(e, v)
    BY <1>9, <1>14 DEF MismosLargos
  <2>3. Todas(v) = Todas(e)
    BY <2>2, MismasPaginas
  <2>4. \A q \in Todas(e) : LaPagina(z, q) = LaPagina(e, q)
    BY <1>9 DEF LaPagina
  <2> QED BY <1>9, <1>13, <1>14, <2>1, <2>2, <2>3, <2>4
<1>16. \A q \in Todas(e) : LaPagina(v, q).frame = LaPagina(e, q).frame
  BY <1>2, <1>11, <1>15 DEF LaPagina
<1>17. \A q \in Todas(e) : Presente(v, q) => Presente(e, q) /\ q # <<p, g>>
  <2> SUFFICES ASSUME NEW q \in Todas(e), Presente(v, q)
               PROVE  Presente(e, q) /\ q # <<p, g>>
    OBVIOUS
  <2>1. LaPagina(v, q).bitPresencia
    BY DEF Presente, LaPagina
  <2>2. q # <<p, g>>
    BY <1>11, <1>15, <2>1
  <2> QED BY <1>15, <2>1, <2>2 DEF Presente, LaPagina
<1>18. Sano(v)
  <2>1. SinCompartir(v)
    BY <1>15, <1>16 DEF Bueno, Sano, SinCompartir
  <2>2. TLBUnica(v)
    BY <1>4, <1>15 DEF TLBUnica
  <2>3. Cortas(v) /\ Ordenado(v)
    BY <1>15 DEF Bueno, Sano, Cortas, MismosLargos, Ordenado
  <2> QED BY <1>14, <2>1, <2>2, <2>3 DEF Sano
<1>19. UnaPresente(e) => UnaPresente(v)
  BY <1>15, <1>17 DEF UnaPresente
<1>20. \A t \in DeLaTLB(v) : t \in DeLaTLB(e) /\ t # Entrada(p, g, f)
  BY <1>4, <1>15 DEF DeLaTLB
<1>21. TLBCierta(e) => TLBCierta(v)
  <2> SUFFICES ASSUME TLBCierta(e), NEW t \in DeLaTLB(v), v.paginas[t.pid] # << >>
               PROVE  /\ <<t.pid, t.pagina>> \in Todas(v)
                      /\ v.paginas[t.pid][t.pagina] = Pagina(t.frame)
    BY DEF TLBCierta
  <2>1. t \in DeLaTLB(e) /\ t \in Entradas
    BY <1>1, <1>20, EntradaEs
  <2>2. e.paginas[t.pid] # << >>
    <3>1. /\ v.paginas[t.pid] \in Seq(Paginas) /\ e.paginas[t.pid] \in Seq(Paginas)
          /\ Len(v.paginas[t.pid]) = Len(e.paginas[t.pid])
      BY <1>1, <1>14, <1>15, <2>1, TablaDe DEF MismosLargos, Entradas
    <3> QED BY <3>1
  <2>3. PICK r : r = <<t.pid, t.pagina>>
    OBVIOUS
  <2>4. r \in Todas(e) /\ LaPagina(e, r) = Pagina(t.frame)
    BY <2>1, <2>2, <2>3 DEF TLBCierta, LaPagina
  <2>5. r # <<p, g>>
    <3> SUFFICES ASSUME r = <<p, g>> PROVE FALSE
      OBVIOUS
    <3>1. t.pid = p /\ t.pagina = g /\ t.frame = f
      BY <1>2, <2>3, <2>4 DEF LaPagina, Pagina
    <3>2. t = Entrada(p, g, f)
      BY <2>1, <3>1 DEF Entradas, Entrada
    <3> QED BY <1>20, <3>2
  <2> QED BY <1>15, <2>3, <2>4, <2>5 DEF LaPagina
<1>22. Bueno(v)
  BY <1>15, <1>18, <1>19, <1>21 DEF Bueno
<1>23. s = Escribe(v, f, Basura)
  BY <1>2, <1>3, <1>5, <1>7, <1>8, <1>11, <1>12 DEF SuspendePagina
<1>24. SoloDatos(v, s) /\ s.swap = v.swap /\ (s.intacta => f \in Frames)
  <2>1. PICK c \in Valores : c = Basura
    BY DEF Valores
  <2>2. v \in Estados
    BY <1>14
  <2>3. s = Escribe(v, f, c)
    BY <1>23, <2>1
  <2>4. SoloDatos(v, s)
    BY <2>2, <2>3, EscribeEn
  <2>5. s.swap = v.swap
    BY <2>2, <2>3 DEF Escribe, Estados
  <2>6. s.intacta => f \in Frames
    BY <2>2, <2>3, EscribeEn
  <2> QED BY <2>4, <2>5, <2>6
<1>25. Mantiene(v, s, p) /\ Todas(s) = Todas(e)
  BY <1>15, <1>22, <1>24, SoloDatosBueno DEF SoloDatos, Todas
<1>26. Conserva(e, s)
  <2> SUFFICES ASSUME s.intacta, NEW q \in Todas(e)
               PROVE  Cont(s, q) = Cont(e, q)
    BY DEF Conserva
  <2>1. f \in Frames /\ v.intacta
    BY <1>24 DEF SoloDatos
  <2>2. Cont(s, q) = IF Presente(v, q) /\ LaPagina(v, q).frame = f THEN Basura ELSE Cont(v, q)
    <3>1. Basura \in Valores
      BY DEF Valores
    <3> QED BY <1>14, <1>15, <1>23, <3>1, EscribeCont
  <2>3. q[1] \in Procesos /\ q[2] \in Numeros /\ q = <<q[1], q[2]>>
    BY DEF Todas
  <2>4. /\ v.memoria = e.memoria
        /\ v.swap[q[1]][q[2]] = IF q = <<p, g>> THEN Bytes(e, f) ELSE e.swap[q[1]][q[2]]
    BY <1>6, <1>9, <1>14, <2>3 DEF MismosDatos
  <2>5. CASE q = <<p, g>>
    <3>1. Presente(e, q) /\ LaPagina(e, q).frame = f /\ ~Presente(v, q)
      BY <1>2, <1>7, <1>9, <1>14, <1>17, <2>1, <2>5 DEF Presente, LaPagina
    <3>2. Cont(e, q) = Bytes(e, f) /\ Bytes(e, f) # Nada
      BY <1>0, <3>1, ConstantesValidas DEF Cont, Valores
    <3> QED BY <2>2, <2>4, <2>5, <3>1, <3>2 DEF Cont, TraeDeSwamp
  <2>6. CASE q # <<p, g>>
    <3>1. LaPagina(v, q) = LaPagina(e, q)
      BY <1>15, <2>6
    <3>2. Cont(v, q) = Cont(e, q)
      BY <2>4, <2>6, <3>1 DEF Cont, Presente, LaPagina, Bytes, TraeDeSwamp
    <3>3. PICK r : r = <<p, g>>
      OBVIOUS
    <3>4. r \in Todas(e) /\ LaPagina(e, r).frame = f /\ r # q
      BY <1>2, <2>6, <3>3 DEF LaPagina
    <3>5. LaPagina(v, q).frame # f
      BY <2>1, <3>1, <3>4 DEF Bueno, Sano, SinCompartir
    <3> QED BY <2>2, <3>2, <3>5
  <2> QED BY <2>5, <2>6
<1>27. Cambia(e, s, p)
  BY <1>26, ConservaCambia
<1> QED BY <1>15, <1>20, <1>22, <1>24, <1>25, <1>26, <1>27
        DEF Mantiene, Sigue, SoloDatos, MismosLargos, DeLaTLB

-----------------------------------------------------------------------------
(* The loops over pages: I[n] is what holds of the tables after round n.   *)

\* Pages are written one after another.
LEMMA EditarEs ==
    ASSUME NEW e, Bueno(e), NEW p \in Procesos, NEW desde \in Nat \ {0}, NEW hasta \in Nat,
           desde <= hasta, hasta <= Len(e.paginas[p]), NEW x \in Contenidos,
           NEW s \in editarAlgoEnMemoria(e, p, desde, hasta, x)
    PROVE  Sigue(e, s, p)
<1> DEFINE Vuelta(S, n) == UNION {EditaPagina(v, p, n, x) : v \in S}
<1>0. e \in Estados /\ desde \in Int /\ hasta \in Int /\ desde - 1 <= hasta
  BY DEF Bueno, Sano
<1>1. PICK I : I = [n \in desde - 1 .. hasta |-> {v \in Estados :
                    Sigue(e, v, p)}]
  OBVIOUS
<1>2. \A n \in desde - 1 .. hasta : I[n] = {v \in Estados :
                    Sigue(e, v, p)}
  BY <1>1
<1>3. e \in I[desde - 1]
  <2>2. Sigue(e, e, p) /\ Conserva(e, e)
    BY SigueIgual
  <2> QED BY <1>0, <1>2, <2>2
<1>4. ASSUME NEW n \in desde .. hasta, NEW v \in I[n - 1], NEW u \in EditaPagina(v, p, n, x)
      PROVE  u \in I[n]
  <2>0. n - 1 \in desde - 1 .. hasta /\ n \in desde - 1 .. hasta
    BY <1>0
  <2>1. Bueno(v) /\ Sigue(e, v, p)
    BY <1>2, <2>0 DEF Sigue
  <2>2. <<p, n>> \in Todas(e)
    <3>1. n \in 1 .. Len(e.paginas[p]) /\ Len(e.paginas[p]) <= MaxPaginas
      BY <1>0, TablaDe DEF Bueno, Sano, Cortas
    <3> QED BY <1>0, <3>1, ConstantesValidas, TablaDe DEF Todas, Numeros
  <2>3. <<p, n>> \in Todas(v)
    BY <2>1, <2>2, MismasPaginas DEF Sigue, MismosLargos
  <2>4. Sigue(v, u, p)
    BY <2>1, <2>3, EditaEs
  <2>5. Sigue(e, u, p)
    BY <2>1, <2>4, SigueLuego
  <2> QED BY <1>2, <2>0, <2>5 DEF Sigue, Bueno, Sano
<1>5. PICK D : D = [n \in desde - 1 .. hasta |-> SUBSET I[n]]
  OBVIOUS
<1>6. /\ \A n \in desde - 1 .. hasta : D[n] = SUBSET I[n]
      /\ D[desde - 1] = SUBSET I[desde - 1] /\ D[hasta] = SUBSET I[hasta]
      /\ desde - 1 \in desde - 1 .. hasta /\ hasta \in desde - 1 .. hasta
  <2>1. desde - 1 \in desde - 1 .. hasta /\ hasta \in desde - 1 .. hasta
    BY <1>0
  <2> QED BY <1>5, <2>1
<1>7. PICK F : F = [n \in desde .. hasta |-> [S \in SUBSET I[n - 1] |-> Vuelta(S, n)]]
  OBVIOUS
<1>8. PICK t : Recorre(t, desde, hasta, {e}, F) /\ \A n \in desde - 1 .. hasta : t[n] \in D[n]
  <2>1. {e} \in D[desde - 1]
    BY <1>3, <1>6
  <2>2. ASSUME NEW n \in desde .. hasta, NEW S \in D[n - 1] PROVE F[n][S] \in D[n]
    <3>1. n - 1 \in desde - 1 .. hasta /\ n \in desde - 1 .. hasta
      BY <1>0
    <3>2. S \in SUBSET I[n - 1] /\ D[n] = SUBSET I[n]
      BY <1>6, <3>1
    <3>3. F[n][S] = Vuelta(S, n)
      BY <1>7, <3>2
    <3> QED BY <1>4, <3>2, <3>3
  <2>3. \A n \in desde .. hasta : \A S \in D[n - 1] : F[n][S] \in D[n]
    BY <2>2
  <2> QED BY ONLY <1>0, <2>1, <2>3, HayVueltas
<1>9. t = [n \in desde - 1 .. hasta |-> IF n = desde - 1 THEN {e} ELSE Vuelta(t[n - 1], n)]
  <2>1. ASSUME NEW n \in desde .. hasta PROVE F[n][t[n - 1]] = Vuelta(t[n - 1], n)
    <3>1. n - 1 \in desde - 1 .. hasta
      BY <1>0
    <3>2. t[n - 1] \in SUBSET I[n - 1]
      BY <1>6, <1>8, <3>1
    <3> QED BY <1>7, <3>2
  <2>2. \A n \in desde - 1 .. hasta : n # desde - 1 => n \in desde .. hasta
    BY <1>0
  <2> HIDE DEF Vuelta
  <2> QED BY <1>8, <2>1, <2>2, Zenon DEF Recorre
<1>10. PICK tras : tras = CHOOSE w : w = [n \in desde - 1 .. hasta |->
                              IF n = desde - 1 THEN {e} ELSE Vuelta(w[n - 1], n)]
  OBVIOUS
<1>11. s \in tras[hasta]
  BY <1>10 DEF editarAlgoEnMemoria, EnOrden
<1>12. tras = [n \in desde - 1 .. hasta |-> IF n = desde - 1 THEN {e} ELSE Vuelta(tras[n - 1], n)]
  <2> HIDE DEF Vuelta
  <2> QED BY <1>9, <1>10, Zenon
<1>13. tras[hasta] \in D[hasta]
  <2>1. tras[desde - 1] \in D[desde - 1]
    <3>1. tras[desde - 1] = {e}
      <4> HIDE DEF Vuelta
      <4> QED BY <1>6, <1>12, Zenon
    <3> QED BY <1>3, <1>6, <3>1
  <2>2. ASSUME NEW n \in desde .. hasta, tras[n - 1] \in D[n - 1] PROVE tras[n] \in D[n]
    <3>1. n - 1 \in desde - 1 .. hasta /\ n \in desde - 1 .. hasta /\ n # desde - 1
      BY <1>0
    <3>2. tras[n] = Vuelta(tras[n - 1], n)
      <4> HIDE DEF Vuelta
      <4> QED BY <1>12, <3>1, Zenon
    <3>3. tras[n - 1] \in SUBSET I[n - 1] /\ D[n] = SUBSET I[n]
      BY <1>6, <2>2, <3>1
    <3> QED BY <1>4, <3>2, <3>3
  <2> QED BY <1>0, <2>1, <2>2, VueltasEnD
<1>14. s \in I[hasta] /\ hasta \in desde - 1 .. hasta
  BY <1>6, <1>11, <1>13
<1> QED BY <1>2, <1>14

\* The pages of the headers are used one after another.
LEMMA RecorreEs ==
    ASSUME NEW e, Bueno(e), NEW p \in Procesos, NEW cabeceras,
           NEW s \in recorreCabeceras(e, p, cabeceras)
    PROVE  Sigue(e, s, p)
<1> DEFINE hasta == Len(e.paginas[p])
           Vuelta(S, n) == UNION {IF n \in cabeceras THEN Toca(v, p, n) ELSE {v} : v \in S}
<1>0. e \in Estados /\ 1 \in Int /\ hasta \in Int /\ 1 - 1 <= hasta
  BY TablaDe DEF Bueno, Sano
<1> HIDE DEF hasta
<1>1. PICK I : I = [n \in 1 - 1 .. hasta |-> {v \in Estados :
                    Sigue(e, v, p)}]
  OBVIOUS
<1>2. \A n \in 1 - 1 .. hasta : I[n] = {v \in Estados :
                    Sigue(e, v, p)}
  BY <1>1
<1>3. e \in I[1 - 1]
  <2>2. Sigue(e, e, p) /\ Conserva(e, e)
    BY SigueIgual
  <2> QED BY <1>0, <1>2, <2>2
<1>4. ASSUME NEW n \in 1 .. hasta, NEW v \in I[n - 1], NEW u \in IF n \in cabeceras THEN Toca(v, p, n) ELSE {v}
      PROVE  u \in I[n]
  <2>0. n - 1 \in 1 - 1 .. hasta /\ n \in 1 - 1 .. hasta
    BY <1>0
  <2>1. Bueno(v) /\ Sigue(e, v, p)
    BY <1>2, <2>0 DEF Sigue
  <2>2. <<p, n>> \in Todas(e)
    <3>1. n \in 1 .. Len(e.paginas[p]) /\ Len(e.paginas[p]) <= MaxPaginas
      BY <1>0 DEF Bueno, Sano, Cortas, hasta
    <3> QED BY <1>0, <3>1, ConstantesValidas, TablaDe DEF Todas, Numeros
  <2>3. <<p, n>> \in Todas(v)
    BY <2>1, <2>2, MismasPaginas DEF Sigue, MismosLargos
  <2>4. CASE n \in cabeceras
    <3>1. PICK r \in getFrameDeUn(v, p, n) : u = r.e
      BY <2>4 DEF Toca
    <3>2. Sigue(v, u, p)
      BY <2>1, <2>3, <3>1, GetFrameEs DEF Trae
    <3>3. Sigue(e, u, p)
      BY <2>1, <3>2, SigueLuego
    <3> QED BY <1>2, <2>0, <3>3 DEF Sigue, Bueno, Sano
  <2>5. CASE n \notin cabeceras
    BY <1>2, <2>0, <2>5
  <2> QED BY <2>4, <2>5
<1>5. PICK D : D = [n \in 1 - 1 .. hasta |-> SUBSET I[n]]
  OBVIOUS
<1>6. /\ \A n \in 1 - 1 .. hasta : D[n] = SUBSET I[n]
      /\ D[1 - 1] = SUBSET I[1 - 1] /\ D[hasta] = SUBSET I[hasta]
      /\ 1 - 1 \in 1 - 1 .. hasta /\ hasta \in 1 - 1 .. hasta
  <2>1. 1 - 1 \in 1 - 1 .. hasta /\ hasta \in 1 - 1 .. hasta
    BY <1>0
  <2> QED BY <1>5, <2>1
<1>7. PICK F : F = [n \in 1 .. hasta |-> [S \in SUBSET I[n - 1] |-> Vuelta(S, n)]]
  OBVIOUS
<1>8. PICK t : Recorre(t, 1, hasta, {e}, F) /\ \A n \in 1 - 1 .. hasta : t[n] \in D[n]
  <2>1. {e} \in D[1 - 1]
    BY <1>3, <1>6
  <2>2. ASSUME NEW n \in 1 .. hasta, NEW S \in D[n - 1] PROVE F[n][S] \in D[n]
    <3>1. n - 1 \in 1 - 1 .. hasta /\ n \in 1 - 1 .. hasta
      BY <1>0
    <3>2. S \in SUBSET I[n - 1] /\ D[n] = SUBSET I[n]
      BY <1>6, <3>1
    <3>3. F[n][S] = Vuelta(S, n)
      BY <1>7, <3>2
    <3> QED BY <1>4, <3>2, <3>3
  <2>3. \A n \in 1 .. hasta : \A S \in D[n - 1] : F[n][S] \in D[n]
    BY <2>2
  <2> QED BY ONLY <1>0, <2>1, <2>3, HayVueltas
<1>9. t = [n \in 1 - 1 .. hasta |-> IF n = 1 - 1 THEN {e} ELSE Vuelta(t[n - 1], n)]
  <2>1. ASSUME NEW n \in 1 .. hasta PROVE F[n][t[n - 1]] = Vuelta(t[n - 1], n)
    <3>1. n - 1 \in 1 - 1 .. hasta
      BY <1>0
    <3>2. t[n - 1] \in SUBSET I[n - 1]
      BY <1>6, <1>8, <3>1
    <3> QED BY <1>7, <3>2
  <2>2. \A n \in 1 - 1 .. hasta : n # 1 - 1 => n \in 1 .. hasta
    BY <1>0
  <2> HIDE DEF Vuelta
  <2> QED BY <1>8, <2>1, <2>2, Zenon DEF Recorre
<1>10. PICK tras : tras = CHOOSE w : w = [n \in 1 - 1 .. hasta |->
                              IF n = 1 - 1 THEN {e} ELSE Vuelta(w[n - 1], n)]
  OBVIOUS
<1>11. s \in tras[hasta]
  BY <1>10 DEF recorreCabeceras, EnOrden, hasta
<1>12. tras = [n \in 1 - 1 .. hasta |-> IF n = 1 - 1 THEN {e} ELSE Vuelta(tras[n - 1], n)]
  <2> HIDE DEF Vuelta
  <2> QED BY <1>9, <1>10, Zenon
<1>13. tras[hasta] \in D[hasta]
  <2>1. tras[1 - 1] \in D[1 - 1]
    <3>1. tras[1 - 1] = {e}
      <4> HIDE DEF Vuelta
      <4> QED BY <1>6, <1>12, Zenon
    <3> QED BY <1>3, <1>6, <3>1
  <2>2. ASSUME NEW n \in 1 .. hasta, tras[n - 1] \in D[n - 1] PROVE tras[n] \in D[n]
    <3>1. n - 1 \in 1 - 1 .. hasta /\ n \in 1 - 1 .. hasta /\ n # 1 - 1
      BY <1>0
    <3>2. tras[n] = Vuelta(tras[n - 1], n)
      <4> HIDE DEF Vuelta
      <4> QED BY <1>12, <3>1, Zenon
    <3>3. tras[n - 1] \in SUBSET I[n - 1] /\ D[n] = SUBSET I[n]
      BY <1>6, <2>2, <3>1
    <3> QED BY <1>4, <3>2, <3>3
  <2> QED BY <1>0, <2>1, <2>2, VueltasEnD
<1>14. s \in I[hasta] /\ hasta \in 1 - 1 .. hasta
  BY <1>6, <1>11, <1>13
<1> QED BY <1>2, <1>14

\* The pages of a process are suspended one after another.
LEMMA SuspendeEs ==
    ASSUME NEW e, Bueno(e), NEW p \in Procesos, NEW s \in SuspendePaginas(e, p)
    PROVE  Sigue(e, s, p)
<1> DEFINE hasta == Len(e.paginas[p])
           Vuelta(S, n) == UNION {{SuspendePagina(v, p, n)} : v \in S}
<1>0. e \in Estados /\ 1 \in Int /\ hasta \in Int /\ 1 - 1 <= hasta
  BY TablaDe DEF Bueno, Sano
<1> HIDE DEF hasta
<1>1. PICK I : I = [n \in 1 - 1 .. hasta |-> {v \in Estados :
                    Sigue(e, v, p)}]
  OBVIOUS
<1>2. \A n \in 1 - 1 .. hasta : I[n] = {v \in Estados :
                    Sigue(e, v, p)}
  BY <1>1
<1>3. e \in I[1 - 1]
  <2>2. Sigue(e, e, p) /\ Conserva(e, e)
    BY SigueIgual
  <2> QED BY <1>0, <1>2, <2>2
<1>4. ASSUME NEW n \in 1 .. hasta, NEW v \in I[n - 1], NEW u \in {SuspendePagina(v, p, n)}
      PROVE  u \in I[n]
  <2>0. n - 1 \in 1 - 1 .. hasta /\ n \in 1 - 1 .. hasta
    BY <1>0
  <2>1. Bueno(v) /\ Sigue(e, v, p)
    BY <1>2, <2>0 DEF Sigue
  <2>2. <<p, n>> \in Todas(e)
    <3>1. n \in 1 .. Len(e.paginas[p]) /\ Len(e.paginas[p]) <= MaxPaginas
      BY <1>0 DEF Bueno, Sano, Cortas, hasta
    <3> QED BY <1>0, <3>1, ConstantesValidas, TablaDe DEF Todas, Numeros
  <2>3. <<p, n>> \in Todas(v)
    BY <2>1, <2>2, MismasPaginas DEF Sigue, MismosLargos
  <2>4. Sigue(v, u, p)
    BY <2>1, <2>3, SuspendePaginaEs
  <2>5. Sigue(e, u, p)
    BY <2>1, <2>4, SigueLuego
  <2> QED BY <1>2, <2>0, <2>5 DEF Sigue, Bueno, Sano
<1>5. PICK D : D = [n \in 1 - 1 .. hasta |-> SUBSET I[n]]
  OBVIOUS
<1>6. /\ \A n \in 1 - 1 .. hasta : D[n] = SUBSET I[n]
      /\ D[1 - 1] = SUBSET I[1 - 1] /\ D[hasta] = SUBSET I[hasta]
      /\ 1 - 1 \in 1 - 1 .. hasta /\ hasta \in 1 - 1 .. hasta
  <2>1. 1 - 1 \in 1 - 1 .. hasta /\ hasta \in 1 - 1 .. hasta
    BY <1>0
  <2> QED BY <1>5, <2>1
<1>7. PICK F : F = [n \in 1 .. hasta |-> [S \in SUBSET I[n - 1] |-> Vuelta(S, n)]]
  OBVIOUS
<1>8. PICK t : Recorre(t, 1, hasta, {e}, F) /\ \A n \in 1 - 1 .. hasta : t[n] \in D[n]
  <2>1. {e} \in D[1 - 1]
    BY <1>3, <1>6
  <2>2. ASSUME NEW n \in 1 .. hasta, NEW S \in D[n - 1] PROVE F[n][S] \in D[n]
    <3>1. n - 1 \in 1 - 1 .. hasta /\ n \in 1 - 1 .. hasta
      BY <1>0
    <3>2. S \in SUBSET I[n - 1] /\ D[n] = SUBSET I[n]
      BY <1>6, <3>1
    <3>3. F[n][S] = Vuelta(S, n)
      BY <1>7, <3>2
    <3> QED BY <1>4, <3>2, <3>3
  <2>3. \A n \in 1 .. hasta : \A S \in D[n - 1] : F[n][S] \in D[n]
    BY <2>2
  <2> QED BY ONLY <1>0, <2>1, <2>3, HayVueltas
<1>9. t = [n \in 1 - 1 .. hasta |-> IF n = 1 - 1 THEN {e} ELSE Vuelta(t[n - 1], n)]
  <2>1. ASSUME NEW n \in 1 .. hasta PROVE F[n][t[n - 1]] = Vuelta(t[n - 1], n)
    <3>1. n - 1 \in 1 - 1 .. hasta
      BY <1>0
    <3>2. t[n - 1] \in SUBSET I[n - 1]
      BY <1>6, <1>8, <3>1
    <3> QED BY <1>7, <3>2
  <2>2. \A n \in 1 - 1 .. hasta : n # 1 - 1 => n \in 1 .. hasta
    BY <1>0
  <2> HIDE DEF Vuelta
  <2> QED BY <1>8, <2>1, <2>2, Zenon DEF Recorre
<1>10. PICK tras : tras = CHOOSE w : w = [n \in 1 - 1 .. hasta |->
                              IF n = 1 - 1 THEN {e} ELSE Vuelta(w[n - 1], n)]
  OBVIOUS
<1>11. s \in tras[hasta]
  BY <1>10 DEF SuspendePaginas, EnOrden, hasta
<1>12. tras = [n \in 1 - 1 .. hasta |-> IF n = 1 - 1 THEN {e} ELSE Vuelta(tras[n - 1], n)]
  <2> HIDE DEF Vuelta
  <2> QED BY <1>9, <1>10, Zenon
<1>13. tras[hasta] \in D[hasta]
  <2>1. tras[1 - 1] \in D[1 - 1]
    <3>1. tras[1 - 1] = {e}
      <4> HIDE DEF Vuelta
      <4> QED BY <1>6, <1>12, Zenon
    <3> QED BY <1>3, <1>6, <3>1
  <2>2. ASSUME NEW n \in 1 .. hasta, tras[n - 1] \in D[n - 1] PROVE tras[n] \in D[n]
    <3>1. n - 1 \in 1 - 1 .. hasta /\ n \in 1 - 1 .. hasta /\ n # 1 - 1
      BY <1>0
    <3>2. tras[n] = Vuelta(tras[n - 1], n)
      <4> HIDE DEF Vuelta
      <4> QED BY <1>12, <3>1, Zenon
    <3>3. tras[n - 1] \in SUBSET I[n - 1] /\ D[n] = SUBSET I[n]
      BY <1>6, <2>2, <3>1
    <3> QED BY <1>4, <3>2, <3>3
  <2> QED BY <1>0, <2>1, <2>2, VueltasEnD
<1>14. s \in I[hasta] /\ hasta \in 1 - 1 .. hasta
  BY <1>6, <1>11, <1>13
<1> QED BY <1>2, <1>14

\* Pages are added one after another; at times one is not.
LEMMA AgregarEs ==
    ASSUME NEW e, Bueno(e), NEW p \in Procesos, e.paginas[p] # << >>, NEW cantidad \in Nat,
           Len(e.paginas[p]) + cantidad <= MaxPaginas,
           NEW s \in agregarXPaginasPara(e, p, cantidad)
    PROVE  /\ Avanza(e, s, p) /\ Len(s.paginas[p]) >= Len(e.paginas[p])
           /\ s.intacta => Len(s.paginas[p]) = Len(e.paginas[p]) + cantidad
<1> DEFINE Vuelta(S, n) == UNION {AgregaPagina(v, p) : v \in S}
<1>0. e \in Estados /\ 1 \in Int /\ cantidad \in Int /\ 1 - 1 <= cantidad
  BY DEF Bueno, Sano
<1>1. PICK I : I = [n \in 1 - 1 .. cantidad |-> {v \in Estados :
                    /\ Avanza(e, v, p)
                    /\ Len(v.paginas[p]) >= Len(e.paginas[p])
                    /\ Len(v.paginas[p]) <= Len(e.paginas[p]) + n
                    /\ v.intacta => Len(v.paginas[p]) = Len(e.paginas[p]) + n}]
  OBVIOUS
<1>2. \A n \in 1 - 1 .. cantidad : I[n] = {v \in Estados :
                    /\ Avanza(e, v, p)
                    /\ Len(v.paginas[p]) >= Len(e.paginas[p])
                    /\ Len(v.paginas[p]) <= Len(e.paginas[p]) + n
                    /\ v.intacta => Len(v.paginas[p]) = Len(e.paginas[p]) + n}
  BY <1>1
<1>3. e \in I[1 - 1]
  <2>2. Sigue(e, e, p) /\ Conserva(e, e)
    BY SigueIgual
  <2>3. Avanza(e, e, p)
    BY <2>2, SigueAvanza
  <2>4. Len(e.paginas[p]) \in Nat
    BY <1>0, TablaDe
  <2> QED BY <1>0, <1>2, <2>3, <2>4
<1>4. ASSUME NEW n \in 1 .. cantidad, NEW v \in I[n - 1], NEW u \in AgregaPagina(v, p)
      PROVE  u \in I[n]
  <2>0. n - 1 \in 1 - 1 .. cantidad /\ n \in 1 - 1 .. cantidad
    BY <1>0
  <2>1. /\ Avanza(e, v, p) /\ Bueno(v) /\ v \in Estados
        /\ Len(v.paginas[p]) >= Len(e.paginas[p])
        /\ Len(v.paginas[p]) <= Len(e.paginas[p]) + (n - 1)
        /\ v.intacta => Len(v.paginas[p]) = Len(e.paginas[p]) + (n - 1)
    <3>1. PICK m : m = n - 1
      OBVIOUS
    <3>2. m \in 1 - 1 .. cantidad /\ v \in I[m]
      BY <2>0, <3>1
    <3>3. /\ v \in Estados /\ Avanza(e, v, p)
          /\ Len(v.paginas[p]) >= Len(e.paginas[p])
          /\ Len(v.paginas[p]) <= Len(e.paginas[p]) + m
          /\ v.intacta => Len(v.paginas[p]) = Len(e.paginas[p]) + m
      BY <1>2, <3>2
    <3> QED BY <3>1, <3>3 DEF Avanza, Mantiene
  <2>2. /\ e.paginas[p] \in Seq(Paginas) /\ v.paginas[p] \in Seq(Paginas)
        /\ Len(v.paginas[p]) \in Nat /\ Len(e.paginas[p]) \in Nat
    BY <1>0, <2>1, TablaDe
  <2>3. v.paginas[p] # << >> /\ Len(v.paginas[p]) < MaxPaginas
    <3>1. Len(e.paginas[p]) # 0 /\ MaxPaginas \in Nat
      BY <2>2, ConstantesValidas
    <3>2. v.paginas[p] # << >>
      BY <2>1, <2>2, <3>1
    <3> QED BY <2>1, <2>2, <3>1, <3>2
  <2>4. /\ Avanza(v, u, p)
        /\ Len(u.paginas[p]) = Len(v.paginas[p]) \/ Len(u.paginas[p]) = Len(v.paginas[p]) + 1
        /\ u.intacta => Len(u.paginas[p]) = Len(v.paginas[p]) + 1
    BY <2>1, <2>3, AgregaPaginaEs
  <2>5. Avanza(e, u, p) /\ u \in Estados
    BY <1>0, <2>1, <2>4, AvanzaLuego DEF Avanza, Mantiene, Bueno, Sano
  <2>6. Len(u.paginas[p]) >= Len(e.paginas[p]) /\ Len(u.paginas[p]) <= Len(e.paginas[p]) + n
    BY <2>1, <2>2, <2>4
  <2>7. u.intacta => Len(u.paginas[p]) = Len(e.paginas[p]) + n
    <3>1. u.intacta => v.intacta
      BY <2>4 DEF Avanza, Mantiene
    <3> QED BY <2>1, <2>2, <2>4, <3>1
  <2> QED BY <1>2, <2>0, <2>5, <2>6, <2>7
<1>5. PICK D : D = [n \in 1 - 1 .. cantidad |-> SUBSET I[n]]
  OBVIOUS
<1>6. /\ \A n \in 1 - 1 .. cantidad : D[n] = SUBSET I[n]
      /\ D[1 - 1] = SUBSET I[1 - 1] /\ D[cantidad] = SUBSET I[cantidad]
      /\ 1 - 1 \in 1 - 1 .. cantidad /\ cantidad \in 1 - 1 .. cantidad
  <2>1. 1 - 1 \in 1 - 1 .. cantidad /\ cantidad \in 1 - 1 .. cantidad
    BY <1>0
  <2> QED BY <1>5, <2>1
<1>7. PICK F : F = [n \in 1 .. cantidad |-> [S \in SUBSET I[n - 1] |-> Vuelta(S, n)]]
  OBVIOUS
<1>8. PICK t : Recorre(t, 1, cantidad, {e}, F) /\ \A n \in 1 - 1 .. cantidad : t[n] \in D[n]
  <2>1. {e} \in D[1 - 1]
    BY <1>3, <1>6
  <2>2. ASSUME NEW n \in 1 .. cantidad, NEW S \in D[n - 1] PROVE F[n][S] \in D[n]
    <3>1. n - 1 \in 1 - 1 .. cantidad /\ n \in 1 - 1 .. cantidad
      BY <1>0
    <3>2. S \in SUBSET I[n - 1] /\ D[n] = SUBSET I[n]
      BY <1>6, <3>1
    <3>3. F[n][S] = Vuelta(S, n)
      BY <1>7, <3>2
    <3> QED BY <1>4, <3>2, <3>3
  <2>3. \A n \in 1 .. cantidad : \A S \in D[n - 1] : F[n][S] \in D[n]
    BY <2>2
  <2> QED BY ONLY <1>0, <2>1, <2>3, HayVueltas
<1>9. t = [n \in 1 - 1 .. cantidad |-> IF n = 1 - 1 THEN {e} ELSE Vuelta(t[n - 1], n)]
  <2>1. ASSUME NEW n \in 1 .. cantidad PROVE F[n][t[n - 1]] = Vuelta(t[n - 1], n)
    <3>1. n - 1 \in 1 - 1 .. cantidad
      BY <1>0
    <3>2. t[n - 1] \in SUBSET I[n - 1]
      BY <1>6, <1>8, <3>1
    <3> QED BY <1>7, <3>2
  <2>2. \A n \in 1 - 1 .. cantidad : n # 1 - 1 => n \in 1 .. cantidad
    BY <1>0
  <2> HIDE DEF Vuelta
  <2> QED BY <1>8, <2>1, <2>2, Zenon DEF Recorre
<1>10. PICK tras : tras = CHOOSE w : w = [n \in 1 - 1 .. cantidad |->
                              IF n = 1 - 1 THEN {e} ELSE Vuelta(w[n - 1], n)]
  OBVIOUS
<1>11. s \in tras[cantidad]
  BY <1>10 DEF agregarXPaginasPara, EnOrden
<1>12. tras = [n \in 1 - 1 .. cantidad |-> IF n = 1 - 1 THEN {e} ELSE Vuelta(tras[n - 1], n)]
  <2> HIDE DEF Vuelta
  <2> QED BY <1>9, <1>10, Zenon
<1>13. tras[cantidad] \in D[cantidad]
  <2>1. tras[1 - 1] \in D[1 - 1]
    <3>1. tras[1 - 1] = {e}
      <4> HIDE DEF Vuelta
      <4> QED BY <1>6, <1>12, Zenon
    <3> QED BY <1>3, <1>6, <3>1
  <2>2. ASSUME NEW n \in 1 .. cantidad, tras[n - 1] \in D[n - 1] PROVE tras[n] \in D[n]
    <3>1. n - 1 \in 1 - 1 .. cantidad /\ n \in 1 - 1 .. cantidad /\ n # 1 - 1
      BY <1>0
    <3>2. tras[n] = Vuelta(tras[n - 1], n)
      <4> HIDE DEF Vuelta
      <4> QED BY <1>12, <3>1, Zenon
    <3>3. tras[n - 1] \in SUBSET I[n - 1] /\ D[n] = SUBSET I[n]
      BY <1>6, <2>2, <3>1
    <3> QED BY <1>4, <3>2, <3>3
  <2> QED BY <1>0, <2>1, <2>2, VueltasEnD
<1>14. s \in I[cantidad] /\ cantidad \in 1 - 1 .. cantidad
  BY <1>6, <1>11, <1>13
<1> QED BY <1>2, <1>14

\* Pages are taken out of the end of a table, but the first.
LEMMA DeletePaginasEs ==
    ASSUME NEW e, Bueno(e), NEW p \in Procesos, NEW cantidad \in Nat,
           cantidad < Len(e.paginas[p]), NEW s \in deletePaginas(e, p, cantidad)
    PROVE  Avanza(e, s, p) /\ Conserva(e, s) /\ Len(s.paginas[p]) = Len(e.paginas[p]) - cantidad
<1> DEFINE Vuelta(S, n) == UNION {{deletePagina(v, p)} : v \in S}
<1>0. e \in Estados /\ 1 \in Int /\ cantidad \in Int /\ 1 - 1 <= cantidad
  BY DEF Bueno, Sano
<1>1. PICK I : I = [n \in 1 - 1 .. cantidad |-> {v \in Estados :
                    /\ Avanza(e, v, p) /\ Conserva(e, v)
                    /\ Len(v.paginas[p]) = Len(e.paginas[p]) - n}]
  OBVIOUS
<1>2. \A n \in 1 - 1 .. cantidad : I[n] = {v \in Estados :
                    /\ Avanza(e, v, p) /\ Conserva(e, v)
                    /\ Len(v.paginas[p]) = Len(e.paginas[p]) - n}
  BY <1>1
<1>3. e \in I[1 - 1]
  <2>2. Sigue(e, e, p) /\ Conserva(e, e)
    BY SigueIgual
  <2>3. Avanza(e, e, p)
    BY <2>2, SigueAvanza
  <2>4. Len(e.paginas[p]) \in Nat
    BY <1>0, TablaDe
  <2> QED BY <1>0, <1>2, <2>2, <2>3, <2>4
<1>4. ASSUME NEW n \in 1 .. cantidad, NEW v \in I[n - 1], NEW u \in {deletePagina(v, p)}
      PROVE  u \in I[n]
  <2>0. n - 1 \in 1 - 1 .. cantidad /\ n \in 1 - 1 .. cantidad
    BY <1>0
  <2>1. Avanza(e, v, p) /\ Conserva(e, v) /\ Len(v.paginas[p]) = Len(e.paginas[p]) - (n - 1)
    BY <1>2, <2>0
  <2>2. Len(e.paginas[p]) \in Nat /\ Bueno(v)
    BY <1>0, <2>1, TablaDe DEF Avanza, Mantiene
  <2>3. Len(v.paginas[p]) > 1
    BY <2>1, <2>2
  <2>4. Avanza(v, u, p) /\ Conserva(v, u) /\ Len(u.paginas[p]) = Len(v.paginas[p]) - 1
    BY <2>2, <2>3, DeletePaginaEs
  <2>5. Avanza(e, u, p) /\ Conserva(e, u) /\ u \in Estados
    <3>1. Len(u.paginas[p]) <= Len(v.paginas[p])
      BY <2>1, <2>2, <2>4
    <3>2. Avanza(e, u, p) /\ (Todas(e) \subseteq Todas(v) \/ Todas(u) \subseteq Todas(v))
      BY <1>0, <2>1, <2>4, <3>1, AvanzaLuego
    <3>3. u.intacta => v.intacta
      BY <2>4 DEF Avanza, Mantiene
    <3>4. Conserva(e, u)
      BY <2>1, <2>4, <3>2, <3>3, ConservaLuego
    <3> QED BY <3>2, <3>4 DEF Avanza, Mantiene, Bueno, Sano
  <2>6. Len(u.paginas[p]) = Len(e.paginas[p]) - n
    BY <2>1, <2>2, <2>4
  <2> QED BY <1>2, <2>0, <2>5, <2>6
<1>5. PICK D : D = [n \in 1 - 1 .. cantidad |-> SUBSET I[n]]
  OBVIOUS
<1>6. /\ \A n \in 1 - 1 .. cantidad : D[n] = SUBSET I[n]
      /\ D[1 - 1] = SUBSET I[1 - 1] /\ D[cantidad] = SUBSET I[cantidad]
      /\ 1 - 1 \in 1 - 1 .. cantidad /\ cantidad \in 1 - 1 .. cantidad
  <2>1. 1 - 1 \in 1 - 1 .. cantidad /\ cantidad \in 1 - 1 .. cantidad
    BY <1>0
  <2> QED BY <1>5, <2>1
<1>7. PICK F : F = [n \in 1 .. cantidad |-> [S \in SUBSET I[n - 1] |-> Vuelta(S, n)]]
  OBVIOUS
<1>8. PICK t : Recorre(t, 1, cantidad, {e}, F) /\ \A n \in 1 - 1 .. cantidad : t[n] \in D[n]
  <2>1. {e} \in D[1 - 1]
    BY <1>3, <1>6
  <2>2. ASSUME NEW n \in 1 .. cantidad, NEW S \in D[n - 1] PROVE F[n][S] \in D[n]
    <3>1. n - 1 \in 1 - 1 .. cantidad /\ n \in 1 - 1 .. cantidad
      BY <1>0
    <3>2. S \in SUBSET I[n - 1] /\ D[n] = SUBSET I[n]
      BY <1>6, <3>1
    <3>3. F[n][S] = Vuelta(S, n)
      BY <1>7, <3>2
    <3> QED BY <1>4, <3>2, <3>3
  <2>3. \A n \in 1 .. cantidad : \A S \in D[n - 1] : F[n][S] \in D[n]
    BY <2>2
  <2> QED BY ONLY <1>0, <2>1, <2>3, HayVueltas
<1>9. t = [n \in 1 - 1 .. cantidad |-> IF n = 1 - 1 THEN {e} ELSE Vuelta(t[n - 1], n)]
  <2>1. ASSUME NEW n \in 1 .. cantidad PROVE F[n][t[n - 1]] = Vuelta(t[n - 1], n)
    <3>1. n - 1 \in 1 - 1 .. cantidad
      BY <1>0
    <3>2. t[n - 1] \in SUBSET I[n - 1]
      BY <1>6, <1>8, <3>1
    <3> QED BY <1>7, <3>2
  <2>2. \A n \in 1 - 1 .. cantidad : n # 1 - 1 => n \in 1 .. cantidad
    BY <1>0
  <2> HIDE DEF Vuelta
  <2> QED BY <1>8, <2>1, <2>2, Zenon DEF Recorre
<1>10. PICK tras : tras = CHOOSE w : w = [n \in 1 - 1 .. cantidad |->
                              IF n = 1 - 1 THEN {e} ELSE Vuelta(w[n - 1], n)]
  OBVIOUS
<1>11. s \in tras[cantidad]
  BY <1>10 DEF deletePaginas, EnOrden
<1>12. tras = [n \in 1 - 1 .. cantidad |-> IF n = 1 - 1 THEN {e} ELSE Vuelta(tras[n - 1], n)]
  <2> HIDE DEF Vuelta
  <2> QED BY <1>9, <1>10, Zenon
<1>13. tras[cantidad] \in D[cantidad]
  <2>1. tras[1 - 1] \in D[1 - 1]
    <3>1. tras[1 - 1] = {e}
      <4> HIDE DEF Vuelta
      <4> QED BY <1>6, <1>12, Zenon
    <3> QED BY <1>3, <1>6, <3>1
  <2>2. ASSUME NEW n \in 1 .. cantidad, tras[n - 1] \in D[n - 1] PROVE tras[n] \in D[n]
    <3>1. n - 1 \in 1 - 1 .. cantidad /\ n \in 1 - 1 .. cantidad /\ n # 1 - 1
      BY <1>0
    <3>2. tras[n] = Vuelta(tras[n - 1], n)
      <4> HIDE DEF Vuelta
      <4> QED BY <1>12, <3>1, Zenon
    <3>3. tras[n - 1] \in SUBSET I[n - 1] /\ D[n] = SUBSET I[n]
      BY <1>6, <2>2, <3>1
    <3> QED BY <1>4, <3>2, <3>3
  <2> QED BY <1>0, <2>1, <2>2, VueltasEnD
<1>14. s \in I[cantidad] /\ cantidad \in 1 - 1 .. cantidad
  BY <1>6, <1>11, <1>13
<1> QED BY <1>2, <1>14

\* The pages of a process are taken out one after another, its table first.
LEMMA OlvidaEs ==
    ASSUME NEW e, Bueno(e), NEW p \in Procesos, NEW s \in OlvidaTodas(e, p)
    PROVE  Avanza(e, s, p) /\ Conserva(e, s) /\ s.paginas[p] = << >>
<1> DEFINE hasta == Len(e.paginas[p])
           vaciada == ConTabla(e, p, << >>)
           Vuelta(S, n) == UNION {{Olvida(v, p, n)} : v \in S}
<1>0. e \in Estados /\ 1 \in Int /\ hasta \in Int /\ 1 - 1 <= hasta
  BY TablaDe DEF Bueno, Sano
<1> HIDE DEF hasta, vaciada
<1>a. PICK vacia : vacia = << >>
  OBVIOUS
<1>b. PICK T : T = [e.paginas EXCEPT ![p] = vacia]
  OBVIOUS
<1>1. PICK I : I = [n \in 1 - 1 .. hasta |-> {v \in Estados :
                    /\ v.paginas = T /\ v.tlb = e.tlb /\ v.intacta = e.intacta
                    /\ MismosDatos(e, v) /\ IsInjective(v.lRU)
                    /\ Range(v.lRU) = {q \in Todas(e) : q[1] = p => q[2] > n}}]
  OBVIOUS
<1>2. \A n \in 1 - 1 .. hasta : I[n] = {v \in Estados :
                    /\ v.paginas = T /\ v.tlb = e.tlb /\ v.intacta = e.intacta
                    /\ MismosDatos(e, v) /\ IsInjective(v.lRU)
                    /\ Range(v.lRU) = {q \in Todas(e) : q[1] = p => q[2] > n}}
  BY <1>1
<1>3. vaciada \in I[1 - 1]
  <2>1. vacia \in Seq(Paginas) /\ vaciada = ConTabla(e, p, vacia)
    BY <1>a DEF vaciada
  <2>2. /\ vaciada \in Estados /\ vaciada.paginas = T
        /\ vaciada.lRU = e.lRU /\ vaciada.tlb = e.tlb /\ vaciada.intacta = e.intacta
        /\ MismosDatos(e, vaciada)
    BY <1>0, <1>b, <2>1, ConTablaEs
  <2>3. {q \in Todas(e) : q[1] = p => q[2] > 1 - 1} = Todas(e)
    <3>1. \A q \in Todas(e) : q[2] > 1 - 1
      BY DEF Todas, Numeros
    <3> QED BY <3>1
  <2>4. IsInjective(e.lRU) /\ Range(e.lRU) = Todas(e)
    BY DEF Bueno, Sano, Ordenado
  <2>5. 1 - 1 \in 1 - 1 .. hasta
    BY <1>0
  <2> QED BY <1>2, <2>2, <2>3, <2>4, <2>5
<1>4. ASSUME NEW n \in 1 .. hasta, NEW v \in I[n - 1], NEW u \in {Olvida(v, p, n)}
      PROVE  u \in I[n]
  <2>0. n - 1 \in 1 - 1 .. hasta /\ n \in 1 - 1 .. hasta
    BY <1>0
  <2>1. /\ v \in Estados /\ v.paginas = T /\ v.tlb = e.tlb /\ v.intacta = e.intacta
        /\ MismosDatos(e, v) /\ IsInjective(v.lRU)
        /\ Range(v.lRU) = {k \in Todas(e) : k[1] = p => k[2] > n - 1}
    BY <1>2, <2>0
  <2>2. PICK S, q : S = Procesos \X Numeros /\ q = <<p, n>>
    OBVIOUS
  <2>3. n \in 1 .. Len(e.paginas[p]) /\ Len(e.paginas[p]) <= MaxPaginas
    BY <1>0 DEF Bueno, Sano, Cortas, hasta
  <2>4. q \in Todas(e)
    BY <1>0, <2>2, <2>3, ConstantesValidas, TablaDe DEF Todas, Numeros
  <2>5. q \in Range(v.lRU) /\ v.lRU \in Seq(S)
    <3>1. q[1] = p /\ q[2] = n /\ n > n - 1
      BY <1>0, <2>2
    <3>2. q \in Range(v.lRU)
      BY <2>1, <2>4, <3>1
    <3>3. v.lRU \in Seq(S)
      BY <2>1, <2>2 DEF Estados
    <3> QED BY <3>2, <3>3
  <2>6. PICK o : o = RemoveFirst(v.lRU, q)
    OBVIOUS
  <2>7. o \in Seq(S) /\ IsInjective(o) /\ Range(o) = Range(v.lRU) \ {q}
    BY ONLY <2>1, <2>5, <2>6, QuitaInyectiva
  <2>8. Range(o) = {k \in Todas(e) : k[1] = p => k[2] > n}
    <3>1. ASSUME NEW k \in Todas(e)
          PROVE  (k[1] = p => k[2] > n) <=> (k[1] = p => k[2] > n - 1) /\ k # q
      <4>1. k = <<k[1], k[2]>> /\ k[2] \in Nat /\ n \in Nat
        BY <2>3 DEF Todas, Numeros
      <4>2. k = q <=> k[1] = p /\ k[2] = n
        BY <2>2, <4>1
      <4> QED BY <4>1, <4>2
    <3> QED BY <2>1, <2>7, <3>1
  <2>9. u = ConLRU(v, o)
    BY <2>2, <2>6 DEF Olvida
  <2>10. /\ u \in Estados /\ u.lRU = o /\ u.paginas = v.paginas
         /\ u.tlb = v.tlb /\ u.intacta = v.intacta /\ MismosDatos(v, u)
    BY <2>1, <2>2, <2>7, <2>9, ConLRUEs
  <2> QED BY <1>2, <2>0, <2>1, <2>7, <2>8, <2>10 DEF MismosDatos
<1>5. PICK D : D = [n \in 1 - 1 .. hasta |-> SUBSET I[n]]
  OBVIOUS
<1>6. /\ \A n \in 1 - 1 .. hasta : D[n] = SUBSET I[n]
      /\ D[1 - 1] = SUBSET I[1 - 1] /\ D[hasta] = SUBSET I[hasta]
      /\ 1 - 1 \in 1 - 1 .. hasta /\ hasta \in 1 - 1 .. hasta
  <2>1. 1 - 1 \in 1 - 1 .. hasta /\ hasta \in 1 - 1 .. hasta
    BY <1>0
  <2> QED BY <1>5, <2>1
<1>7. PICK F : F = [n \in 1 .. hasta |-> [S \in SUBSET I[n - 1] |-> Vuelta(S, n)]]
  OBVIOUS
<1>8. PICK t : Recorre(t, 1, hasta, {vaciada}, F) /\ \A n \in 1 - 1 .. hasta : t[n] \in D[n]
  <2>1. {vaciada} \in D[1 - 1]
    BY <1>3, <1>6
  <2>2. ASSUME NEW n \in 1 .. hasta, NEW S \in D[n - 1] PROVE F[n][S] \in D[n]
    <3>1. n - 1 \in 1 - 1 .. hasta /\ n \in 1 - 1 .. hasta
      BY <1>0
    <3>2. S \in SUBSET I[n - 1] /\ D[n] = SUBSET I[n]
      BY <1>6, <3>1
    <3>3. F[n][S] = Vuelta(S, n)
      BY <1>7, <3>2
    <3> QED BY <1>4, <3>2, <3>3
  <2>3. \A n \in 1 .. hasta : \A S \in D[n - 1] : F[n][S] \in D[n]
    BY <2>2
  <2> QED BY ONLY <1>0, <2>1, <2>3, HayVueltas
<1>9. t = [n \in 1 - 1 .. hasta |-> IF n = 1 - 1 THEN {vaciada} ELSE Vuelta(t[n - 1], n)]
  <2>1. ASSUME NEW n \in 1 .. hasta PROVE F[n][t[n - 1]] = Vuelta(t[n - 1], n)
    <3>1. n - 1 \in 1 - 1 .. hasta
      BY <1>0
    <3>2. t[n - 1] \in SUBSET I[n - 1]
      BY <1>6, <1>8, <3>1
    <3> QED BY <1>7, <3>2
  <2>2. \A n \in 1 - 1 .. hasta : n # 1 - 1 => n \in 1 .. hasta
    BY <1>0
  <2> HIDE DEF Vuelta
  <2> QED BY <1>8, <2>1, <2>2, Zenon DEF Recorre
<1>10. PICK tras : tras = CHOOSE w : w = [n \in 1 - 1 .. hasta |->
                              IF n = 1 - 1 THEN {vaciada} ELSE Vuelta(w[n - 1], n)]
  OBVIOUS
<1>11. s \in tras[hasta]
  BY <1>10 DEF OlvidaTodas, EnOrden, hasta, vaciada
<1>12. tras = [n \in 1 - 1 .. hasta |-> IF n = 1 - 1 THEN {vaciada} ELSE Vuelta(tras[n - 1], n)]
  <2> HIDE DEF Vuelta
  <2> QED BY <1>9, <1>10, Zenon
<1>13. tras[hasta] \in D[hasta]
  <2>1. tras[1 - 1] \in D[1 - 1]
    <3>1. tras[1 - 1] = {vaciada}
      <4> HIDE DEF Vuelta
      <4> QED BY <1>6, <1>12, Zenon
    <3> QED BY <1>3, <1>6, <3>1
  <2>2. ASSUME NEW n \in 1 .. hasta, tras[n - 1] \in D[n - 1] PROVE tras[n] \in D[n]
    <3>1. n - 1 \in 1 - 1 .. hasta /\ n \in 1 - 1 .. hasta /\ n # 1 - 1
      BY <1>0
    <3>2. tras[n] = Vuelta(tras[n - 1], n)
      <4> HIDE DEF Vuelta
      <4> QED BY <1>12, <3>1, Zenon
    <3>3. tras[n - 1] \in SUBSET I[n - 1] /\ D[n] = SUBSET I[n]
      BY <1>6, <2>2, <3>1
    <3> QED BY <1>4, <3>2, <3>3
  <2> QED BY <1>0, <2>1, <2>2, VueltasEnD
<1>14. s \in I[hasta] /\ hasta \in 1 - 1 .. hasta
  BY <1>6, <1>11, <1>13
<1>15. /\ s \in Estados /\ s.paginas = T
       /\ s.tlb = e.tlb /\ s.intacta = e.intacta /\ MismosDatos(e, s)
       /\ IsInjective(s.lRU) /\ Range(s.lRU) = {q \in Todas(e) : q[1] = p => q[2] > hasta}
  BY <1>2, <1>14
<1>16. e.paginas \in [Procesos -> Seq(Paginas)]
  BY <1>0 DEF Estados
<1>17. s.paginas[p] = << >> /\ \A r \in Procesos \ {p} : s.paginas[r] = e.paginas[r]
  BY <1>15, <1>16, <1>a, <1>b
<1>18. Todas(s) = {q \in Todas(e) : q[1] = p => q[2] > hasta}
  <2>1. ASSUME NEW q \in Procesos \X Numeros
        PROVE  q \in Todas(s) <=> q \in Todas(e) /\ (q[1] = p => q[2] > hasta)
    <3>1. q[1] \in Procesos /\ q[2] \in Nat
      BY DEF Numeros
    <3>2. CASE q[1] = p
      <4>1. q \notin Todas(s)
        BY <1>17, <3>2 DEF Todas
      <4>2. q \in Todas(e) => ~(q[2] > hasta)
        BY <1>0, <3>1, <3>2 DEF Todas, hasta
      <4> QED BY <3>2, <4>1, <4>2
    <3>3. CASE q[1] # p
      BY <1>17, <3>1, <3>3 DEF Todas
    <3> QED BY <3>2, <3>3
  <2>2. Todas(s) \subseteq Procesos \X Numeros /\ Todas(e) \subseteq Procesos \X Numeros
    BY DEF Todas
  <2> QED BY <2>1, <2>2
<1>19. \A q \in Todas(s) : q \in Todas(e) /\ q[1] # p /\ LaPagina(s, q) = LaPagina(e, q)
  <2> SUFFICES ASSUME NEW q \in Todas(s)
               PROVE  q \in Todas(e) /\ q[1] # p /\ LaPagina(s, q) = LaPagina(e, q)
    OBVIOUS
  <2>1. q[1] # p
    BY <1>17 DEF Todas
  <2> QED BY <1>17, <1>18, <2>1 DEF Todas, LaPagina
<1>20. Sano(s)
  <2>1. TLBUnica(s)
    BY <1>15 DEF Bueno, Sano, TLBUnica
  <2>2. Cortas(s)
    BY <1>17, ConstantesValidas DEF Bueno, Sano, Cortas
  <2>3. SinCompartir(s)
    BY <1>19 DEF Bueno, Sano, SinCompartir
  <2>4. Ordenado(s)
    BY <1>15, <1>18 DEF Ordenado
  <2> QED BY <1>15, <2>1, <2>2, <2>3, <2>4 DEF Sano
<1>21. UnaPresente(e) => UnaPresente(s)
  BY <1>19 DEF UnaPresente, Presente, LaPagina
<1>22. TLBCierta(e) => TLBCierta(s)
  <2> SUFFICES ASSUME TLBCierta(e), NEW x \in DeLaTLB(s), s.paginas[x.pid] # << >>
               PROVE  /\ <<x.pid, x.pagina>> \in Todas(s)
                      /\ s.paginas[x.pid][x.pagina] = Pagina(x.frame)
    BY DEF TLBCierta
  <2>1. x \in DeLaTLB(e) /\ x.pid \in Procesos
    BY <1>0, <1>15, EntradaEs DEF DeLaTLB, Entradas
  <2>2. x.pid # p /\ s.paginas[x.pid] = e.paginas[x.pid]
    BY <1>17, <2>1
  <2>3. <<x.pid, x.pagina>> \in Todas(e) /\ e.paginas[x.pid][x.pagina] = Pagina(x.frame)
    BY <2>1, <2>2 DEF TLBCierta
  <2>4. <<x.pid, x.pagina>> \in Todas(s)
    BY <1>18, <2>2, <2>3
  <2> QED BY <2>2, <2>3, <2>4
<1>23. Conserva(e, s)
  <2> SUFFICES ASSUME NEW q \in Todas(s) PROVE Cont(s, q) = Cont(e, q)
    BY DEF Conserva
  <2>1. LaPagina(s, q) = LaPagina(e, q)
    BY <1>19
  <2> QED BY <1>15, <2>1 DEF MismosDatos, Cont, Presente, LaPagina, Bytes, TraeDeSwamp
<1>24. Cambia(e, s, p)
  BY <1>23, ConservaCambia
<1>25. Mantiene(e, s, p)
  BY <1>15, <1>17, <1>20, <1>21, <1>22 DEF Bueno, Mantiene, DeLaTLB
<1> QED BY <1>17, <1>23, <1>24, <1>25 DEF Avanza

-----------------------------------------------------------------------------
(* The inductive invariant.                                                *)

Hilos ==
    [pc : {"no", "libre", "aloca", "encadena", "prueba", "anterior", "une", "borra", "fin"},
     pagina : 0 .. MaxPaginas]
Respuestas == {Nada} \cup [proceso : Procesos, pagina : Numeros, contenido : Valores]

\* A process that did not begin has no table and no entry in the TLB, one that did and did
\* not end has pages, and the page a call remembers is still one of the process: only that
\* call takes pages out, and suspensions do not.
EnCurso(p) ==
    /\ hilo[p].pc = "no" => paginas[p] = << >> /\ \A t \in DeLaTLB(Ahora) : t.pid # p
    /\ hilo[p].pc \notin {"no", "fin"} => paginas[p] # << >>
    /\ hilo[p].pc \in {"prueba", "anterior", "une"} => hilo[p].pagina \in 1 .. Len(paginas[p])

IInv ==
    /\ Bueno(Ahora)
    /\ fuera \in [Procesos -> BOOLEAN] /\ hilo \in [Procesos -> Hilos]
    /\ respuesta \in Respuestas
    /\ \A p \in Procesos : EnCurso(p)

LEMMA QuedaEs ==
    ASSUME NEW e, Bueno(e), Queda(e)
    PROVE  Ahora' = e /\ paginas' = e.paginas /\ intacta' = e.intacta
<1>1. e = [paginas |-> e.paginas, lRU |-> e.lRU, memoria |-> e.memoria, tlb |-> e.tlb,
           swap |-> e.swap, degenerar |-> e.degenerar, intacta |-> e.intacta, viva |-> e.viva]
  BY DEF Bueno, Sano, Estados
<1> QED BY <1>1 DEF Queda, Ahora

\* A step of p that leaves its table as its call needs it.
LEMMA PasoEs ==
    ASSUME IInv, NEW p \in Procesos, NEW e, Mantiene(Ahora, e, p), Queda(e),
           NEW h \in Hilos, hilo' = [hilo EXCEPT ![p] = h],
           fuera' \in [Procesos -> BOOLEAN], respuesta' \in Respuestas,
           h.pc # "no", h.pc # "fin" => e.paginas[p] # << >>,
           h.pc \in {"prueba", "anterior", "une"} => h.pagina \in 1 .. Len(e.paginas[p])
    PROVE  IInv'
<1>1. Bueno(e) /\ e \in Estados /\ Ahora \in Estados
  BY DEF Mantiene, Bueno, Sano, IInv
<1>2. Ahora' = e /\ paginas' = e.paginas
  BY <1>1, QuedaEs
<1>3. hilo' \in [Procesos -> Hilos] /\ hilo'[p] = h
  BY DEF IInv
<1>4. ASSUME NEW q \in Procesos PROVE EnCurso(q)'
  <2>1. CASE q = p
    BY <1>2, <1>3, <2>1 DEF EnCurso
  <2>2. CASE q # p
    <3>1. hilo'[q] = hilo[q] /\ EnCurso(q)
      BY <2>2 DEF IInv
    <3>2. /\ Ahora.paginas[q] = paginas[q] /\ Len(e.paginas[q]) = Len(paginas[q])
          /\ \A t \in DeLaTLB(e) : t.pid = q => t \in DeLaTLB(Ahora)
      BY <2>2 DEF Mantiene, Ahora
    <3>3. e.paginas[q] \in Seq(Paginas) /\ paginas[q] \in Seq(Paginas)
      BY <1>1, <3>2, TablaDe
    <3>4. paginas[q] = << >> <=> e.paginas[q] = << >>
      BY <3>2, <3>3
    <3> QED BY <1>2, <3>1, <3>2, <3>4 DEF EnCurso
  <2> QED BY <2>1, <2>2
<1> QED BY <1>1, <1>2, <1>3, <1>4 DEF IInv

\* The usual step: a call that goes on with tables of the same sizes.
LEMMA PasoQueSigue ==
    ASSUME IInv, NEW p \in Procesos, NEW e, Mantiene(Ahora, e, p), Queda(e),
           Len(e.paginas[p]) = Len(paginas[p]),
           NEW h \in Hilos, hilo' = [hilo EXCEPT ![p] = h],
           fuera' \in [Procesos -> BOOLEAN], respuesta' \in Respuestas,
           hilo[p].pc \notin {"no", "fin"}, h.pc \notin {"no", "fin"},
           h.pc \in {"prueba", "anterior", "une"} => h.pagina \in 1 .. Len(paginas[p])
    PROVE  IInv'
<1>1. e.paginas[p] \in Seq(Paginas) /\ Ahora.paginas[p] \in Seq(Paginas) /\ Ahora.paginas = paginas
  BY TablaDe DEF Mantiene, Bueno, Sano, IInv, Ahora
<1>2. e.paginas[p] # << >>
  <2>1. paginas[p] # << >>
    BY DEF IInv, EnCurso
  <2> QED BY <1>1, <2>1
<1> QED BY <1>2, PasoEs

\* Nothing of the tables changes but data.
LEMMA DatosSiguen ==
    ASSUME IInv, NEW p \in Procesos, NEW e, SoloDatos(Ahora, e)
    PROVE  Mantiene(Ahora, e, p) /\ e.paginas = paginas
BY SoloDatosBueno DEF IInv, SoloDatos, Ahora

-----------------------------------------------------------------------------
(* The pages as a carpincho sees them, and the steps it may see.           *)

Tabla(e, p) == [g \in 1 .. Len(e.paginas[p]) |-> Cont(e, <<p, g>>)]

\* The step is one of MemoriaVirtual.
Cumple == Fiel => [Virtual!Next]_<<Memoria, respuesta, intacta>>

LEMMA EsPagina ==
    ASSUME NEW e, Bueno(e), NEW p \in Procesos, NEW g \in 1 .. Len(e.paginas[p])
    PROVE  <<p, g>> \in Todas(e) /\ g \in Numeros
BY TablaDe, ConstantesValidas DEF Bueno, Sano, Cortas, Todas, Numeros

LEMMA MemoriaEs ==
    ASSUME IInv
    PROVE  \A p \in Procesos :
              Memoria[p] = IF hilo[p].pc = "borra" THEN << >> ELSE Tabla(Ahora, p)
<1>1. Ahora.paginas = paginas /\ \A p \in Procesos : DOMAIN paginas[p] = 1 .. Len(paginas[p])
  <2>1. Ahora.paginas = paginas /\ Ahora \in Estados
    BY DEF IInv, Bueno, Sano, Ahora
  <2> QED BY <2>1, TablaDe
<1>2. \A p \in Procesos : \A g : Contenido(p, g) = Cont(Ahora, <<p, g>>)
  BY <1>1 DEF Contenido, Cont, Presente, LaPagina
<1>3. ASSUME NEW p \in Procesos
      PROVE  Memoria[p] = IF hilo[p].pc = "borra" THEN << >> ELSE Tabla(Ahora, p)
  <2>1. Memoria[p] = IF hilo[p].pc = "borra" THEN << >>
                      ELSE [g \in DOMAIN paginas[p] |-> Contenido(p, g)]
    BY DEF Memoria, Contenido
  <2> QED BY <1>1, <1>2, <2>1 DEF Tabla
<1> QED BY <1>3

LEMMA MemoriaLuego ==
    ASSUME NEW e, Bueno(e), Queda(e)
    PROVE  \A p \in Procesos :
              Memoria'[p] = IF hilo'[p].pc = "borra" THEN << >> ELSE Tabla(e, p)
<1>1. /\ Ahora' = e /\ paginas' = e.paginas
      /\ \A p \in Procesos : DOMAIN e.paginas[p] = 1 .. Len(e.paginas[p])
  BY QuedaEs, TablaDe DEF Bueno, Sano
<1>2. \A p \in Procesos : \A g : Contenido(p, g)' = Cont(e, <<p, g>>)
  BY <1>1 DEF Contenido, Cont, Presente, LaPagina
<1>3. ASSUME NEW p \in Procesos
      PROVE  Memoria'[p] = IF hilo'[p].pc = "borra" THEN << >> ELSE Tabla(e, p)
  <2>1. Memoria'[p] = IF hilo'[p].pc = "borra" THEN << >>
                      ELSE [g \in DOMAIN paginas'[p] |-> Contenido(p, g)']
    BY DEF Memoria, Contenido
  <2> QED BY <1>1, <1>2, <2>1 DEF Tabla
<1> QED BY <1>3

LEMMA MismaMemoria ==
    ASSUME \A p \in Procesos : Memoria'[p] = Memoria[p]
    PROVE  Memoria' = Memoria
<1>1. PICK m, n : m = Memoria /\ n = Memoria'
  OBVIOUS
<1>2. m = [p \in Procesos |-> m[p]]
  BY <1>1 DEF Memoria, Contenido
<1>3. n = [p \in Procesos |-> n[p]]
  BY <1>1 DEF Memoria, Contenido
<1> QED BY <1>1, <1>2, <1>3

\* The pages of another process hold what they did.
LEMMA AjenasIguales ==
    ASSUME IInv, NEW p \in Procesos, NEW e, Mantiene(Ahora, e, p), Queda(e),
           NEW h, hilo' = [hilo EXCEPT ![p] = h],
           \A q \in Todas(Ahora) \cap Todas(e) : q[1] # p => Cont(e, q) = Cont(Ahora, q)
    PROVE  \A q \in Procesos \ {p} : Memoria'[q] = Memoria[q]
<1>1. Bueno(e) /\ Bueno(Ahora)
  BY DEF Mantiene, IInv
<1>2. ASSUME NEW q \in Procesos \ {p} PROVE Memoria'[q] = Memoria[q]
  <2>1. hilo'[q] = hilo[q]
    BY DEF IInv
  <2>2. PICK L : L = Len(Ahora.paginas[q]) /\ L = Len(e.paginas[q])
    BY DEF Mantiene
  <2>3. ASSUME NEW g \in 1 .. L PROVE Cont(e, <<q, g>>) = Cont(Ahora, <<q, g>>)
    <3>1. PICK r : r = <<q, g>>
      OBVIOUS
    <3>2. r[1] = q /\ r \in Todas(Ahora) /\ r \in Todas(e)
      BY <1>1, <2>2, <3>1, EsPagina
    <3> QED BY <3>1, <3>2
  <2>4. Tabla(e, q) = Tabla(Ahora, q)
    BY <2>2, <2>3 DEF Tabla
  <2> QED BY <1>1, <2>1, <2>4, MemoriaEs, MemoriaLuego
<1> QED BY <1>2

\* A page lost ends the promise.
LEMMA PierdeCumple ==
    ASSUME ~intacta'
    PROVE  Cumple
BY DEF Cumple, Virtual!Next

\* A step that nobody sees.
LEMMA NadaCumple ==
    ASSUME IInv, intacta' => intacta, respuesta' = Nada, Fiel /\ intacta' => Memoria' = Memoria
    PROVE  Cumple
<1>1. CASE ~intacta'
  BY <1>1, PierdeCumple
<1>2. CASE intacta'
  BY <1>2 DEF Cumple, Virtual!Next
<1> QED BY <1>1, <1>2

\* A step that changes the pages of one process as its call may.
LEMMA CambioCumple ==
    ASSUME IInv, NEW p \in Procesos, NEW e, Mantiene(Ahora, e, p), Queda(e),
           NEW h, hilo' = [hilo EXCEPT ![p] = h], respuesta' = Nada,
           Fiel /\ e.intacta =>
               /\ \A q \in Todas(Ahora) \cap Todas(e) : q[1] # p => Cont(e, q) = Cont(Ahora, q)
               /\ \/ Virtual!Inicializa(Memoria[p], Memoria'[p])
                  \/ Virtual!Escribe(Memoria[p], Memoria'[p])
                  \/ Virtual!Crece(Memoria[p], Memoria'[p])
                  \/ Virtual!Quita(Memoria[p], Memoria'[p])
    PROVE  Cumple
<1>1. intacta' = e.intacta /\ (e.intacta => intacta)
  BY QuedaEs DEF Mantiene, Ahora
<1>2. CASE ~e.intacta
  BY <1>1, <1>2, PierdeCumple
<1>3. CASE e.intacta /\ Fiel
  <2>1. \A q \in Procesos \ {p} : Memoria'[q] = Memoria[q]
    BY <1>3, AjenasIguales
  <2>2. Virtual!Cambia(p, Memoria[p], Memoria'[p])
    BY <1>3, <2>1 DEF Virtual!Cambia
  <2> QED BY <1>1, <1>3, <2>2 DEF Cumple, Virtual!Next
<1>4. CASE ~Fiel
  BY <1>4 DEF Cumple
<1> QED BY <1>2, <1>3, <1>4

LEMMA TablaEs ==
    ASSUME NEW e, Bueno(e), NEW p \in Procesos
    PROVE  /\ Tabla(e, p) \in Seq(Valores) /\ DOMAIN Tabla(e, p) = 1 .. Len(e.paginas[p])
           /\ Len(Tabla(e, p)) = Len(e.paginas[p]) /\ Len(e.paginas[p]) \in Nat
           /\ Len(e.paginas[p]) <= MaxPaginas
           /\ \A g \in 1 .. Len(e.paginas[p]) : Tabla(e, p)[g] = Cont(e, <<p, g>>)
<1>1. PICK L \in Nat : L = Len(e.paginas[p])
  BY TablaDe DEF Bueno, Sano
<1>2. ASSUME NEW g \in 1 .. L PROVE Cont(e, <<p, g>>) \in Valores
  <2>1. g \in Numeros /\ e \in Estados
    BY <1>1, EsPagina DEF Bueno, Sano
  <2> QED BY <2>1, SonValores DEF Cont
<1>3. Tabla(e, p) = [g \in 1 .. L |-> Cont(e, <<p, g>>)]
  BY <1>1 DEF Tabla
<1>4. Tabla(e, p) \in Seq(Valores) /\ Len(Tabla(e, p)) = L
  BY <1>2, <1>3
<1>5. L <= MaxPaginas
  BY <1>1 DEF Bueno, Sano, Cortas
<1> QED BY <1>1, <1>3, <1>4, <1>5

\* What the pages of a table may hold after its process wrote in them.
LEMMA CambiaTabla ==
    ASSUME NEW e, Bueno(e), NEW s, Bueno(s), NEW p \in Procesos,
           Fiel, s.intacta, Cambia(e, s, p),
           NEW g, g \in 1 .. Len(e.paginas[p]), g \in 1 .. Len(s.paginas[p])
    PROVE  Tabla(s, p)[g] \in {Tabla(e, p)[g]} \cup Contenidos
<1>1. PICK q : q = <<p, g>>
  OBVIOUS
<1>2. q \in Todas(e) \cap Todas(s)
  BY <1>1, EsPagina
<1>3. Cont(s, q) \in {Cont(e, q)} \cup Contenidos
  BY <1>2 DEF Cambia
<1> QED BY <1>1, <1>3, TablaEs

LEMMA EscribeVirtual ==
    ASSUME NEW e, Bueno(e), NEW s, Bueno(s), NEW p \in Procesos,
           Fiel, s.intacta, Cambia(e, s, p), Len(s.paginas[p]) = Len(e.paginas[p])
    PROVE  Virtual!Escribe(Tabla(e, p), Tabla(s, p))
<1>1. DOMAIN Tabla(e, p) = DOMAIN Tabla(s, p)
  BY TablaEs
<1>2. ASSUME NEW g \in DOMAIN Tabla(e, p)
      PROVE  Tabla(s, p)[g] \in {Tabla(e, p)[g]} \cup Contenidos
  <2>1. g \in 1 .. Len(e.paginas[p]) /\ g \in 1 .. Len(s.paginas[p])
    BY TablaEs
  <2> QED BY <2>1, CambiaTabla
<1> QED BY <1>1, <1>2 DEF Virtual!Escribe

LEMMA CreceVirtual ==
    ASSUME NEW e, Bueno(e), NEW s, Bueno(s), NEW p \in Procesos,
           Fiel, s.intacta, Cambia(e, s, p),
           0 < Len(e.paginas[p]), Len(e.paginas[p]) < Len(s.paginas[p])
    PROVE  Virtual!Crece(Tabla(e, p), Tabla(s, p))
<1>1. ASSUME NEW g \in DOMAIN Tabla(e, p)
      PROVE  Tabla(s, p)[g] \in {Tabla(e, p)[g]} \cup Contenidos
  <2>1. g \in 1 .. Len(e.paginas[p]) /\ g \in 1 .. Len(s.paginas[p])
    BY TablaEs
  <2> QED BY <2>1, CambiaTabla
<1>2. /\ Len(Tabla(e, p)) < Len(Tabla(s, p)) /\ Len(Tabla(s, p)) <= MaxPaginas
      /\ 0 < Len(Tabla(e, p))
  BY TablaEs
<1>3. Tabla(e, p) # << >>
  <2>1. PICK t : t = Tabla(e, p)
    OBVIOUS
  <2>2. t # << >>
    BY <1>2, <2>1
  <2> QED BY <2>1, <2>2
<1> QED BY <1>1, <1>2, <1>3 DEF Virtual!Crece

LEMMA QuitaVirtual ==
    ASSUME NEW e, Bueno(e), NEW s, Bueno(s), NEW p \in Procesos,
           Fiel, s.intacta, Conserva(e, s), Len(s.paginas[p]) < Len(e.paginas[p])
    PROVE  Virtual!Quita(Tabla(e, p), Tabla(s, p))
<1>1. PICK a, d : a = Tabla(e, p) /\ d = Tabla(s, p)
  OBVIOUS
<1>2. /\ a \in Seq(Valores) /\ d \in Seq(Valores)
      /\ Len(a) = Len(e.paginas[p]) /\ Len(d) = Len(s.paginas[p])
  BY <1>1, TablaEs
<1>3. ASSUME NEW g \in 1 .. Len(d) PROVE d[g] = a[g]
  <2>1. PICK q : q = <<p, g>>
    OBVIOUS
  <2>2. g \in 1 .. Len(s.paginas[p]) /\ g \in 1 .. Len(e.paginas[p])
    BY <1>2, TablaEs
  <2>3. q \in Todas(e) \cap Todas(s)
    BY <2>1, <2>2, EsPagina
  <2>4. Cont(s, q) = Cont(e, q)
    BY <2>3 DEF Conserva
  <2> QED BY <1>1, <2>1, <2>2, <2>4, TablaEs
<1>4. PICK n \in Nat : n = Len(d) /\ n < Len(a)
  BY <1>2, TablaEs
<1>5. n \in 0 .. Len(a) - 1 /\ d = SubSeq(a, 1, n)
  <2>1. n \in 0 .. Len(a) - 1
    BY <1>2, <1>4
  <2>2. PICK b : b = SubSeq(a, 1, n)
    OBVIOUS
  <2>3. b \in Seq(Valores) /\ Len(b) = n /\ \A g \in 1 .. n : b[g] = a[g]
    BY <1>2, <1>4, <2>2
  <2>4. d = b
    BY <1>2, <1>3, <1>4, <2>3
  <2> QED BY <2>1, <2>2, <2>4
<1> QED BY <1>1, <1>5 DEF Virtual!Quita

\* The steps of a call that writes in the pages of its process, or in none.
LEMMA PasoQueEscribe ==
    ASSUME IInv, NEW p \in Procesos, NEW e, Sigue(Ahora, e, p), Queda(e),
           NEW h \in Hilos, hilo' = [hilo EXCEPT ![p] = h],
           fuera' \in [Procesos -> BOOLEAN], respuesta' = Nada,
           hilo[p].pc \notin {"no", "borra", "fin"}, h.pc \notin {"no", "borra", "fin"},
           h.pc \in {"prueba", "anterior", "une"} => h.pagina \in 1 .. Len(paginas[p])
    PROVE  IInv' /\ Cumple
<1>1. Mantiene(Ahora, e, p) /\ Cambia(Ahora, e, p) /\ Len(e.paginas[p]) = Len(Ahora.paginas[p])
  BY SigueAvanza DEF Avanza, Sigue
<1>2. Bueno(Ahora) /\ Bueno(e) /\ Ahora.paginas = paginas /\ hilo'[p] = h
  BY <1>1 DEF IInv, Mantiene, Ahora
<1>3. IInv'
  BY <1>1, <1>2, PasoQueSigue DEF Respuestas
<1>4. Memoria[p] = Tabla(Ahora, p) /\ Memoria'[p] = Tabla(e, p)
  BY <1>2, MemoriaEs, MemoriaLuego
<1>5. Fiel /\ e.intacta =>
         /\ \A q \in Todas(Ahora) \cap Todas(e) : q[1] # p => Cont(e, q) = Cont(Ahora, q)
         /\ Virtual!Escribe(Memoria[p], Memoria'[p])
  BY <1>1, <1>2, <1>4, EscribeVirtual DEF Cambia
<1>6. Cumple
  BY <1>1, <1>5, CambioCumple
<1> QED BY <1>3, <1>6

\* Those of a call that takes pages out.
LEMMA PasoQueQuita ==
    ASSUME IInv, NEW p \in Procesos, NEW e, Avanza(Ahora, e, p), Conserva(Ahora, e), Queda(e),
           Len(e.paginas[p]) <= Len(paginas[p]), 0 < Len(e.paginas[p]),
           NEW h \in Hilos, hilo' = [hilo EXCEPT ![p] = h],
           fuera' \in [Procesos -> BOOLEAN], respuesta' = Nada,
           hilo[p].pc # "borra", h.pc \notin {"no", "borra", "fin", "prueba", "anterior", "une"}
    PROVE  IInv' /\ Cumple
<1>1. Mantiene(Ahora, e, p) /\ Cambia(Ahora, e, p)
  BY DEF Avanza
<1>2. Bueno(Ahora) /\ Bueno(e) /\ Ahora.paginas = paginas /\ hilo'[p] = h
  BY <1>1 DEF IInv, Mantiene, Ahora
<1>3. e.paginas[p] # << >>
  <2>1. PICK t : t = e.paginas[p]
    OBVIOUS
  <2>2. t # << >>
    BY <2>1
  <2> QED BY <2>1, <2>2
<1>4. IInv'
  BY <1>1, <1>3, PasoEs DEF Respuestas
<1>5. Memoria[p] = Tabla(Ahora, p) /\ Memoria'[p] = Tabla(e, p)
  BY <1>2, MemoriaEs, MemoriaLuego
<1>6. ASSUME Fiel, e.intacta
      PROVE  Virtual!Escribe(Memoria[p], Memoria'[p]) \/ Virtual!Quita(Memoria[p], Memoria'[p])
  <2>1. CASE Len(e.paginas[p]) = Len(Ahora.paginas[p])
    BY <1>1, <1>2, <1>5, <1>6, <2>1, EscribeVirtual
  <2>2. CASE Len(e.paginas[p]) < Len(Ahora.paginas[p])
    BY <1>2, <1>5, <1>6, <2>2, QuitaVirtual
  <2> QED BY <1>2, <2>1, <2>2, TablaEs
<1>7. Fiel /\ e.intacta =>
         \A q \in Todas(Ahora) \cap Todas(e) : q[1] # p => Cont(e, q) = Cont(Ahora, q)
  BY DEF Conserva
<1>8. Cumple
  BY <1>1, <1>6, <1>7, CambioCumple
<1> QED BY <1>4, <1>8

\* The pages of all the processes hold what they did.
LEMMA TodasIguales ==
    ASSUME IInv, NEW e, Bueno(e), Queda(e),
           \A q \in Procesos : /\ hilo'[q].pc = "borra" <=> hilo[q].pc = "borra"
                               /\ Len(e.paginas[q]) = Len(Ahora.paginas[q]),
           \A q \in Todas(Ahora) \cap Todas(e) : Cont(e, q) = Cont(Ahora, q)
    PROVE  Memoria' = Memoria
<1>1. ASSUME NEW q \in Procesos PROVE Memoria'[q] = Memoria[q]
  <2>1. PICK L : L = Len(Ahora.paginas[q]) /\ L = Len(e.paginas[q])
    OBVIOUS
  <2>2. ASSUME NEW g \in 1 .. L PROVE Cont(e, <<q, g>>) = Cont(Ahora, <<q, g>>)
    <3>1. PICK r : r = <<q, g>>
      OBVIOUS
    <3>2. r \in Todas(Ahora) /\ r \in Todas(e)
      BY <2>1, <3>1, EsPagina DEF IInv
    <3> QED BY <3>1, <3>2
  <2>3. Tabla(e, q) = Tabla(Ahora, q)
    BY <2>1, <2>2 DEF Tabla
  <2> QED BY <2>3, MemoriaEs, MemoriaLuego
<1> QED BY <1>1, MismaMemoria

\* The pages a call may use.
LEMMA PaginaDe ==
    ASSUME IInv, NEW p \in Procesos, NEW g \in DOMAIN paginas[p]
    PROVE  /\ <<p, g>> \in Todas(Ahora) /\ g \in 1 .. Len(paginas[p])
           /\ g \in Numeros /\ Len(paginas[p]) \in Nat
<1>1. Ahora \in Estados /\ Ahora.paginas = paginas /\ Cortas(Ahora)
  BY DEF IInv, Bueno, Sano, Ahora
<1>2. /\ paginas[p] \in Seq(Paginas) /\ Len(paginas[p]) \in Nat
      /\ DOMAIN paginas[p] = 1 .. Len(paginas[p]) /\ Len(paginas[p]) <= MaxPaginas
  BY <1>1, TablaDe DEF Cortas
<1> QED BY <1>1, <1>2, ConstantesValidas DEF Todas, Numeros

LEMMA SonHilos ==
    /\ Libre \in Hilos /\ Libre.pc = "libre"
    /\ \A pc \in {"aloca", "encadena", "borra", "fin"} :
          Hilo(pc, 0) \in Hilos /\ Hilo(pc, 0).pc = pc
    /\ \A pc \in {"prueba", "anterior", "une"}, g \in 0 .. MaxPaginas :
          Hilo(pc, g) \in Hilos /\ Hilo(pc, g).pc = pc /\ Hilo(pc, g).pagina = g
    /\ \A x \in Contenidos : x \in Valores
    /\ Nada \in Respuestas
BY ConstantesValidas DEF Libre, Hilo, Hilos, Valores, Respuestas

-----------------------------------------------------------------------------
(* Every step keeps it.                                                    *)

LEMMA EmpiezaBien ==
    ASSUME IInv, NEW p \in Procesos, inicializarUnProceso(p)
    PROVE  IInv' /\ Cumple
<1>1. PICK x \in Contenidos :
         LET f == getframeNoAsignadoEnMemoria(Ahora)
         IN  Queda(ConLRU(ConTabla(Escribe(Ahora, f, x), p, <<Pagina(f)>>), Append(lRU, <<p, 1>>)))
  BY DEF inicializarUnProceso
<1>2. PICK f : f = getframeNoAsignadoEnMemoria(Ahora)
  OBVIOUS
<1>3. PICK v : v = Escribe(Ahora, f, x)
  OBVIOUS
<1>4. Bueno(Ahora) /\ Ahora \in Estados
  BY DEF IInv, Bueno, Sano
<1>5. /\ SoloDatos(Ahora, v) /\ x \in Valores /\ v.swap = Ahora.swap
      /\ v.intacta => f \in Frames
      /\ f \in Frames => v.memoria = [Ahora.memoria EXCEPT ![f] = x]
  <2>1. x \in Valores
    BY DEF Valores
  <2>2. SoloDatos(Ahora, v)
    BY <1>3, <1>4, <2>1, EscribeEn
  <2>3. v.intacta => f \in Frames
    BY <1>3, <1>4, <2>1, EscribeEn
  <2>4. PICK a \in Estados : a = Ahora
    BY <1>4
  <2>5. v.swap = a.swap /\ (f \in Frames => v.memoria = [a.memoria EXCEPT ![f] = x])
    BY <1>3, <2>4 DEF Escribe, Estados
  <2> QED BY <2>1, <2>2, <2>3, <2>4, <2>5
<1>6. /\ Mantiene(Ahora, v, p) /\ v.paginas = paginas /\ Ahora.paginas = paginas
      /\ v.lRU = lRU /\ DeLaTLB(v) = DeLaTLB(Ahora)
  BY <1>5, DatosSiguen DEF SoloDatos, Ahora, DeLaTLB
<1>7. /\ hilo[p].pc = "no" /\ hilo' = [hilo EXCEPT ![p] = Libre]
      /\ fuera' \in [Procesos -> BOOLEAN] /\ respuesta' = Nada /\ Nada \in Respuestas
  BY SonHilos DEF inicializarUnProceso, Atiende, SinMas, IInv, Hilo
<1>8. paginas[p] = << >> /\ \A t \in DeLaTLB(v) : t.pid # p
  BY <1>6, <1>7 DEF IInv, EnCurso
<1>9. f \in TodosLosMarcos /\ (f \in Frames => \A q \in Todas(Ahora) : LaPagina(Ahora, q).frame # f)
  BY <1>2, <1>4, MarcoDelPrimero
<1>10. f \in Frames => \A q \in Todas(v) : LaPagina(v, q).frame # f
  BY <1>5, <1>9 DEF SoloDatos, Todas, LaPagina
<1>11. Len(v.paginas[p]) = 0 /\ Len(v.paginas[p]) < MaxPaginas
  BY <1>6, <1>8, ConstantesValidas
<1>12. SinPresentes(v, p)
  BY <1>11 DEF SinPresentes, Todas
<1>13. PICK e : e = ConLRU(ConTabla(v, p, Append(v.paginas[p], Pagina(f))),
                           Append(v.lRU, <<p, Len(v.paginas[p]) + 1>>))
  OBVIOUS
<1>14. /\ Avanza(v, e, p) /\ Conserva(v, e) /\ Len(e.paginas[p]) = 1 /\ MismosDatos(v, e)
       /\ e.intacta = v.intacta /\ LaPagina(e, <<p, 1>>) = Pagina(f)
  <2>1. Bueno(v)
    BY <1>6 DEF Mantiene
  <2>2. PICK k : k = Len(v.paginas[p]) + 1 /\ k = 1
    BY <1>11
  <2>3. Avanza(v, e, p) /\ Conserva(v, e)
    BY <1>8, <1>9, <1>10, <1>11, <1>12, <1>13, <2>1, AlFinalEs
  <2>4. MismosDatos(v, e) /\ e.intacta = v.intacta
    BY <1>8, <1>9, <1>10, <1>11, <1>12, <1>13, <2>1, AlFinalEs
  <2>5. Len(e.paginas[p]) = Len(v.paginas[p]) + 1
    BY <1>8, <1>9, <1>10, <1>11, <1>12, <1>13, <2>1, AlFinalEs
  <2>6. LaPagina(e, <<p, Len(v.paginas[p]) + 1>>) = Pagina(f)
    BY <1>8, <1>9, <1>10, <1>11, <1>12, <1>13, <2>1, AlFinalEs
  <2>7. Len(e.paginas[p]) = 1
    BY <2>2, <2>5
  <2> QED BY <2>2, <2>3, <2>4, <2>6, <2>7
<1>15. Mantiene(Ahora, e, p)
  BY <1>6, <1>14 DEF Avanza, Mantiene
<1>16. Queda(e)
  <2>1. Append(v.paginas[p], Pagina(f)) = <<Pagina(f)>>
    BY <1>6, <1>8
  <2>2. Len(v.paginas[p]) + 1 = 1
    BY <1>11
  <2> QED BY <1>1, <1>2, <1>3, <1>6, <1>13, <2>1, <2>2
<1>17. e.paginas[p] # << >>
  <2>1. PICK t : t = e.paginas[p]
    OBVIOUS
  <2>2. Len(t) = 1
    BY <1>14, <2>1
  <2>3. Len(t) # 0
    BY <2>2
  <2>4. t # << >>
    BY <2>3
  <2> QED BY <2>1, <2>4
<1>18. Libre \in Hilos /\ Libre.pc = "libre"
  BY SonHilos
<1>19. IInv'
  BY <1>7, <1>15, <1>16, <1>17, <1>18, PasoEs
<1>20. Bueno(e) /\ hilo'[p] = Libre
  BY <1>7, <1>15 DEF Mantiene, IInv
<1>21. Memoria[p] = << >>
  <2>1. Memoria[p] = Tabla(Ahora, p)
    BY <1>7, MemoriaEs
  <2>2. Tabla(Ahora, p) \in Seq(Valores) /\ Len(Tabla(Ahora, p)) = 0
    BY <1>4, <1>6, <1>11, TablaEs
  <2> QED BY <2>1, <2>2
<1>22. ASSUME e.intacta PROVE Memoria'[p] = <<x>>
  <2>1. Memoria'[p] = Tabla(e, p)
    BY <1>16, <1>18, <1>20, MemoriaLuego
  <2>2. PICK t : t = Tabla(e, p)
    OBVIOUS
  <2>3. t \in Seq(Valores) /\ Len(t) = 1 /\ t[1] = Cont(e, <<p, 1>>)
    BY <1>14, <1>20, <2>2, TablaEs
  <2>4. PICK q : q = <<p, 1>>
    OBVIOUS
  <2>5. LaPagina(e, q).frame = f /\ Presente(e, q)
    BY <1>14, <2>4 DEF LaPagina, Presente, Pagina
  <2>6. Cont(e, q) = Bytes(e, f)
    BY <2>5 DEF Cont
  <2>7. f \in Frames /\ e.memoria = [Ahora.memoria EXCEPT ![f] = x]
    BY <1>5, <1>14, <1>22 DEF MismosDatos
  <2>8. Bytes(e, f) = x
    BY <1>4, <2>7 DEF Bytes, Estados
  <2>9. t = <<x>>
    BY <2>3, <2>4, <2>6, <2>8
  <2> QED BY <2>1, <2>2, <2>9
<1>23. ASSUME Fiel, e.intacta
       PROVE  /\ \A q \in Todas(Ahora) \cap Todas(e) : q[1] # p => Cont(e, q) = Cont(Ahora, q)
              /\ Virtual!Inicializa(Memoria[p], Memoria'[p])
  <2>1. ASSUME NEW q \in Todas(Ahora) \cap Todas(e) PROVE Cont(e, q) = Cont(Ahora, q)
    <3>1. q \in Todas(v) /\ Cont(e, q) = Cont(v, q)
      BY <1>6, <1>14, <1>23 DEF Conserva, Todas
    <3>2. v.intacta /\ f \in Frames /\ LaPagina(Ahora, q).frame # f
      BY <1>5, <1>9, <1>14, <1>23
    <3>3. Cont(v, q) = Cont(Ahora, q)
      BY <1>3, <1>4, <1>5, <3>2, EscribeCont
    <3> QED BY <3>1, <3>3
  <2>2. Virtual!Inicializa(Memoria[p], Memoria'[p])
    BY <1>21, <1>22, <1>23 DEF Virtual!Inicializa
  <2> QED BY <2>1, <2>2
<1>24. Cumple
  BY <1>7, <1>15, <1>16, <1>23, CambioCumple
<1> QED BY <1>19, <1>24

LEMMA LeeBien ==
    ASSUME IInv, NEW p \in Procesos, memread(p)
    PROVE  IInv' /\ Cumple
<1>0. PICK g \in DOMAIN paginas[p] : \E r \in getFrameDeUn(Ahora, p, g) :
         /\ Atiende(p, Libre, Libre) /\ Queda(r.e) /\ UNCHANGED fuera
         /\ respuesta' = [proceso |-> p, pagina |-> g, contenido |-> Bytes(r.e, r.frame)]
  BY DEF memread
<1>1. PICK r \in getFrameDeUn(Ahora, p, g) :
         /\ Atiende(p, Libre, Libre) /\ Queda(r.e) /\ UNCHANGED fuera
         /\ respuesta' = [proceso |-> p, pagina |-> g, contenido |-> Bytes(r.e, r.frame)]
  BY <1>0
<1>2. <<p, g>> \in Todas(Ahora) /\ g \in Numeros
  BY PaginaDe
<1>3. /\ Sigue(Ahora, r.e, p) /\ Conserva(Ahora, r.e) /\ Presente(r.e, <<p, g>>)
      /\ Fiel /\ r.e.intacta => r.frame = LaPagina(r.e, <<p, g>>).frame
  BY <1>2, GetFrameEs DEF IInv, Trae
<1>4. /\ Mantiene(Ahora, r.e, p) /\ Bueno(r.e) /\ Bytes(r.e, r.frame) \in Valores
      /\ Len(r.e.paginas[p]) = Len(paginas[p])
  BY <1>3, SigueAvanza, SonValores DEF Avanza, Sigue, Bueno, Sano, Ahora
<1>5. respuesta' \in Respuestas
  BY <1>1, <1>2, <1>4 DEF Respuestas
<1>6. hilo[p].pc = "libre" /\ hilo' = [hilo EXCEPT ![p] = Libre] /\ fuera' \in [Procesos -> BOOLEAN]
  BY <1>1, SonHilos DEF Atiende, IInv
<1>7. IInv'
  BY <1>1, <1>4, <1>5, <1>6, SonHilos, PasoQueSigue
<1>8. intacta' = r.e.intacta /\ (intacta' => intacta)
  BY <1>1, <1>4, QuedaEs DEF Mantiene, Ahora
<1>9. ASSUME Fiel, r.e.intacta PROVE Memoria' = Memoria
  <2>1. \A q \in Procesos : /\ hilo'[q].pc = "borra" <=> hilo[q].pc = "borra"
                            /\ Len(r.e.paginas[q]) = Len(Ahora.paginas[q])
    BY <1>3, <1>6, SonHilos DEF Sigue, IInv
  <2>2. \A q \in Todas(Ahora) \cap Todas(r.e) : Cont(r.e, q) = Cont(Ahora, q)
    BY <1>3, <1>9 DEF Conserva
  <2> QED BY <1>1, <1>4, <2>1, <2>2, TodasIguales
<1>10. ASSUME Fiel, r.e.intacta PROVE g \in DOMAIN Memoria[p] /\ Memoria[p][g] = Bytes(r.e, r.frame)
  <2>1. Memoria'[p] = Tabla(r.e, p) /\ Memoria[p] = Memoria'[p]
    <3>1. hilo'[p] = Libre
      BY <1>6 DEF IInv
    <3>2. Memoria'[p] = Tabla(r.e, p)
      BY <1>1, <1>4, <3>1, SonHilos, MemoriaLuego
    <3> QED BY <1>9, <1>10, <3>2
  <2>2. g \in 1 .. Len(r.e.paginas[p])
    BY <1>4, PaginaDe
  <2>3. Cont(r.e, <<p, g>>) = Bytes(r.e, r.frame)
    BY <1>3, <1>10 DEF Cont
  <2> QED BY <1>4, <2>1, <2>2, <2>3, TablaEs
<1>11. ASSUME Fiel, intacta' PROVE Virtual!Next
  <2>1. Virtual!Lee(p, g)
    BY <1>1, <1>8, <1>9, <1>10, <1>11 DEF Virtual!Lee
  <2> QED BY <1>8, <1>10, <1>11, <2>1 DEF Virtual!Next
<1>12. Cumple
  <2>1. CASE intacta'
    BY <1>11, <2>1 DEF Cumple
  <2>2. CASE ~intacta'
    BY <2>2, PierdeCumple
  <2> QED BY <2>1, <2>2
<1> QED BY <1>7, <1>12

LEMMA EscribeBien ==
    ASSUME IInv, NEW p \in Procesos, memwrite(p)
    PROVE  IInv' /\ Cumple
<1>1. PICK desde \in DOMAIN paginas[p], hasta \in DOMAIN paginas[p], x \in Contenidos :
         /\ desde <= hasta /\ Atiende(p, Libre, Libre) /\ SinMas
         /\ \E e \in editarAlgoEnMemoria(Ahora, p, desde, hasta, x) : Queda(e)
  BY DEF memwrite
<1>2. PICK e \in editarAlgoEnMemoria(Ahora, p, desde, hasta, x) : Queda(e)
  BY <1>1
<1>3. desde \in Nat \ {0} /\ hasta \in Nat /\ hasta <= Len(Ahora.paginas[p])
  <2>1. desde \in 1 .. Len(paginas[p]) /\ hasta \in 1 .. Len(paginas[p]) /\ Len(paginas[p]) \in Nat
    BY PaginaDe
  <2> QED BY <2>1 DEF Ahora
<1>4. Sigue(Ahora, e, p)
  BY <1>1, <1>2, <1>3, SonHilos, EditarEs DEF IInv
<1>5. /\ hilo[p].pc = "libre" /\ hilo' = [hilo EXCEPT ![p] = Libre]
      /\ fuera' \in [Procesos -> BOOLEAN] /\ respuesta' = Nada
  BY <1>1, SonHilos DEF Atiende, SinMas, IInv
<1> QED BY <1>2, <1>4, <1>5, SonHilos, PasoQueEscribe

LEMMA BuscaBien ==
    ASSUME IInv, NEW p \in Procesos, memallocBusca(p)
    PROVE  IInv' /\ Cumple
<1>0. PICK cabeceras : \E e \in recorreCabeceras(Ahora, p, cabeceras) : Queda(e)
  BY DEF memallocBusca
<1>1. PICK e \in recorreCabeceras(Ahora, p, cabeceras) : Queda(e)
  BY <1>0
<1>2. Sigue(Ahora, e, p)
  BY RecorreEs DEF IInv
<1>3. /\ hilo[p].pc = "libre" /\ hilo' = [hilo EXCEPT ![p] = Hilo("aloca", 0)]
      /\ fuera' \in [Procesos -> BOOLEAN] /\ respuesta' = Nada
  BY SonHilos DEF memallocBusca, Atiende, SinMas, IInv
<1> QED BY <1>1, <1>2, <1>3, SonHilos, PasoQueEscribe

LEMMA AlFinalBien ==
    ASSUME IInv, NEW p \in Procesos, memallocAlFinal(p)
    PROVE  IInv' /\ Cumple
<1>1. PICK g \in DOMAIN paginas[p], x \in Contenidos, hasta \in DOMAIN paginas[p] :
         hasta \in Cabecera(g) /\ \E e \in editarAlgoEnMemoria(Ahora, p, g, hasta, x) : Queda(e)
  BY DEF memallocAlFinal
<1>2. PICK e \in editarAlgoEnMemoria(Ahora, p, g, hasta, x) : Queda(e)
  BY <1>1
<1>3. g \in Nat \ {0} /\ hasta \in Nat /\ g <= hasta /\ hasta <= Len(Ahora.paginas[p])
  <2>1. g \in 1 .. Len(paginas[p]) /\ hasta \in 1 .. Len(paginas[p]) /\ Len(paginas[p]) \in Nat
    BY PaginaDe
  <2> QED BY <1>1, <2>1 DEF Ahora, Cabecera
<1>4. Sigue(Ahora, e, p)
  BY <1>2, <1>3, SonHilos, EditarEs DEF IInv
<1>5. PICK h \in {Hilo("encadena", 0), Libre} :
         hilo[p].pc \in {"aloca", "encadena"} /\ hilo' = [hilo EXCEPT ![p] = h]
  BY DEF memallocAlFinal, Atiende, Hilo
<1>6. fuera' \in [Procesos -> BOOLEAN] /\ respuesta' = Nada
  BY SonHilos DEF memallocAlFinal, SinMas, IInv
<1>7. h \in Hilos /\ h.pc \in {"encadena", "libre"}
  BY SonHilos
<1> QED BY <1>2, <1>4, <1>5, <1>6, <1>7, PasoQueEscribe

LEMMA CreceBien ==
    ASSUME IInv, NEW p \in Procesos, memallocCrece(p)
    PROVE  IInv' /\ Cumple
<1> DEFINE sin_rechazos == [Ahora EXCEPT !.degenerar = FALSE]
           Final(w, g, hasta, x) ==
               \/ /\ hasta <= Len(w.paginas[p])
                  /\ \E e \in editarAlgoEnMemoria(w, p, g, hasta, x) : Queda(e)
               \/ hasta > Len(w.paginas[p]) /\ Queda([w EXCEPT !.viva = FALSE])
<1>1. PICK n \in Len(paginas[p]) + 1 .. MaxPaginas, d \in DOMAIN paginas[p], x \in Contenidos :
         \E g \in {n - 1, n} : \E hasta \in Cabecera(g) \cap 1 .. n :
            /\ Atiende(p, Hilo("aloca", 0), Hilo("prueba", Len(paginas[p])))
            /\ SinMas
            /\ \E c \in agregarXPaginasPara(sin_rechazos, p, n - Len(paginas[p])) :
                  \E w \in editarAlgoEnMemoria(c, p, d, d, x) : Final(w, g, hasta, x)
  BY Zenon DEF memallocCrece
<1>2. PICK g \in {n - 1, n} : \E hasta \in Cabecera(g) \cap 1 .. n :
            \E c \in agregarXPaginasPara(sin_rechazos, p, n - Len(paginas[p])) :
               \E w \in editarAlgoEnMemoria(c, p, d, d, x) : Final(w, g, hasta, x)
  BY <1>1
<1>3. PICK hasta \in Cabecera(g) \cap 1 .. n :
            \E c \in agregarXPaginasPara(sin_rechazos, p, n - Len(paginas[p])) :
               \E w \in editarAlgoEnMemoria(c, p, d, d, x) : Final(w, g, hasta, x)
  BY <1>2
<1>4. PICK u : u = sin_rechazos
  OBVIOUS
<1>5. PICK c \in agregarXPaginasPara(u, p, n - Len(paginas[p])) :
               \E w \in editarAlgoEnMemoria(c, p, d, d, x) : Final(w, g, hasta, x)
  BY <1>3, <1>4
<1>6. PICK w \in editarAlgoEnMemoria(c, p, d, d, x) : Final(w, g, hasta, x)
  BY <1>5
<1>7. PICK L \in Nat : L = Len(paginas[p])
  BY PaginaDe
<1>8. d \in 1 .. L /\ L >= 1 /\ n \in Nat /\ n >= L + 1 /\ n <= MaxPaginas /\ MaxPaginas \in Nat
  <2>1. d \in 1 .. L
    BY <1>7, PaginaDe
  <2> QED BY <1>7, <2>1, ConstantesValidas
<1>9. Bueno(Ahora) /\ Ahora \in Estados /\ Ahora.paginas = paginas
  BY DEF IInv, Bueno, Sano, Ahora
<1>10. SoloDatos(Ahora, u) /\ MismosDatos(Ahora, u)
  <2>1. PICK a \in Estados : a = Ahora /\ u = [a EXCEPT !.degenerar = FALSE]
    BY <1>4, <1>9
  <2>2. SoloDatos(a, u) /\ MismosDatos(a, u)
    BY <2>1 DEF SoloDatos, MismosDatos, Estados
  <2> QED BY <2>1, <2>2
<1>11. Sigue(Ahora, u, p) /\ u.paginas = paginas
  <2>1. Cambia(Ahora, u, p)
    BY <1>10, NadaCambia, ConservaCambia DEF SoloDatos
  <2> QED BY <1>9, <1>10, <2>1, SoloDatosBueno DEF SoloDatos
<1>12. paginas[p] # << >>
  BY <1>7, <1>8
<1>13. PICK cantidad \in Nat : cantidad = n - L
  BY <1>8
<1>14. Avanza(u, c, p) /\ Len(c.paginas[p]) >= L /\ (c.intacta => Len(c.paginas[p]) = n)
  <2>1. Bueno(u) /\ u.paginas[p] # << >> /\ Len(u.paginas[p]) + cantidad <= MaxPaginas
    BY <1>7, <1>8, <1>11, <1>12, <1>13 DEF Sigue
  <2>2. c \in agregarXPaginasPara(u, p, cantidad)
    BY <1>5, <1>7, <1>13
  <2>3. /\ Avanza(u, c, p) /\ Len(c.paginas[p]) >= Len(u.paginas[p])
        /\ c.intacta => Len(c.paginas[p]) = Len(u.paginas[p]) + cantidad
    BY <2>1, <2>2, AgregarEs
  <2>4. Len(u.paginas[p]) = L /\ L + cantidad = n
    BY <1>7, <1>8, <1>11, <1>13
  <2> QED BY <2>3, <2>4
<1>15. Bueno(c) /\ c \in Estados /\ Len(c.paginas[p]) \in Nat
  BY <1>14, TablaDe DEF Avanza, Mantiene, Bueno, Sano
<1>16. Sigue(c, w, p)
  <2>1. d \in Nat \ {0} /\ d \in Nat /\ d <= d /\ d <= Len(c.paginas[p])
    BY <1>8, <1>14, <1>15
  <2> QED BY <1>15, <2>1, EditarEs
<1>17. Bueno(w) /\ w \in Estados /\ Len(w.paginas[p]) = Len(c.paginas[p])
  BY <1>16 DEF Sigue, Bueno, Sano
<1>18. PICK e : Queda(e) /\ Sigue(w, e, p)
  <2>1. CASE hasta <= Len(w.paginas[p]) /\ \E e \in editarAlgoEnMemoria(w, p, g, hasta, x) : Queda(e)
    <3>1. PICK e \in editarAlgoEnMemoria(w, p, g, hasta, x) : Queda(e)
      BY <2>1
    <3>2. g \in Nat \ {0} /\ hasta \in Nat /\ g <= hasta
      BY <1>8 DEF Cabecera
    <3>3. Sigue(w, e, p)
      BY <1>17, <2>1, <3>1, <3>2, EditarEs
    <3> QED BY <3>1, <3>3
  <2>2. CASE Queda([w EXCEPT !.viva = FALSE])
    <3>1. PICK e : e = [w EXCEPT !.viva = FALSE]
      OBVIOUS
    <3>2. SoloDatos(w, e) /\ MismosDatos(w, e)
      BY <1>17, <3>1 DEF SoloDatos, MismosDatos, Estados
    <3>3. Cambia(w, e, p)
      BY <3>2, NadaCambia, ConservaCambia DEF SoloDatos
    <3>4. Sigue(w, e, p)
      BY <1>17, <3>2, <3>3, SoloDatosBueno
    <3> QED BY <2>2, <3>1, <3>4
  <2> QED BY <1>6, <2>1, <2>2
<1>19. Len(e.paginas[p]) = Len(c.paginas[p]) /\ (e.intacta => c.intacta)
  BY <1>16, <1>17, <1>18 DEF Sigue
<1>20. Avanza(Ahora, e, p)
  <2>1. Avanza(Ahora, u, p) /\ Avanza(c, w, p) /\ Avanza(w, e, p)
    BY <1>11, <1>16, <1>18, SigueAvanza
  <2>2. Avanza(Ahora, c, p)
    <3>1. Len(Ahora.paginas[p]) <= Len(u.paginas[p])
      BY <1>7, <1>9, <1>11
    <3> QED BY <1>9, <1>14, <2>1, <3>1, AvanzaLuego
  <2>3. Avanza(Ahora, w, p)
    <3>1. Len(Ahora.paginas[p]) <= Len(c.paginas[p])
      BY <1>7, <1>9, <1>14, <1>15
    <3> QED BY <1>9, <2>1, <2>2, <3>1, AvanzaLuego
  <2>4. Len(Ahora.paginas[p]) <= Len(w.paginas[p])
    BY <1>7, <1>9, <1>14, <1>15, <1>17
  <2> QED BY <1>9, <2>1, <2>3, <2>4, AvanzaLuego
<1>21. /\ hilo[p].pc = "aloca" /\ hilo' = [hilo EXCEPT ![p] = Hilo("prueba", L)]
       /\ fuera' \in [Procesos -> BOOLEAN] /\ respuesta' = Nada /\ Nada \in Respuestas
  BY <1>7, SonHilos DEF memallocCrece, Atiende, SinMas, IInv
<1>22. PICK h \in Hilos : h = Hilo("prueba", L) /\ h.pc = "prueba" /\ h.pagina = L
  BY <1>8, SonHilos
<1>23. Len(e.paginas[p]) \in Nat /\ e.paginas[p] # << >> /\ L \in 1 .. Len(e.paginas[p])
  <2>1. PICK t : t = e.paginas[p]
    OBVIOUS
  <2>2. Len(t) \in Nat /\ Len(t) >= L
    BY <1>14, <1>15, <1>19, <2>1
  <2>3. Len(t) # 0
    BY <1>8, <2>2
  <2>4. t # << >>
    BY <2>3
  <2> QED BY <1>8, <2>1, <2>2, <2>4
<1>24. Mantiene(Ahora, e, p) /\ Cambia(Ahora, e, p) /\ Bueno(e)
  BY <1>20 DEF Avanza, Mantiene
<1>25. IInv'
  BY <1>18, <1>21, <1>22, <1>23, <1>24, PasoEs
<1>26. Memoria[p] = Tabla(Ahora, p) /\ Memoria'[p] = Tabla(e, p)
  <2>1. hilo'[p] = h
    BY <1>21, <1>22 DEF IInv
  <2> QED BY <1>18, <1>21, <1>22, <1>24, <2>1, MemoriaEs, MemoriaLuego
<1>27. ASSUME Fiel, e.intacta
       PROVE  /\ \A q \in Todas(Ahora) \cap Todas(e) : q[1] # p => Cont(e, q) = Cont(Ahora, q)
              /\ Virtual!Crece(Memoria[p], Memoria'[p])
  <2>1. 0 < Len(Ahora.paginas[p]) /\ Len(Ahora.paginas[p]) < Len(e.paginas[p])
    BY <1>7, <1>8, <1>9, <1>14, <1>19, <1>27
  <2>2. Virtual!Crece(Memoria[p], Memoria'[p])
    BY <1>9, <1>24, <1>26, <1>27, <2>1, CreceVirtual
  <2> QED BY <1>24, <1>27, <2>2 DEF Cambia
<1>28. Cumple
  BY <1>18, <1>21, <1>24, <1>27, CambioCumple
<1> QED BY <1>25, <1>28

LEMMA PruebaBien ==
    ASSUME IInv, NEW p \in Procesos, memallocPrueba(p)
    PROVE  IInv' /\ Cumple
<1>1. /\ hilo[p].pc = "prueba" /\ hilo' = [hilo EXCEPT ![p] = Libre]
      /\ fuera' \in [Procesos -> BOOLEAN] /\ respuesta' = Nada
  BY SonHilos DEF memallocPrueba, Atiende, IInv
<1>2. Libre \in Hilos /\ Libre.pc = "libre"
  BY SonHilos
<1>3. Bueno(Ahora) /\ Ahora \in Estados /\ Ahora.paginas = paginas
  BY DEF IInv, Bueno, Sano, Ahora
<1>4. CASE Queda(Ahora)
  <2>1. Sigue(Ahora, Ahora, p)
    BY <1>3, SigueIgual
  <2> QED BY <1>1, <1>2, <1>4, <2>1, PasoQueEscribe
<1>5. ASSUME NEW e \in deletePaginas(Ahora, p, Len(paginas[p]) - hilo[p].pagina), Queda(e)
      PROVE  IInv' /\ Cumple
  <2>0. PICK L \in Nat : L = Len(Ahora.paginas[p])
    BY <1>3, TablaDe
  <2>1. PICK c : L = Len(Ahora.paginas[p]) /\ c = L - hilo[p].pagina
    BY <2>0
  <2>2. hilo[p].pagina \in 1 .. L
    BY <1>1, <1>3, <2>1 DEF IInv, EnCurso
  <2>3. c \in Nat /\ c < L /\ L - c = hilo[p].pagina
    BY <2>1, <2>2
  <2>4. e \in deletePaginas(Ahora, p, c)
    BY <1>3, <1>5, <2>1
  <2>5. Avanza(Ahora, e, p) /\ Conserva(Ahora, e) /\ Len(e.paginas[p]) = L - c
    BY <1>3, <2>1, <2>3, <2>4, DeletePaginasEs
  <2>6. Len(e.paginas[p]) <= Len(paginas[p]) /\ 0 < Len(e.paginas[p])
    BY <1>3, <2>0, <2>2, <2>3, <2>5
  <2> QED BY <1>1, <1>2, <1>5, <2>5, <2>6, PasoQueQuita
<1> QED BY <1>4, <1>5 DEF memallocPrueba

LEMMA LiberaBien ==
    ASSUME IInv, NEW p \in Procesos, memfree(p)
    PROVE  IInv' /\ Cumple
<1> DEFINE Dos(r, g, x) ==
        \E s \in getFrameDeUn(r.e, p, g + 1) :
           LET una == Escribe(s.e, r.frame, x)
               dos(e) == Escribe(e, s.frame, x)
           IN  \E enviada \in MandaASwamp(una, p, g, Bytes(una, r.frame)) :
                 \E e \in MandaASwamp(dos(enviada), p, g + 1, Bytes(dos(enviada), s.frame)) :
                    Queda(e)
<1>1. PICK g \in DOMAIN paginas[p], x \in Contenidos : \E r \in getFrameDeUn(Ahora, p, g) :
        /\ \/ g = 1 /\ Atiende(p, Libre, Libre)
           \/ Atiende(p, Libre, Hilo("anterior", g))
        /\ SinMas
        /\ \/ Queda(Escribe(r.e, r.frame, x))
           \/ g + 1 \in DOMAIN paginas[p] /\ Dos(r, g, x)
  BY DEF memfree
<1>2. PICK r \in getFrameDeUn(Ahora, p, g) :
        /\ \/ g = 1 /\ Atiende(p, Libre, Libre)
           \/ Atiende(p, Libre, Hilo("anterior", g))
        /\ SinMas
        /\ \/ Queda(Escribe(r.e, r.frame, x))
           \/ g + 1 \in DOMAIN paginas[p] /\ Dos(r, g, x)
  BY <1>1
<1>3. /\ Bueno(Ahora) /\ <<p, g>> \in Todas(Ahora) /\ g \in 1 .. Len(paginas[p])
      /\ g \in Numeros /\ x \in Valores
  BY PaginaDe, SonHilos DEF IInv
<1>4. /\ Sigue(Ahora, r.e, p) /\ Bueno(r.e) /\ r.e \in Estados /\ <<p, g>> \in Todas(r.e)
      /\ Fiel /\ r.e.intacta => r.frame = LaPagina(r.e, <<p, g>>).frame
  <2>1. Sigue(Ahora, r.e, p) /\ (Fiel /\ r.e.intacta => r.frame = LaPagina(r.e, <<p, g>>).frame)
    BY <1>3, GetFrameEs DEF Trae
  <2>2. <<p, g>> \in Todas(r.e)
    BY <1>3, <2>1, MismasPaginas DEF Sigue, MismosLargos
  <2> QED BY <2>1, <2>2 DEF Sigue, Bueno, Sano
<1>5. PICK e : Queda(e) /\ Sigue(Ahora, e, p)
  <2>1. CASE Queda(Escribe(r.e, r.frame, x))
    <3>1. PICK e : e = Escribe(r.e, r.frame, x)
      OBVIOUS
    <3>2. SoloDatos(r.e, e) /\ (e.intacta => r.frame \in Frames)
      BY <1>3, <1>4, <3>1, EscribeEs
    <3>3. Sigue(r.e, e, p)
      <4> SUFFICES ASSUME Fiel, e.intacta, NEW q \in Todas(r.e), LaPagina(r.e, q).frame = r.frame
                   PROVE  q[1] = p
        BY <1>4, <3>1, EscribeCambia
      <4>1. q = <<p, g>>
        BY <1>4, <3>2 DEF SoloDatos, Bueno, Sano, SinCompartir
      <4> QED BY <4>1
    <3> QED BY <1>4, <2>1, <3>1, <3>3, SigueLuego
  <2>2. CASE g + 1 \in DOMAIN paginas[p] /\ Dos(r, g, x)
    <3>1. <<p, g + 1>> \in Todas(Ahora) /\ g + 1 \in Numeros
      BY <2>2, PaginaDe
    <3>2. <<p, g + 1>> \in Todas(r.e)
      BY <1>4, <3>1, MismasPaginas DEF Sigue, MismosLargos
    <3>3. PICK s \in getFrameDeUn(r.e, p, g + 1) :
             LET una == Escribe(s.e, r.frame, x)
                 dos(e) == Escribe(e, s.frame, x)
             IN  \E enviada \in MandaASwamp(una, p, g, Bytes(una, r.frame)) :
                   \E e \in MandaASwamp(dos(enviada), p, g + 1, Bytes(dos(enviada), s.frame)) :
                      Queda(e)
      BY <2>2
    <3>4. /\ Trae(r.e, s.e, p, g + 1)
          /\ Fiel /\ s.e.intacta => s.frame = LaPagina(s.e, <<p, g + 1>>).frame
      BY <1>4, <3>2, GetFrameEs
    <3>5. PICK una : una = Escribe(s.e, r.frame, x)
      OBVIOUS
    <3>6. PICK enviada \in MandaASwamp(una, p, g, Bytes(una, r.frame)) :
             \E e \in MandaASwamp(Escribe(enviada, s.frame, x), p, g + 1,
                                  Bytes(Escribe(enviada, s.frame, x), s.frame)) : Queda(e)
      BY <3>3, <3>5
    <3>7. PICK dos : dos = Escribe(enviada, s.frame, x)
      OBVIOUS
    <3>8. PICK e \in MandaASwamp(dos, p, g + 1, Bytes(dos, s.frame)) : Queda(e)
      BY <3>6, <3>7
    <3>9. /\ Sigue(r.e, s.e, p) /\ Bueno(s.e) /\ s.e \in Estados
          /\ Presente(s.e, <<p, g + 1>>) /\ (s.e.intacta => r.e.intacta)
          /\ Todas(s.e) = Todas(r.e)
      BY <3>4, MismasPaginas DEF Trae, Sigue, Bueno, Sano, MismosLargos
    <3>10. /\ SoloDatos(s.e, una) /\ (una.intacta => r.frame \in Frames)
           /\ una.intacta => Bytes(una, r.frame) = x
      <4>1. SoloDatos(s.e, una) /\ (una.intacta => r.frame \in Frames)
        BY <1>3, <3>5, <3>9, EscribeEs
      <4>2. PICK v \in Estados : v = s.e
        BY <3>9
      <4>3. r.frame \in Frames => Bytes(una, r.frame) = x
        BY <3>5, <4>2 DEF Escribe, Bytes, Estados
      <4> QED BY <4>1, <4>3
    <3>11. Sigue(s.e, una, p)
      <4> SUFFICES ASSUME Fiel, una.intacta, NEW q \in Todas(s.e), Presente(s.e, q),
                          LaPagina(s.e, q).frame = r.frame
                   PROVE  q[1] = p
        BY <3>5, <3>9, EscribeCambia
      <4>1. CASE q = <<p, g + 1>>
        BY <4>1
      <4>2. CASE q # <<p, g + 1>>
        <5>1. LaPagina(r.e, q).frame = r.frame /\ q \in Todas(r.e)
          BY <3>4, <3>9, <4>2 DEF Trae
        <5>2. q = <<p, g>>
          BY <1>4, <3>9, <3>10, <5>1 DEF SoloDatos, Bueno, Sano, SinCompartir
        <5> QED BY <5>2
      <4> QED BY <4>1, <4>2
    <3>12. /\ Bueno(una) /\ una \in Estados /\ <<p, g>> \in Todas(una)
           /\ Bytes(una, r.frame) \in Valores
      <4>1. Bueno(una) /\ una \in Estados
        BY <3>10, <3>11 DEF Sigue, SoloDatos
      <4>2. <<p, g>> \in Todas(una)
        BY <1>4, <3>9, <3>10 DEF SoloDatos, Todas
      <4> QED BY <4>1, <4>2, SonValores
    <3>13. SoloDatos(una, enviada)
      BY <1>3, <3>6, <3>12, MandaASwampEs
    <3>14. Sigue(una, enviada, p)
      <4>1. Fiel /\ enviada.intacta => Bytes(una, r.frame) \in Contenidos
        BY <3>10, <3>13 DEF SoloDatos
      <4> QED BY <3>6, <3>12, <4>1, MandaCambia
    <3>15. Bueno(enviada) /\ enviada \in Estados /\ enviada.paginas = s.e.paginas
      BY <3>10, <3>13, <3>14 DEF Sigue, SoloDatos
    <3>16. SoloDatos(enviada, dos) /\ (dos.intacta => s.frame \in Frames)
      BY <1>3, <3>7, <3>15, EscribeEs
    <3>17. Sigue(enviada, dos, p)
      <4> SUFFICES ASSUME Fiel, dos.intacta, NEW q \in Todas(enviada),
                          LaPagina(enviada, q).frame = s.frame
                   PROVE  q[1] = p
        BY <3>7, <3>15, EscribeCambia
      <4>1. s.e.intacta
        BY <3>10, <3>13, <3>16 DEF SoloDatos
      <4>2. q \in Todas(s.e) /\ LaPagina(s.e, q).frame = s.frame
        BY <3>15 DEF Todas, LaPagina
      <4>3. <<p, g + 1>> \in Todas(s.e) /\ LaPagina(s.e, <<p, g + 1>>).frame = s.frame
        BY <3>2, <3>4, <3>9, <4>1
      <4>4. q = <<p, g + 1>>
        BY <3>9, <3>16, <4>2, <4>3 DEF Bueno, Sano, SinCompartir
      <4> QED BY <4>4
    <3>18. /\ Bueno(dos) /\ dos \in Estados /\ <<p, g + 1>> \in Todas(dos)
           /\ Presente(dos, <<p, g + 1>>) /\ Bytes(dos, s.frame) \in Valores
      <4>1. Bueno(dos) /\ dos \in Estados /\ dos.paginas = s.e.paginas
        BY <3>15, <3>16, <3>17 DEF Sigue, SoloDatos
      <4>2. <<p, g + 1>> \in Todas(dos) /\ Presente(dos, <<p, g + 1>>)
        BY <3>2, <3>9, <4>1 DEF Todas, Presente
      <4> QED BY <4>1, <4>2, SonValores
    <3>19. Sigue(dos, e, p)
      BY <3>8, <3>18, MandaCambia
    <3>20. Sigue(Ahora, una, p)
      BY <1>4, <3>9, <3>11, SigueLuego
    <3>21. Sigue(Ahora, dos, p)
      BY <3>14, <3>17, <3>20, SigueLuego
    <3>22. Sigue(Ahora, e, p)
      BY <3>19, <3>21, SigueLuego
    <3> QED BY <3>8, <3>22
  <2> QED BY <1>2, <2>1, <2>2
<1>6. g \in 0 .. MaxPaginas
  BY <1>3, ConstantesValidas DEF Numeros
<1>7. PICK h \in Hilos :
         /\ hilo' = [hilo EXCEPT ![p] = h] /\ hilo[p].pc = "libre"
         /\ h.pc \in {"libre", "anterior"} /\ (h.pc = "anterior" => h.pagina = g)
  <2>1. Libre \in Hilos /\ Libre.pc = "libre"
    BY SonHilos
  <2>2. /\ Hilo("anterior", g) \in Hilos /\ Hilo("anterior", g).pc = "anterior"
        /\ Hilo("anterior", g).pagina = g
    BY <1>6, SonHilos
  <2> QED BY <1>2, <2>1, <2>2 DEF Atiende
<1>8. fuera' \in [Procesos -> BOOLEAN] /\ respuesta' = Nada
  BY <1>2, SonHilos DEF SinMas, IInv
<1> QED BY <1>3, <1>5, <1>7, <1>8, PasoQueEscribe

LEMMA AnteriorBien ==
    ASSUME IInv, NEW p \in Procesos, memfreeAnterior(p)
    PROVE  IInv' /\ Cumple
<1>1. /\ hilo[p].pc = "anterior" /\ hilo' = [hilo EXCEPT ![p] = Hilo("une", hilo[p].pagina)]
      /\ fuera' \in [Procesos -> BOOLEAN] /\ respuesta' = Nada
  BY SonHilos DEF memfreeAnterior, Atiende, SinMas, IInv
<1>2. hilo[p].pagina \in 1 .. Len(paginas[p]) /\ hilo[p].pagina \in 0 .. MaxPaginas
  BY <1>1 DEF IInv, EnCurso, Hilos
<1>3. PICK h \in 1 .. hilo[p].pagina : \E e \in Toca(Ahora, p, h) : Queda(e)
  BY DEF memfreeAnterior
<1>4. PICK e \in Toca(Ahora, p, h) : Queda(e)
  BY <1>3
<1>5. Bueno(Ahora) /\ <<p, h>> \in Todas(Ahora)
  <2>1. Ahora \in Estados /\ Ahora.paginas = paginas /\ Bueno(Ahora)
    BY DEF IInv, Bueno, Sano, Ahora
  <2>2. Len(paginas[p]) \in Nat /\ DOMAIN paginas[p] = 1 .. Len(paginas[p])
    BY <2>1, TablaDe
  <2>3. h \in 1 .. Len(paginas[p])
    BY <1>2, <1>3, <2>2
  <2> QED BY <2>1, <2>2, <2>3, PaginaDe
<1>6. PICK r \in getFrameDeUn(Ahora, p, h) : e = r.e
  BY <1>4 DEF Toca
<1>7. Sigue(Ahora, e, p)
  BY <1>5, <1>6, GetFrameEs DEF Trae
<1>8. PICK k \in Hilos : k = Hilo("une", hilo[p].pagina) /\ k.pc = "une" /\ k.pagina = hilo[p].pagina
  BY <1>2, SonHilos
<1> QED BY <1>1, <1>2, <1>4, <1>7, <1>8, PasoQueEscribe

LEMMA UneBien ==
    ASSUME IInv, NEW p \in Procesos, memfreeUne(p)
    PROVE  IInv' /\ Cumple
<1> DEFINE g == hilo[p].pagina
<1>1. /\ hilo[p].pc = "une" /\ hilo' = [hilo EXCEPT ![p] = Libre]
      /\ fuera' \in [Procesos -> BOOLEAN] /\ respuesta' = Nada
  <2>1. fuera' \in [Procesos -> BOOLEAN]
    BY DEF memfreeUne, IInv
  <2> QED BY <2>1, SonHilos DEF memfreeUne, Atiende
<1>2. g \in 1 .. Len(paginas[p])
  BY <1>1 DEF IInv, EnCurso
<1>3. /\ Bueno(Ahora) /\ Ahora \in Estados /\ Ahora.paginas = paginas
      /\ Len(paginas[p]) \in Nat
  <2>1. Ahora \in Estados /\ Ahora.paginas = paginas /\ Bueno(Ahora)
    BY DEF IInv, Bueno, Sano, Ahora
  <2> QED BY <2>1, TablaDe
<1>4. Libre \in Hilos /\ Libre.pc = "libre"
  BY SonHilos
<1>5. CASE \E h \in 1 .. g, n \in g .. Len(paginas[p]), x \in Contenidos :
              \E una \in editarAlgoEnMemoria(Ahora, p, h, h, x) :
                 \E e \in editarAlgoEnMemoria(una, p, n, n, x) : Queda(e)
  <2>1. PICK h \in 1 .. g, n \in g .. Len(paginas[p]), x \in Contenidos :
              \E una \in editarAlgoEnMemoria(Ahora, p, h, h, x) :
                 \E e \in editarAlgoEnMemoria(una, p, n, n, x) : Queda(e)
    BY <1>5
  <2>2. PICK una \in editarAlgoEnMemoria(Ahora, p, h, h, x) :
                 \E e \in editarAlgoEnMemoria(una, p, n, n, x) : Queda(e)
    BY <2>1
  <2>3. PICK e \in editarAlgoEnMemoria(una, p, n, n, x) : Queda(e)
    BY <2>2
  <2>4. /\ h \in Nat \ {0} /\ h \in Nat /\ h <= h /\ h <= Len(Ahora.paginas[p])
        /\ n \in Nat \ {0} /\ n \in Nat /\ n <= n /\ n <= Len(Ahora.paginas[p])
    BY <1>2, <1>3, <2>1
  <2>5. Sigue(Ahora, una, p)
    BY <1>3, <2>1, <2>2, <2>4, EditarEs
  <2>6. Bueno(una) /\ n <= Len(una.paginas[p])
    BY <2>4, <2>5 DEF Sigue
  <2>7. Sigue(una, e, p)
    BY <2>1, <2>3, <2>4, <2>6, EditarEs
  <2>8. Sigue(Ahora, e, p)
    BY <2>5, <2>7, SigueLuego
  <2> QED BY <1>1, <1>4, <2>3, <2>8, PasoQueEscribe
<1>6. CASE 1 < g /\ g = Len(paginas[p]) /\ Queda(deletePagina(Ahora, p))
  <2>1. PICK e : e = deletePagina(Ahora, p)
    OBVIOUS
  <2>2. Len(Ahora.paginas[p]) > 1
    BY <1>3, <1>6
  <2>3. /\ Avanza(Ahora, e, p) /\ Conserva(Ahora, e)
        /\ Len(e.paginas[p]) = Len(Ahora.paginas[p]) - 1
    BY <1>3, <2>1, <2>2, DeletePaginaEs
  <2>4. Len(e.paginas[p]) <= Len(paginas[p]) /\ 0 < Len(e.paginas[p])
    BY <1>3, <2>2, <2>3
  <2> QED BY <1>1, <1>4, <1>6, <2>1, <2>3, <2>4, PasoQueQuita
<1>7. CASE Queda(Ahora)
  <2>1. Sigue(Ahora, Ahora, p)
    BY <1>3, SigueIgual
  <2> QED BY <1>1, <1>4, <1>7, <2>1, PasoQueEscribe
<1> QED BY <1>5, <1>6, <1>7 DEF memfreeUne

\* A crash leaves the tables as they are.
LEMMA SeCae ==
    ASSUME IInv, NEW p \in Procesos, viva' = FALSE, UNCHANGED <<tablas, fuera, hilo, respuesta>>
    PROVE  IInv' /\ Cumple
<1>1. Bueno(Ahora) /\ Ahora \in Estados
  BY DEF IInv, Bueno, Sano
<1>2. PICK e : e = [Ahora EXCEPT !.viva = FALSE]
  OBVIOUS
<1>3. SoloDatos(Ahora, e) /\ MismosDatos(Ahora, e)
  BY <1>1, <1>2 DEF SoloDatos, MismosDatos, Estados
<1>4. Mantiene(Ahora, e, p) /\ Bueno(e)
  BY <1>3, DatosSiguen DEF Mantiene
<1>5. /\ hilo' = hilo /\ fuera' = fuera /\ respuesta' = respuesta /\ paginas' = paginas
      /\ lRU' = lRU /\ memoria' = memoria /\ tlb_list' = tlb_list /\ swap' = swap
      /\ hayQueDegenerar' = hayQueDegenerar /\ intacta' = intacta
  BY DEF tablas
<1>6. Ahora' = e /\ DeLaTLB(Ahora)' = DeLaTLB(Ahora)
  BY <1>2, <1>5 DEF Ahora, DeLaTLB
<1>7. ASSUME NEW q \in Procesos PROVE EnCurso(q)'
  BY <1>5, <1>6 DEF IInv, EnCurso
<1>8. IInv'
  <2>1. Bueno(Ahora)'
    BY <1>4, <1>6
  <2> QED BY <1>5, <1>7, <2>1 DEF IInv
<1>9. Memoria' = Memoria
  <2>1. Queda(e)
    BY <1>2, <1>5 DEF Queda, Ahora
  <2>2. \A q \in Procesos : /\ hilo'[q].pc = "borra" <=> hilo[q].pc = "borra"
                            /\ Len(e.paginas[q]) = Len(Ahora.paginas[q])
    BY <1>3, <1>5 DEF SoloDatos
  <2>3. \A q \in Todas(Ahora) \cap Todas(e) : Cont(e, q) = Cont(Ahora, q)
    BY <1>3, NadaCambia DEF SoloDatos
  <2> QED BY <1>4, <2>1, <2>2, <2>3, TodasIguales
<1>10. Cumple
  BY <1>5, <1>9 DEF Cumple
<1> QED BY <1>8, <1>10

LEMMA BorraEnSwampBien ==
    ASSUME IInv, NEW p \in Procesos, deleteEnSwamp(p)
    PROVE  IInv' /\ Cumple
<1>1. /\ hilo[p].pc = "libre" /\ hilo' = [hilo EXCEPT ![p] = Hilo("borra", 0)]
      /\ fuera' \in [Procesos -> BOOLEAN] /\ respuesta' = Nada /\ Nada \in Respuestas
  BY SonHilos DEF deleteEnSwamp, Atiende, SinMas, IInv
<1>2. PICK e : e = [Ahora EXCEPT !.swap = [@ EXCEPT ![p] = [g \in 1 .. MaxPaginas |-> Nada]]]
  OBVIOUS
<1>3. Queda(e)
  BY <1>2 DEF deleteEnSwamp
<1>4. Ahora \in Estados /\ Bueno(Ahora) /\ Ahora.paginas = paginas
  BY DEF IInv, Bueno, Sano, Ahora
<1>5. SoloDatos(Ahora, e)
  BY <1>2, <1>4 DEF SoloDatos, Estados, Numeros
<1>6. Mantiene(Ahora, e, p) /\ e.paginas = paginas
  BY <1>5, DatosSiguen
<1>7. PICK h \in Hilos : h = Hilo("borra", 0) /\ h.pc = "borra"
  BY SonHilos
<1>8. IInv'
  BY <1>1, <1>3, <1>6, <1>7, PasoQueSigue
<1>9. Virtual!Quita(Memoria[p], Memoria'[p])
  <2>1. PICK t : t = Memoria[p]
    OBVIOUS
  <2>2. t = Tabla(Ahora, p)
    BY <1>1, <2>1, MemoriaEs
  <2>3. t \in Seq(Valores) /\ Len(t) = Len(paginas[p]) /\ Len(paginas[p]) \in Nat
    BY <1>4, <2>2, TablaEs
  <2>4. paginas[p] # << >> /\ paginas[p] \in Seq(Paginas)
    BY <1>1, <1>4, TablaDe DEF IInv, EnCurso
  <2>5. 0 \in 0 .. Len(t) - 1
    BY <2>3, <2>4
  <2>6. SubSeq(t, 1, 0) = << >>
    BY <2>3
  <2>7. hilo'[p] = h
    BY <1>1, <1>7 DEF IInv
  <2>8. Memoria'[p] = << >>
    BY <1>3, <1>6, <1>7, <2>7, MemoriaLuego DEF Mantiene
  <2> QED BY <2>1, <2>5, <2>6, <2>8 DEF Virtual!Quita
<1>10. ASSUME NEW q \in Todas(Ahora), q[1] # p PROVE Cont(e, q) = Cont(Ahora, q)
  <2>1. PICK a \in Estados : a = Ahora
    BY <1>4
  <2>2. /\ e.paginas = a.paginas /\ e.memoria = a.memoria
        /\ \A k \in Procesos \ {p} : e.swap[k] = a.swap[k]
    BY <1>2, <2>1 DEF Estados
  <2>3. q[1] \in Procesos \ {p}
    BY <1>10 DEF Todas
  <2>4. Cont(e, q) = Cont(a, q)
    BY <2>2, <2>3 DEF Cont, Presente, LaPagina, Bytes, TraeDeSwamp
  <2> QED BY <2>1, <2>4
<1>11. Cumple
  BY <1>1, <1>3, <1>6, <1>9, <1>10, CambioCumple
<1> QED BY <1>8, <1>11

LEMMA BorraTablasBien ==
    ASSUME IInv, NEW p \in Procesos, deleteTablas(p)
    PROVE  IInv' /\ Cumple
<1>1. /\ hilo[p].pc = "borra" /\ hilo' = [hilo EXCEPT ![p] = Hilo("fin", 0)]
      /\ fuera' \in [Procesos -> BOOLEAN] /\ respuesta' = Nada /\ Nada \in Respuestas
  BY SonHilos DEF deleteTablas, Atiende, SinMas, IInv
<1>2. PICK e \in OlvidaTodas(Ahora, p) : Queda(e)
  BY DEF deleteTablas
<1>3. Avanza(Ahora, e, p) /\ Conserva(Ahora, e) /\ e.paginas[p] = << >>
  BY OlvidaEs DEF IInv
<1>4. Mantiene(Ahora, e, p) /\ Bueno(e)
  BY <1>3 DEF Avanza, Mantiene
<1>5. PICK h \in Hilos : h = Hilo("fin", 0) /\ h.pc = "fin"
  BY SonHilos
<1>6. IInv'
  BY <1>1, <1>2, <1>3, <1>4, <1>5, PasoEs
<1>7. Memoria'[p] = Memoria[p]
  <2>1. Memoria[p] = << >>
    BY <1>1, MemoriaEs
  <2>2. hilo'[p] = h
    BY <1>1, <1>5 DEF IInv
  <2>3. PICK t : t = Memoria'[p]
    OBVIOUS
  <2>4. t = Tabla(e, p)
    BY <1>2, <1>4, <1>5, <2>2, <2>3, MemoriaLuego
  <2>5. Len(e.paginas[p]) = 0
    BY <1>3
  <2>6. t \in Seq(Valores) /\ Len(t) = 0
    BY <1>4, <2>4, <2>5, TablaEs
  <2>7. t = << >>
    BY <2>6
  <2> QED BY <2>1, <2>3, <2>7
<1>8. intacta' = e.intacta /\ (intacta' => intacta)
  BY <1>2, <1>4, QuedaEs DEF Mantiene, Ahora
<1>9. ASSUME Fiel, e.intacta PROVE Memoria' = Memoria
  <2>1. \A q \in Todas(Ahora) \cap Todas(e) : q[1] # p => Cont(e, q) = Cont(Ahora, q)
    BY <1>3, <1>9 DEF Conserva
  <2>2. \A q \in Procesos \ {p} : Memoria'[q] = Memoria[q]
    BY <1>1, <1>2, <1>4, <2>1, AjenasIguales
  <2> QED BY <1>7, <2>2, MismaMemoria
<1>10. Cumple
  BY <1>1, <1>8, <1>9, NadaCumple
<1> QED BY <1>6, <1>10

LEMMA SuspendeBien ==
    ASSUME IInv, NEW p \in Procesos, suspend_process(p)
    PROVE  IInv' /\ Cumple
<1>1. PICK e \in SuspendePaginas(Ahora, p) : Queda(e)
  BY DEF suspend_process
<1>2. Sigue(Ahora, e, p)
  BY SuspendeEs DEF IInv
<1>3. PICK h \in Hilos : h = hilo[p] /\ hilo' = [hilo EXCEPT ![p] = h]
  BY DEF suspend_process, IInv
<1>4. /\ hilo[p].pc \notin {"no", "borra", "fin"} /\ respuesta' = Nada
      /\ fuera' \in [Procesos -> BOOLEAN]
  BY DEF suspend_process, IInv
<1>5. hilo[p].pc \in {"prueba", "anterior", "une"} => hilo[p].pagina \in 1 .. Len(paginas[p])
  BY DEF IInv, EnCurso
<1> QED BY <1>1, <1>2, <1>3, <1>4, <1>5, PasoQueEscribe

LEMMA LimpiaBien ==
    ASSUME IInv, clean_tlb
    PROVE  IInv' /\ Cumple
<1>1. PICK vacia : vacia = << >>
  OBVIOUS
<1>2. PICK e : e = [Ahora EXCEPT !.tlb = vacia]
  OBVIOUS
<1>3. /\ Queda(e) /\ hilo' = hilo /\ fuera' \in [Procesos -> BOOLEAN] /\ respuesta' = Nada
      /\ respuesta' \in Respuestas
  BY <1>1, <1>2, SonHilos DEF clean_tlb, SinMas, IInv
<1>4. Bueno(Ahora) /\ Ahora \in Estados /\ Ahora.paginas = paginas
  BY DEF IInv, Bueno, Sano, Ahora
<1>5. vacia \in Seq(Entradas \cup {Nada}) /\ DOMAIN vacia = {} /\ Range(vacia) = {}
  BY <1>1 DEF Range
<1>6. /\ e \in Estados /\ e.paginas = Ahora.paginas /\ e.lRU = Ahora.lRU /\ e.tlb = vacia
      /\ e.intacta = Ahora.intacta /\ MismosDatos(Ahora, e)
  BY <1>2, <1>4, <1>5 DEF Estados, MismosDatos
<1>7. DeLaTLB(e) = {}
  BY <1>5, <1>6 DEF DeLaTLB
<1>8. Bueno(e)
  <2>1. Cortas(e) /\ Ordenado(e) /\ SinCompartir(e)
    BY <1>4, <1>6 DEF Bueno, Sano, Cortas, Ordenado, SinCompartir, Todas, LaPagina
  <2>2. TLBUnica(e) /\ TLBCierta(e)
    BY <1>5, <1>6, <1>7 DEF TLBUnica, TLBCierta
  <2>3. UnaPresente(Ahora) => UnaPresente(e)
    BY <1>6 DEF UnaPresente, Todas, Presente
  <2> QED BY <1>4, <1>6, <2>1, <2>2, <2>3 DEF Bueno, Sano
<1>9. Ahora' = e /\ paginas' = e.paginas /\ intacta' = e.intacta
  BY <1>3, <1>8, QuedaEs
<1>10. IInv'
  <2>1. ASSUME NEW q \in Procesos PROVE EnCurso(q)'
    BY <1>3, <1>4, <1>6, <1>7, <1>9 DEF IInv, EnCurso
  <2> QED BY <1>3, <1>8, <1>9, <2>1 DEF IInv
<1>11. Memoria' = Memoria
  <2>1. \A q \in Procesos : /\ hilo'[q].pc = "borra" <=> hilo[q].pc = "borra"
                            /\ Len(e.paginas[q]) = Len(Ahora.paginas[q])
    BY <1>3, <1>6
  <2>2. \A q \in Todas(Ahora) \cap Todas(e) : Cont(e, q) = Cont(Ahora, q)
    BY <1>6, NadaCambia
  <2> QED BY <1>3, <1>8, <2>1, <2>2, TodasIguales
<1>12. intacta' => intacta
  BY <1>6, <1>9 DEF Ahora
<1>13. Cumple
  BY <1>3, <1>11, <1>12, NadaCumple
<1> QED BY <1>10, <1>13

-----------------------------------------------------------------------------
(* The theorems.                                                           *)

LEMMA AlEmpezar == Init => IInv
<1> SUFFICES ASSUME Init PROVE IInv
  OBVIOUS
<1>1. PICK vacia : vacia = << >>
  OBVIOUS
<1>2. /\ vacia \in Seq(Paginas) /\ vacia \in Seq(Procesos \X Numeros)
      /\ vacia \in Seq(Entradas \cup {Nada})
      /\ Len(vacia) = 0 /\ DOMAIN vacia = {} /\ Range(vacia) = {}
  BY <1>1 DEF Range
<1>3. /\ paginas = [p \in Procesos |-> vacia] /\ lRU = vacia /\ tlb_list = vacia
      /\ memoria = [f \in Frames |-> Basura]
      /\ swap = [p \in Procesos |-> [g \in Numeros |-> Nada]]
      /\ hayQueDegenerar = FALSE /\ viva = TRUE /\ intacta = TRUE
  BY <1>1 DEF Init, Numeros
<1>4. /\ Ahora.paginas = paginas /\ Ahora.lRU = vacia /\ Ahora.tlb = vacia
      /\ \A p \in Procesos : Ahora.paginas[p] = vacia
  BY <1>3 DEF Ahora
<1>5. Ahora \in Estados
  BY <1>2, <1>3 DEF Ahora, Estados, Valores
<1>6. Todas(Ahora) = {} /\ DeLaTLB(Ahora) = {}
  <2>1. \A q \in Procesos \X Numeros : q[1] \in Procesos
    OBVIOUS
  <2>2. Todas(Ahora) = {}
    BY <1>2, <1>4, <2>1 DEF Todas
  <2> QED BY <1>2, <1>4, <2>2 DEF DeLaTLB
<1>7. Bueno(Ahora)
  <2>1. Cortas(Ahora)
    BY <1>2, <1>4, ConstantesValidas DEF Cortas
  <2>2. Ordenado(Ahora)
    BY <1>2, <1>4, <1>6 DEF Ordenado, IsInjective
  <2>3. SinCompartir(Ahora) /\ UnaPresente(Ahora)
    BY <1>6 DEF SinCompartir, UnaPresente
  <2>4. TLBUnica(Ahora) /\ TLBCierta(Ahora)
    BY <1>2, <1>4, <1>6 DEF TLBUnica, TLBCierta
  <2> QED BY <1>5, <2>1, <2>2, <2>3, <2>4 DEF Bueno, Sano
<1>8. /\ fuera \in [Procesos -> BOOLEAN]
      /\ hilo \in [Procesos -> Hilos] /\ \A p \in Procesos : hilo[p].pc = "no"
  <2>1. Hilo("no", 0) \in Hilos /\ Hilo("no", 0).pc = "no"
    BY ConstantesValidas DEF Hilo, Hilos
  <2> QED BY <2>1 DEF Init
<1>9. respuesta \in Respuestas
  BY DEF Init, Respuestas
<1>10. \A p \in Procesos : EnCurso(p)
  BY <1>1, <1>3, <1>6, <1>8 DEF EnCurso
<1> QED BY <1>7, <1>8, <1>9, <1>10 DEF IInv

\* Every step keeps the invariant, and is one of MemoriaVirtual.
LEMMA CadaPaso == IInv /\ [Next]_vars => IInv' /\ Cumple
<1> SUFFICES ASSUME IInv, [Next]_vars PROVE IInv' /\ Cumple
  OBVIOUS
<1>1. CASE clean_tlb
  BY <1>1, LimpiaBien
<1>2. ASSUME NEW p \in Procesos, inicializarUnProceso(p) PROVE IInv' /\ Cumple
  BY <1>2, EmpiezaBien
<1>3. ASSUME NEW p \in Procesos, memread(p) PROVE IInv' /\ Cumple
  BY <1>3, LeeBien
<1>4. ASSUME NEW p \in Procesos, memwrite(p) PROVE IInv' /\ Cumple
  BY <1>4, EscribeBien
<1>5. ASSUME NEW p \in Procesos, memallocBusca(p) PROVE IInv' /\ Cumple
  BY <1>5, BuscaBien
<1>6. ASSUME NEW p \in Procesos, memallocAlFinal(p) PROVE IInv' /\ Cumple
  BY <1>6, AlFinalBien
<1>7. ASSUME NEW p \in Procesos, memallocCrece(p) PROVE IInv' /\ Cumple
  BY <1>7, CreceBien
<1>8. ASSUME NEW p \in Procesos, memallocPrueba(p) PROVE IInv' /\ Cumple
  BY <1>8, PruebaBien
<1>9. ASSUME NEW p \in Procesos, memfree(p) PROVE IInv' /\ Cumple
  BY <1>9, LiberaBien
<1>10. ASSUME NEW p \in Procesos, memfreeAnterior(p) PROVE IInv' /\ Cumple
  BY <1>10, AnteriorBien
<1>11. ASSUME NEW p \in Procesos, memfreeUne(p) PROVE IInv' /\ Cumple
  BY <1>11, UneBien
<1>12. ASSUME NEW p \in Procesos, PaginaInexistente(p) PROVE IInv' /\ Cumple
  BY <1>12, SeCae DEF PaginaInexistente
<1>13. ASSUME NEW p \in Procesos, deleteEnSwamp(p) PROVE IInv' /\ Cumple
  BY <1>13, BorraEnSwampBien
<1>14. ASSUME NEW p \in Procesos, deleteTablas(p) PROVE IInv' /\ Cumple
  BY <1>14, BorraTablasBien
<1>15. ASSUME NEW p \in Procesos, suspend_process(p) PROVE IInv' /\ Cumple
  BY <1>15, SuspendeBien
<1>16. ASSUME NEW p \in Procesos, suspendRechazada(p) PROVE IInv' /\ Cumple
  BY <1>16, SeCae DEF suspendRechazada
<1>17. CASE UNCHANGED vars
  <2>1. Ahora' = Ahora /\ paginas' = paginas /\ DeLaTLB(Ahora)' = DeLaTLB(Ahora)
    BY <1>17 DEF vars, tablas, Ahora, DeLaTLB
  <2>2. hilo' = hilo /\ fuera' = fuera /\ respuesta' = respuesta /\ intacta' = intacta
    BY <1>17 DEF vars, tablas
  <2>3. IInv'
    <3>1. Bueno(Ahora)'
      BY <2>1 DEF IInv
    <3>2. ASSUME NEW q \in Procesos PROVE EnCurso(q)'
      BY <2>1, <2>2 DEF IInv, EnCurso
    <3> QED BY <2>2, <3>1, <3>2 DEF IInv
  <2>4. Memoria' = Memoria
    <3>1. \A p : \A g : Contenido(p, g)' = Contenido(p, g)
      BY <2>1 DEF Contenido
    <3>2. \A p \in Procesos : Memoria'[p] = Memoria[p]
      BY <2>1, <2>2, <3>1 DEF Memoria, Contenido
    <3> QED BY <3>2, MismaMemoria
  <2>5. Cumple
    BY <2>2, <2>4 DEF Cumple
  <2> QED BY <2>3, <2>5
<1> QED
  BY <1>1, <1>2, <1>3, <1>4, <1>5, <1>6, <1>7, <1>8, <1>9, <1>10, <1>11, <1>12, <1>13, <1>14,
     <1>15, <1>16, <1>17 DEF Next

\* What every reachable state keeps, whatever the assignment, the replacement and the sizes.
THEOREM InvarianteDePaginacion == Spec => []IInv
BY AlEmpezar, CadaPaso, PTL DEF Spec

\* Every variable has its type, and the order of use has each page of the tables exactly
\* once, through evictions, growths that are undone, deletions and suspensions.
THEOREM TiposYOrden == Spec => []TypeOK
<1>1. IInv => TypeOK
  <2> SUFFICES ASSUME IInv PROVE TypeOK
    OBVIOUS
  <2>1. Ahora \in Estados /\ Ordenado(Ahora) /\ Cortas(Ahora)
    BY DEF IInv, Bueno, Sano
  <2>2. /\ paginas \in [Procesos -> Seq(Paginas)] /\ memoria \in [Frames -> Valores]
        /\ tlb_list \in Seq(Entradas \cup {Nada})
        /\ swap \in [Procesos -> [Numeros -> Valores \cup {Nada}]]
        /\ hayQueDegenerar \in BOOLEAN /\ viva \in BOOLEAN /\ intacta \in BOOLEAN
    BY <2>1 DEF Ahora, Estados
  <2>3. Ahora.lRU = lRU /\ Ahora.paginas = paginas
    BY DEF Ahora
  <2>4. IsInjective(lRU) /\ Range(lRU) = Todas(Ahora)
    BY <2>1, <2>3 DEF Ordenado
  <2>5. Todas(Ahora) = UNION {{p} \X DOMAIN paginas[p] : p \in Procesos}
    <3>1. \A p \in Procesos : DOMAIN paginas[p] = 1 .. Len(paginas[p]) /\ DOMAIN paginas[p] \subseteq Numeros
      BY <2>1, <2>3, TablaDe, ConstantesValidas DEF Cortas, Numeros
    <3>2. \A q \in Todas(Ahora) :
             q[1] \in Procesos /\ q[2] \in DOMAIN paginas[q[1]] /\ q = <<q[1], q[2]>>
      BY <2>3, <3>1 DEF Todas
    <3>3. ASSUME NEW p \in Procesos, NEW g \in DOMAIN paginas[p] PROVE <<p, g>> \in Todas(Ahora)
      BY <2>3, <3>1 DEF Todas
    <3> QED BY <3>2, <3>3
  <2>6. /\ fuera \in [Procesos -> BOOLEAN] /\ hilo \in [Procesos -> Hilos]
        /\ respuesta \in Respuestas
    BY DEF IInv
  <2> QED BY <2>2, <2>4, <2>5, <2>6 DEF TypeOK, Paginas, Entradas, Hilos, Respuestas
<1> QED BY <1>1, InvarianteDePaginacion, PTL

\* No two pages in memory share a frame, whatever the assignment and the replacement, even
\* after pages were lost.
THEOREM MarcosNoSeComparten == Spec => []MarcosExclusivos
<1>1. IInv => MarcosExclusivos
  <2> SUFFICES ASSUME IInv, NEW p \in Procesos, NEW q \in Procesos,
                      NEW g \in DOMAIN paginas[p], NEW h \in DOMAIN paginas[q],
                      paginas[p][g].frame = paginas[q][h].frame, paginas[p][g].frame \in Frames
               PROVE  <<p, g>> = <<q, h>>
    BY DEF MarcosExclusivos
  <2>1. <<p, g>> \in Todas(Ahora) /\ <<q, h>> \in Todas(Ahora)
    BY PaginaDe
  <2>2. SinCompartir(Ahora) /\ Ahora.paginas = paginas
    BY DEF IInv, Bueno, Sano, Ahora
  <2>3. LaPagina(Ahora, <<p, g>>) = paginas[p][g] /\ LaPagina(Ahora, <<q, h>>) = paginas[q][h]
    BY <2>2 DEF LaPagina
  <2> QED BY <2>1, <2>2, <2>3 DEF SinCompartir
<1> QED BY <1>1, InvarianteDePaginacion, PTL

\* Under the fixed assignment a process has no more pages in memory than its frames, until
\* a page is lost.
THEOREM CadaUnoSusMarcos == Spec => []MarcosPorCarpincho
<1>1. IInv => MarcosPorCarpincho
  <2> SUFFICES ASSUME IInv, Fija, intacta, NEW p \in Procesos
               PROVE  Cardinality({g \in DOMAIN paginas[p] : paginas[p][g].bitPresencia})
                         <= cantidadDePaginasPorProceso
    BY DEF MarcosPorCarpincho, Fija
  <2>1. PICK S : S = {g \in DOMAIN paginas[p] : paginas[p][g].bitPresencia}
    OBVIOUS
  <2>2. UnaPresente(Ahora) /\ Ahora.paginas = paginas
    BY DEF IInv, Bueno, Ahora
  <2>3. ASSUME NEW g \in S, NEW h \in S PROVE g = h
    <3>1. <<p, g>> \in Todas(Ahora) /\ <<p, h>> \in Todas(Ahora)
      BY <2>1, PaginaDe
    <3>2. Presente(Ahora, <<p, g>>) /\ Presente(Ahora, <<p, h>>)
      BY <2>1, <2>2 DEF Presente
    <3>3. <<p, g>>[1] = <<p, h>>[1]
      OBVIOUS
    <3>4. <<p, g>> = <<p, h>>
      BY <2>2, <3>1, <3>2, <3>3 DEF UnaPresente
    <3> QED BY <3>4
  <2>4. CASE S = {}
    BY <2>1, <2>4, ConstantesValidas, FS_EmptySet DEF Fija
  <2>5. CASE S # {}
    <3>1. PICK g : S = {g}
      BY <2>3, <2>5
    <3>2. Cardinality(S) = 1
      BY <3>1, FS_Singleton
    <3> QED BY <2>1, <3>2, ConstantesValidas DEF Fija
  <2> QED BY <2>4, <2>5
<1> QED BY <1>1, InvarianteDePaginacion, PTL

\* With the modified clock, or when a process only takes frames of its own, the TLB never
\* says a frame that is not that of the page, until a page is lost: LRU looks for the entry
\* of its victim under the process that asks.
THEOREM TLBSinMarcosViejos ==
    ASSUME ALGORITMO_REEMPLAZO_MMU = "CLOCK-M" \/ ~tipoDeAsignacionDinamica
    PROVE  Spec => []TLBCoherente
<1>1. IInv => TLBCoherente
  <2> SUFFICES ASSUME IInv, intacta, NEW t \in Range(tlb_list) \ {Nada},
                      t.pagina \in DOMAIN paginas[t.pid]
               PROVE  paginas[t.pid][t.pagina].frame = t.frame
    BY DEF TLBCoherente
  <2>1. /\ TLBCierta(Ahora) /\ Ahora \in Estados /\ Ahora.paginas = paginas
        /\ Ahora.tlb = tlb_list
    BY DEF IInv, Bueno, Sano, Ahora, Propia, Reloj, Fija
  <2>2. t \in DeLaTLB(Ahora)
    BY <2>1 DEF DeLaTLB
  <2>3. paginas[t.pid] # << >>
    OBVIOUS
  <2>4. paginas[t.pid][t.pagina] = Pagina(t.frame)
    BY <2>1, <2>2, <2>3 DEF TLBCierta
  <2> QED BY <2>4 DEF Pagina
<1> QED BY <1>1, InvarianteDePaginacion, PTL

\* What a carpincho reads is what it wrote, through evictions, page faults, the TLB, growths
\* and suspensions, until a page is lost: every step is one of a memory in which pages keep
\* what they hold, or one in which a page is lost.  With LRU and the dynamic assignment it
\* needs a TLB without entries, as the entry of a victim of another process is not deleted.
THEOREM ImplementaPaginas ==
    ASSUME \/ ALGORITMO_REEMPLAZO_MMU = "CLOCK-M"
           \/ ~tipoDeAsignacionDinamica
           \/ max_entradas_tlb = 0
    PROVE  Spec => ImplementaMemoria
<1>1. Fiel
  BY DEF Fiel, Propia, Reloj, Fija
<1>2. Init => Virtual!Init
  <2> SUFFICES ASSUME Init PROVE Virtual!Init
    OBVIOUS
  <2>1. paginas = [p \in Procesos |-> << >>] /\ respuesta = Nada /\ intacta = TRUE
    BY DEF Init
  <2>2. ASSUME NEW p \in Procesos
        PROVE  (IF hilo[p].pc = "borra" THEN << >>
                ELSE [g \in DOMAIN paginas[p] |-> Contenido(p, g)]) = << >>
    <3>1. DOMAIN paginas[p] = {}
      BY <2>1
    <3>2. PICK c : c = [g \in DOMAIN paginas[p] |-> Contenido(p, g)]
      OBVIOUS
    <3>3. c = << >>
      BY <3>1, <3>2
    <3> QED BY <3>2, <3>3
  <2>3. Memoria = [p \in Procesos |-> << >>]
    BY <2>2 DEF Memoria, Contenido
  <2> QED BY <2>1, <2>3 DEF Virtual!Init
<1>3. IInv /\ [Next]_vars => [Virtual!Next]_<<Memoria, respuesta, intacta>>
  BY <1>1, CadaPaso DEF Cumple
<1> QED BY <1>2, <1>3, InvarianteDePaginacion, PTL DEF Spec, ImplementaMemoria, Virtual!Spec
=============================================================================
