------------------------ MODULE MutexMemoria_proofs ------------------------
(***************************************************************************)
(* Proofs about the mutexes of memoria, for any number of server threads.  *)
(* What a path does to the mutexes its thread holds is said by labelling   *)
(* it: one set of mutexes before each step and one at the end.             *)
(***************************************************************************)
EXTENDS MutexMemoria, SequenceTheorems, TLAPS

-----------------------------------------------------------------------------
(* Labelled paths.                                                         *)

\* Where a thread that takes a mutex it holds stays.
Nunca == {"nunca"}
Conjuntos == SUBSET (Mutexes \cup Nunca)
Resto == Mutexes \ {"utilizacionDePagina"}

\* The disciplines, from the strictest on: what is done inside the section of
\* utilizacionDePagina_mutex, by a call that takes the mutexes in order, by one that
\* only uses frames inside the section, by any call.
Modos == {"dentro", "orden", "seccion", "libre"}

\* The functions a thread that holds a may call.
PuedeLlamar(modo, a, funcion) ==
    \/ modo = "libre"
    \/ a = {"utilizacionDePagina"} /\ funcion # "read_from_memory"
    \/ a = {} /\ modo \in {"orden", "seccion"} /\ funcion = "read_from_memory"
    \/ a = {} /\ modo = "seccion" /\ funcion = "deletePagina"

\* Under a discipline, a step takes its thread from holding a to holding b.
Admite(modo, a, p, b) ==
    \/ /\ modo = "dentro" => "utilizacionDePagina" \in a /\ p.sobre # "utilizacionDePagina"
       /\ \/ /\ p.op = "toma" /\ p.sobre \notin a /\ b = a \cup {p.sobre}
             /\ modo = "orden" => a = {} \/ "utilizacionDePagina" \in a
          \/ p.op = "deja" /\ p.sobre \in a /\ b = a \ {p.sobre}
          \/ /\ p.op \in {"obtiene", "usa", "desaloja"} /\ b = a
             /\ modo # "libre" => "utilizacionDePagina" \in a
          \/ p.op = "llama" /\ b = a /\ PuedeLlamar(modo, a, p.sobre)
    \/ /\ modo = "libre" /\ b = Nunca
       /\ a = Nunca \/ (p.op = "toma" /\ p.sobre \in a)

\* Under a discipline, a path takes its thread from holding a to holding b.
Lleva(modo, a, s, b) ==
    /\ s \in Seq(Pasos)
    /\ \E e \in [1 .. Len(s) + 1 -> Conjuntos] :
          /\ e[1] = a /\ e[Len(s) + 1] = b
          /\ \A i \in 1 .. Len(s) : Admite(modo, e[i], s[i], e[i + 1])

LEMMA LlevaVacio ==
    ASSUME NEW modo, NEW a \in Conjuntos
    PROVE  Lleva(modo, a, << >>, a)
<1> DEFINE s == << >>
           e == [i \in 1 .. 1 |-> a]
<1>1. s \in Seq(Pasos) /\ Len(s) = 0
  BY EmptySeq
<1>2. e \in [1 .. Len(s) + 1 -> Conjuntos] /\ e[1] = a
  BY <1>1
<1> HIDE DEF s, e
<1>3. \A i \in 1 .. Len(s) : Admite(modo, e[i], s[i], e[i + 1])
  BY <1>1
<1>4. Lleva(modo, a, s, a)
  BY <1>1, <1>2, <1>3 DEF Lleva
<1> QED BY <1>4 DEF s

LEMMA LlevaUno ==
    ASSUME NEW modo, NEW a \in Conjuntos, NEW p \in Pasos, NEW b \in Conjuntos,
           Admite(modo, a, p, b)
    PROVE  Lleva(modo, a, <<p>>, b)
<1> DEFINE s == <<p>>
           e == [i \in 1 .. 2 |-> IF i = 1 THEN a ELSE b]
<1>1. s \in Seq(Pasos) /\ Len(s) = 1 /\ s[1] = p
  OBVIOUS
<1>2. e \in [1 .. Len(s) + 1 -> Conjuntos] /\ e[1] = a /\ e[2] = b
  BY <1>1
<1> HIDE DEF s, e
<1>3. \A i \in 1 .. Len(s) : Admite(modo, e[i], s[i], e[i + 1])
  <2> TAKE i \in 1 .. Len(s)
  <2>1. i = 1 /\ i + 1 = 2
    BY <1>1
  <2> QED BY <1>1, <1>2, <2>1
<1>4. Lleva(modo, a, s, b)
  BY <1>1, <1>2, <1>3 DEF Lleva
<1> QED BY <1>4 DEF s

LEMMA LlevaSeguido ==
    ASSUME NEW modo, NEW a, NEW b, NEW d, NEW s, NEW u,
           Lleva(modo, a, s, b), Lleva(modo, b, u, d)
    PROVE  Lleva(modo, a, s \o u, d)
<1>1. s \in Seq(Pasos) /\ u \in Seq(Pasos) /\ Len(s) \in Nat /\ Len(u) \in Nat
  BY DEF Lleva
<1>2. PICK e \in [1 .. Len(s) + 1 -> Conjuntos] :
          /\ e[1] = a /\ e[Len(s) + 1] = b
          /\ \A i \in 1 .. Len(s) : Admite(modo, e[i], s[i], e[i + 1])
  BY DEF Lleva
<1>3. PICK g \in [1 .. Len(u) + 1 -> Conjuntos] :
          /\ g[1] = b /\ g[Len(u) + 1] = d
          /\ \A i \in 1 .. Len(u) : Admite(modo, g[i], u[i], g[i + 1])
  BY DEF Lleva
<1> DEFINE w == s \o u
           n == Len(s)
           f == [i \in 1 .. n + Len(u) + 1 |-> IF i <= n THEN e[i] ELSE g[i - n]]
<1>4. /\ w \in Seq(Pasos) /\ Len(w) = n + Len(u)
      /\ \A i \in 1 .. n + Len(u) : w[i] = IF i <= n THEN s[i] ELSE u[i - n]
  BY <1>1, ConcatProperties
<1>5. f \in [1 .. n + Len(u) + 1 -> Conjuntos]
  <2> SUFFICES ASSUME NEW i \in 1 .. n + Len(u) + 1 PROVE f[i] \in Conjuntos
    OBVIOUS
  <2>1. CASE i <= n
    BY SMTT(30), <1>1, <1>2, <2>1
  <2>2. CASE ~(i <= n)
    <3>1. i - n \in 1 .. Len(u) + 1
      BY <1>1, <2>2
    <3> QED BY <1>3, <2>2, <3>1
  <2> QED BY <2>1, <2>2
<1>6. \A i \in 1 .. n + 1 : f[i] = e[i]
  <2> TAKE i \in 1 .. n + 1
  <2>1. CASE i <= n
    BY <1>1, <2>1
  <2>2. CASE i = n + 1
    BY <1>1, <1>2, <1>3, <2>2
  <2> QED BY <1>1, <2>1, <2>2
<1>7. \A i \in 1 .. Len(u) + 1 : f[i + n] = g[i]
  BY <1>1
<1> HIDE DEF w, f
<1>8. ASSUME NEW i \in 1 .. Len(w) PROVE Admite(modo, f[i], w[i], f[i + 1])
  <2>1. CASE i <= n
    <3>1. i \in 1 .. n /\ i \in 1 .. n + 1 /\ i + 1 \in 1 .. n + 1
      BY <1>1, <2>1
    <3>2. f[i] = e[i] /\ f[i + 1] = e[i + 1] /\ w[i] = s[i]
      BY <1>1, <1>4, <1>6, <2>1, <3>1
    <3> QED BY <1>2, <3>1, <3>2
  <2>2. CASE ~(i <= n)
    <3> DEFINE j == i - n
    <3>1. /\ j \in 1 .. Len(u) /\ j \in 1 .. Len(u) + 1 /\ j + 1 \in 1 .. Len(u) + 1
          /\ i = j + n /\ i + 1 = (j + 1) + n
      BY <1>1, <1>4, <2>2
    <3>2. w[i] = u[j]
      BY <1>1, <1>4, <2>2
    <3> HIDE DEF j
    <3>3. f[i] = g[j] /\ f[i + 1] = g[j + 1]
      BY <1>7, <3>1
    <3> QED BY <1>3, <3>1, <3>2, <3>3
  <2> QED BY <2>1, <2>2
<1>9. f[1] = a /\ f[Len(w) + 1] = d
  <2>1. f[1] = e[1]
    BY <1>1, <1>6
  <2>2. f[(Len(u) + 1) + n] = g[Len(u) + 1] /\ (Len(u) + 1) + n = Len(w) + 1
    BY <1>1, <1>4, <1>7
  <2> QED BY <1>2, <1>3, <2>1, <2>2
<1>10. f \in [1 .. Len(w) + 1 -> Conjuntos]
  BY <1>1, <1>4, <1>5
<1>11. Lleva(modo, a, w, d)
  BY <1>4, <1>8, <1>9, <1>10 DEF Lleva
<1> QED BY <1>11 DEF w

\* The first step of a path and the rest of it.
LEMMA LlevaCola ==
    ASSUME NEW modo, NEW a, NEW b, NEW s, s # << >>, Lleva(modo, a, s, b)
    PROVE  /\ Head(s) \in Pasos /\ Tail(s) \in Seq(Pasos)
           /\ \E d \in Conjuntos : Admite(modo, a, Head(s), d) /\ Lleva(modo, d, Tail(s), b)
<1>1. s \in Seq(Pasos)
  BY DEF Lleva
<1>2. /\ Head(s) \in Pasos /\ Tail(s) \in Seq(Pasos) /\ Len(Tail(s)) = Len(s) - 1
      /\ \A i \in 1 .. Len(Tail(s)) : Tail(s)[i] = s[i + 1]
      /\ Head(s) = s[1] /\ Len(s) \in Nat /\ Len(s) > 0
  BY <1>1, HeadTailProperties
<1>3. PICK e \in [1 .. Len(s) + 1 -> Conjuntos] :
          /\ e[1] = a /\ e[Len(s) + 1] = b
          /\ \A i \in 1 .. Len(s) : Admite(modo, e[i], s[i], e[i + 1])
  BY DEF Lleva
<1> DEFINE u == Tail(s)
           f == [i \in 1 .. Len(s) |-> e[i + 1]]
<1>4. e[2] \in Conjuntos /\ Admite(modo, a, Head(s), e[2])
  <2>1. 1 \in 1 .. Len(s) /\ 2 \in 1 .. Len(s) + 1 /\ 1 + 1 = 2
    BY <1>2
  <2> QED BY <1>2, <1>3, <2>1
<1>5. f \in [1 .. Len(u) + 1 -> Conjuntos] /\ f[1] = e[2] /\ f[Len(u) + 1] = b
  BY <1>2, <1>3
<1>6. ASSUME NEW i \in 1 .. Len(u) PROVE Admite(modo, f[i], u[i], f[i + 1])
  <2>1. i + 1 \in 1 .. Len(s) /\ i \in 1 .. Len(s)
    BY <1>2
  <2>2. f[i] = e[i + 1] /\ f[i + 1] = e[(i + 1) + 1] /\ u[i] = s[i + 1]
    BY <1>2, <2>1
  <2> QED BY <1>3, <2>1, <2>2
<1> HIDE DEF f
<1>7. Lleva(modo, e[2], u, b)
  BY <1>2, <1>5, <1>6 DEF Lleva
<1> QED BY <1>2, <1>4, <1>7

\* What the discipline "dentro" admits the others admit, and "libre" admits all.
LEMMA LlevaMonotono ==
    ASSUME NEW modo \in Modos, NEW otro \in Modos,
           \/ modo = "dentro" \/ otro = "libre"
           \/ modo = "orden" /\ otro = "seccion",
           NEW a, NEW b, NEW s, Lleva(modo, a, s, b)
    PROVE  Lleva(otro, a, s, b)
<1>1. ASSUME NEW c, NEW p, NEW d, Admite(modo, c, p, d) PROVE Admite(otro, c, p, d)
  BY <1>1 DEF Admite, PuedeLlamar, Modos
<1> QED BY <1>1 DEF Lleva

LEMMA LlevaNunca ==
    ASSUME NEW s \in Seq(Pasos)
    PROVE  Lleva("libre", Nunca, s, Nunca)
<1>1. Len(s) \in Nat /\ Nunca \in Conjuntos
  BY DEF Conjuntos
<1> DEFINE e == [i \in 1 .. Len(s) + 1 |-> Nunca]
<1>2. e \in [1 .. Len(s) + 1 -> Conjuntos] /\ e[1] = Nunca /\ e[Len(s) + 1] = Nunca
  BY <1>1
<1>3. ASSUME NEW i \in 1 .. Len(s) PROVE Admite("libre", e[i], s[i], e[i + 1])
  <2>1. e[i] = Nunca /\ e[i + 1] = Nunca
    BY <1>1
  <2> QED BY <2>1 DEF Admite
<1> HIDE DEF e
<1> QED BY <1>2, <1>3 DEF Lleva

-----------------------------------------------------------------------------
(* Balanced paths: whatever their thread holds, it holds the same at the   *)
(* end, or it stays for ever at a mutex it holds.                          *)

Equilibrada(s) ==
    /\ s \in Seq(Pasos)
    /\ \A a \in SUBSET Mutexes : Lleva("libre", a, s, a) \/ Lleva("libre", a, s, Nunca)

\* Balanced paths that keep to the section: with utilizacionDePagina_mutex and none of
\* M held, the thread ends with what it had, and it never touches that mutex.
Buena(M, s) ==
    /\ Equilibrada(s)
    /\ \A a \in SUBSET Mutexes :
          "utilizacionDePagina" \in a /\ a \cap M = {} => Lleva("dentro", a, s, a)

LEMMA EnConjuntos == Nunca \in Conjuntos /\ SUBSET Mutexes \subseteq Conjuntos
BY DEF Conjuntos

LEMMA EquilibradaVacia == Equilibrada(<< >>)
BY EmptySeq, LlevaVacio, EnConjuntos DEF Equilibrada

LEMMA EquilibradaSeguida ==
    ASSUME NEW s, NEW u, Equilibrada(s), Equilibrada(u)
    PROVE  Equilibrada(s \o u)
<1>1. s \in Seq(Pasos) /\ u \in Seq(Pasos) /\ s \o u \in Seq(Pasos)
  BY ConcatProperties DEF Equilibrada
<1>2. ASSUME NEW a \in SUBSET Mutexes
      PROVE  Lleva("libre", a, s \o u, a) \/ Lleva("libre", a, s \o u, Nunca)
  <2>1. CASE Lleva("libre", a, s, a)
    BY <2>1, LlevaSeguido DEF Equilibrada
  <2>2. CASE Lleva("libre", a, s, Nunca)
    BY <1>1, <2>2, LlevaNunca, LlevaSeguido
  <2> QED BY <2>1, <2>2 DEF Equilibrada
<1> QED BY <1>1, <1>2 DEF Equilibrada

LEMMA EquilibradaPaso ==
    ASSUME NEW p \in Pasos, p.op \in {"obtiene", "usa", "desaloja", "llama"}
    PROVE  Equilibrada(<<p>>)
<1>1. \A a \in SUBSET Mutexes : Admite("libre", a, p, a)
  BY DEF Admite, PuedeLlamar
<1> QED BY <1>1, LlevaUno, EnConjuntos DEF Equilibrada

\* The steps of the paths.
LEMMA PasosBien ==
    /\ \A m \in Mutexes : Paso("toma", m) \in Pasos /\ Paso("deja", m) \in Pasos
    /\ \A f \in DOMAIN Funciones : Paso("llama", f) \in Pasos
    /\ \A op \in {"obtiene", "usa", "desaloja"} : Paso(op, "marco") \in Pasos
    /\ \A op, sobre : Paso(op, sobre).op = op /\ Paso(op, sobre).sobre = sobre
BY DEF Paso, Pasos

\* A critical section as three paths.
LEMMA ConEnTres ==
    ASSUME NEW m \in Mutexes, NEW s \in Seq(Pasos)
    PROVE  /\ Con(m, s) \in Seq(Pasos)
           /\ Con(m, s) = (<<Paso("toma", m)>> \o s) \o <<Paso("deja", m)>>
<1>1. <<Paso("toma", m)>> \in Seq(Pasos) /\ <<Paso("deja", m)>> \in Seq(Pasos)
  BY PasosBien
<1> QED BY <1>1, ConcatProperties DEF Con

LEMMA LlevaCon ==
    ASSUME NEW modo, NEW m \in Mutexes, NEW a \in SUBSET Mutexes, m \notin a, NEW s,
           Lleva(modo, a \cup {m}, s, a \cup {m}),
           modo = "dentro" => "utilizacionDePagina" \in a,
           modo = "orden" => a = {} \/ "utilizacionDePagina" \in a
    PROVE  Lleva(modo, a, Con(m, s), a)
<1> DEFINE toma == Paso("toma", m)
           deja == Paso("deja", m)
<1>1. /\ toma \in Pasos /\ toma.op = "toma" /\ toma.sobre = m
      /\ deja \in Pasos /\ deja.op = "deja" /\ deja.sobre = m
  BY PasosBien
<1>2. s \in Seq(Pasos)
  BY DEF Lleva
<1>3. Con(m, s) = (<<toma>> \o s) \o <<deja>>
  BY <1>2, ConEnTres
<1> HIDE DEF toma, deja
<1>4. Lleva(modo, a, <<toma>>, a \cup {m})
  <2>1. Admite(modo, a, toma, a \cup {m})
    BY <1>1 DEF Admite
  <2> QED BY <1>1, <2>1, LlevaUno, EnConjuntos
<1>5. Lleva(modo, a \cup {m}, <<deja>>, a)
  <2>1. a = (a \cup {m}) \ {m} /\ m \in a \cup {m}
    OBVIOUS
  <2>2. modo = "dentro" => "utilizacionDePagina" \in a \cup {m} /\ m # "utilizacionDePagina"
    OBVIOUS
  <2>3. Admite(modo, a \cup {m}, deja, a)
    BY <1>1, <2>1, <2>2 DEF Admite
  <2> QED BY <1>1, <2>3, LlevaUno, EnConjuntos
<1>6. Lleva(modo, a, <<toma>> \o s, a \cup {m})
  BY <1>4, LlevaSeguido
<1> QED BY <1>3, <1>5, <1>6, LlevaSeguido

LEMMA EquilibradaCon ==
    ASSUME NEW m \in Mutexes, NEW s, Equilibrada(s)
    PROVE  Equilibrada(Con(m, s))
<1>1. s \in Seq(Pasos) /\ Con(m, s) \in Seq(Pasos)
  BY ConEnTres DEF Equilibrada
<1> DEFINE toma == Paso("toma", m)
           deja == Paso("deja", m)
<1>2. /\ toma \in Pasos /\ toma.op = "toma" /\ toma.sobre = m /\ deja \in Pasos
      /\ <<deja>> \in Seq(Pasos)
      /\ Con(m, s) = (<<toma>> \o s) \o <<deja>>
  BY <1>1, PasosBien, ConEnTres
<1> HIDE DEF toma, deja
<1>3. ASSUME NEW a \in SUBSET Mutexes
      PROVE  Lleva("libre", a, Con(m, s), a) \/ Lleva("libre", a, Con(m, s), Nunca)
  <2>1. CASE m \in a
    <3>1. Admite("libre", a, toma, Nunca)
      BY <1>2, <2>1 DEF Admite
    <3>2. Lleva("libre", a, <<toma>>, Nunca)
      BY <1>2, <3>1, LlevaUno, EnConjuntos
    <3> QED BY <1>1, <1>2, <3>2, LlevaNunca, LlevaSeguido
  <2>2. CASE m \notin a
    <3>1. CASE Lleva("libre", a \cup {m}, s, a \cup {m})
      BY <2>2, <3>1, LlevaCon
    <3>2. CASE Lleva("libre", a \cup {m}, s, Nunca)
      <4>1. Admite("libre", a, toma, a \cup {m})
        BY <1>2, <2>2 DEF Admite
      <4>2. Lleva("libre", a, <<toma>>, a \cup {m})
        BY <1>2, <4>1, LlevaUno, EnConjuntos
      <4> QED BY <1>2, <3>2, <4>2, LlevaNunca, LlevaSeguido
    <3>3. a \cup {m} \in SUBSET Mutexes
      OBVIOUS
    <3> QED BY <3>1, <3>2, <3>3 DEF Equilibrada
  <2> QED BY <2>1, <2>2
<1> QED BY <1>1, <1>3 DEF Equilibrada

LEMMA BuenaVacia == \A M : Buena(M, << >>)
BY EquilibradaVacia, LlevaVacio, EnConjuntos DEF Buena

LEMMA BuenaSeguida ==
    ASSUME NEW M, NEW s, NEW u, Buena(M, s), Buena(M, u)
    PROVE  Buena(M, s \o u)
BY EquilibradaSeguida, LlevaSeguido DEF Buena

LEMMA BuenaPaso ==
    ASSUME NEW M, NEW op \in {"obtiene", "usa", "desaloja"}
    PROVE  Buena(M, <<Paso(op, "marco")>>)
<1> DEFINE p == Paso(op, "marco")
<1>1. p \in Pasos /\ p.op = op /\ p.sobre = "marco"
  BY PasosBien
<1> HIDE DEF p
<1>2. \A a \in SUBSET Mutexes : "utilizacionDePagina" \in a => Admite("dentro", a, p, a)
  BY <1>1 DEF Admite
<1>3. Equilibrada(<<p>>)
  BY <1>1, EquilibradaPaso
<1>4. Buena(M, <<p>>)
  BY <1>1, <1>2, <1>3, LlevaUno, EnConjuntos DEF Buena
<1> QED BY <1>4 DEF p

LEMMA BuenaLlama ==
    ASSUME NEW f \in DOMAIN Funciones, f # "read_from_memory"
    PROVE  Buena(Resto, Llama(f))
<1> DEFINE p == Paso("llama", f)
<1>1. p \in Pasos /\ p.op = "llama" /\ p.sobre = f
  BY PasosBien
<1>0. f # "utilizacionDePagina"
  BY DEF Funciones
<1> HIDE DEF p
<1>2. ASSUME NEW a \in SUBSET Mutexes, "utilizacionDePagina" \in a, a \cap Resto = {}
      PROVE  Lleva("dentro", a, <<p>>, a)
  <2>1. a = {"utilizacionDePagina"}
    BY <1>2 DEF Resto
  <2>2. Admite("dentro", a, p, a)
    BY <1>0, <1>1, <2>1 DEF Admite, PuedeLlamar
  <2> QED BY <1>1, <2>2, LlevaUno, EnConjuntos
<1>3. Equilibrada(<<p>>)
  BY <1>1, EquilibradaPaso
<1>4. Buena(Resto, <<p>>)
  BY <1>2, <1>3 DEF Buena
<1> QED BY <1>4 DEF p, Llama

LEMMA BuenaCon ==
    ASSUME NEW M \in SUBSET Resto, NEW m \in M, NEW s, Buena(M \ {m}, s)
    PROVE  Buena(M, Con(m, s))
<1>1. m \in Mutexes /\ m # "utilizacionDePagina"
  BY DEF Resto
<1>2. ASSUME NEW a \in SUBSET Mutexes, "utilizacionDePagina" \in a, a \cap M = {}
      PROVE  Lleva("dentro", a, Con(m, s), a)
  <2>1. m \notin a /\ a \cup {m} \in SUBSET Mutexes /\ (a \cup {m}) \cap (M \ {m}) = {}
    BY <1>1, <1>2
  <2>2. Lleva("dentro", a \cup {m}, s, a \cup {m})
    BY <1>2, <2>1 DEF Buena
  <2> QED BY <1>1, <1>2, <2>1, <2>2, LlevaCon
<1> QED BY <1>1, <1>2, EquilibradaCon DEF Buena

LEMMA BuenaEnMas ==
    ASSUME NEW M, NEW N, M \subseteq N, NEW s, Buena(M, s)
    PROVE  Buena(N, s)
BY DEF Buena

-----------------------------------------------------------------------------
(* Frames known and used.                                                  *)

Sabe(p) == p.op = "obtiene" \/ p.sobre = "getFrameDeUn"

\* No frame is used that the path did not get to know.
NoPide(s) ==
    \A i \in 1 .. Len(s) : s[i].op = "usa" => \E k \in 1 .. i : Sabe(s[k])

\* No frame is used that became known before the section was entered or left.
Separa(s) ==
    \A i, j \in 1 .. Len(s) :
        i < j /\ s[i].sobre = "utilizacionDePagina" /\ s[j].op = "usa" =>
            \E k \in i .. j : Sabe(s[k])

Marcada(s) == s \in Seq(Pasos) /\ NoPide(s) /\ Separa(s)

\* A path that keeps the section as it is.
Llana(s) ==
    s \in Seq(Pasos) /\ \A i \in 1 .. Len(s) : s[i].sobre # "utilizacionDePagina"

\* Such a path that uses what it gets to know; and one that gets to know a frame, after
\* which anything may be used.
Mansa(s) == Llana(s) /\ NoPide(s)
Sabia(s) == Mansa(s) /\ \E k \in 1 .. Len(s) : Sabe(s[k])

LEMMA NoPideSeguida ==
    ASSUME NEW s \in Seq(Pasos), NEW u \in Seq(Pasos), NoPide(s),
           NoPide(u) \/ \E k \in 1 .. Len(s) : Sabe(s[k])
    PROVE  NoPide(s \o u)
<1> DEFINE w == s \o u
           n == Len(s)
<1>1. /\ n \in Nat /\ Len(u) \in Nat /\ Len(w) = n + Len(u)
      /\ \A i \in 1 .. n + Len(u) : w[i] = IF i <= n THEN s[i] ELSE u[i - n]
  BY ConcatProperties
<1> HIDE DEF w
<1>2. SUFFICES ASSUME NEW i \in 1 .. Len(w), w[i].op = "usa"
               PROVE  \E k \in 1 .. i : Sabe(w[k])
  BY DEF NoPide, w
<1>3. CASE i <= n
  <2>1. PICK k \in 1 .. i : Sabe(s[k])
    BY <1>1, <1>2, <1>3 DEF NoPide
  <2>2. w[k] = s[k]
    BY <1>1, <1>3
  <2> QED BY <2>1, <2>2
<1>4. CASE n < i /\ NoPide(u)
  <2>1. i - n \in 1 .. Len(u) /\ w[i] = u[i - n]
    BY <1>1, <1>4
  <2>2. PICK k \in 1 .. i - n : Sabe(u[k])
    BY <1>2, <1>4, <2>1 DEF NoPide
  <2>3. k + n \in 1 .. i /\ w[k + n] = u[(k + n) - n] /\ (k + n) - n = k
    BY <1>1, <1>4
  <2> QED BY <2>2, <2>3
<1>5. CASE n < i /\ \E k \in 1 .. Len(s) : Sabe(s[k])
  <2>1. PICK k \in 1 .. Len(s) : Sabe(s[k])
    BY <1>5
  <2>2. k \in 1 .. i /\ w[k] = s[k]
    BY <1>1, <1>5
  <2> QED BY <2>1, <2>2
<1> QED BY <1>1, <1>3, <1>4, <1>5

LEMMA LlanaSeguida ==
    ASSUME NEW s, NEW u, Llana(s), Llana(u)
    PROVE  Llana(s \o u)
<1> DEFINE w == s \o u
<1>1. /\ w \in Seq(Pasos) /\ Len(s) \in Nat /\ Len(u) \in Nat /\ Len(w) = Len(s) + Len(u)
      /\ \A i \in 1 .. Len(s) + Len(u) : w[i] = IF i <= Len(s) THEN s[i] ELSE u[i - Len(s)]
  BY ConcatProperties DEF Llana
<1> HIDE DEF w
<1>2. ASSUME NEW i \in 1 .. Len(w) PROVE w[i].sobre # "utilizacionDePagina"
  <2>1. CASE i <= Len(s)
    BY <1>1, <2>1 DEF Llana
  <2>2. CASE ~(i <= Len(s))
    <3>1. i - Len(s) \in 1 .. Len(u) /\ w[i] = u[i - Len(s)]
      BY <1>1, <2>2
    <3> QED BY <3>1 DEF Llana
  <2> QED BY <2>1, <2>2
<1> QED BY <1>1, <1>2 DEF Llana, w

LEMMA MansaSeguida ==
    ASSUME NEW s, NEW u, Mansa(s), Mansa(u)
    PROVE  Mansa(s \o u)
BY NoPideSeguida, LlanaSeguida DEF Mansa, Llana

LEMMA SabiaSeguida ==
    ASSUME NEW s, NEW u, (Sabia(s) /\ Llana(u)) \/ (Mansa(s) /\ Sabia(u))
    PROVE  Sabia(s \o u)
<1> DEFINE w == s \o u
<1>1. /\ s \in Seq(Pasos) /\ u \in Seq(Pasos) /\ Mansa(s) /\ Llana(u)
      /\ NoPide(u) \/ \E k \in 1 .. Len(s) : Sabe(s[k])
  BY DEF Sabia, Mansa, Llana
<1>2. Mansa(w)
  BY <1>1, NoPideSeguida, LlanaSeguida DEF Mansa
<1>3. /\ Len(s) \in Nat /\ Len(u) \in Nat /\ Len(w) = Len(s) + Len(u)
      /\ \A i \in 1 .. Len(s) + Len(u) : w[i] = IF i <= Len(s) THEN s[i] ELSE u[i - Len(s)]
  BY <1>1, ConcatProperties
<1> HIDE DEF w
<1>4. \E k \in 1 .. Len(w) : Sabe(w[k])
  <2>1. CASE \E k \in 1 .. Len(s) : Sabe(s[k])
    BY <1>3, <2>1
  <2>2. CASE Sabia(u)
    <3>1. PICK k \in 1 .. Len(u) : Sabe(u[k])
      BY <2>2 DEF Sabia
    <3>2. /\ k + Len(s) \in 1 .. Len(w) /\ (k + Len(s)) - Len(s) = k
          /\ w[k + Len(s)] = u[(k + Len(s)) - Len(s)]
      BY <1>3
    <3> QED BY <3>1, <3>2
  <2> QED BY <2>1, <2>2 DEF Sabia
<1> QED BY <1>2, <1>4 DEF Sabia, w

LEMMA MarcadaSeguida ==
    ASSUME NEW s, NEW u, Marcada(s), Marcada(u)
    PROVE  Marcada(s \o u)
<1> DEFINE w == s \o u
           n == Len(s)
<1>1. /\ w \in Seq(Pasos) /\ n \in Nat /\ Len(u) \in Nat /\ Len(w) = n + Len(u)
      /\ \A i \in 1 .. n + Len(u) : w[i] = IF i <= n THEN s[i] ELSE u[i - n]
  BY ConcatProperties DEF Marcada
<1>2. NoPide(w)
  BY NoPideSeguida DEF Marcada
<1> HIDE DEF w
<1>3. ASSUME NEW i \in 1 .. Len(w), NEW j \in 1 .. Len(w), i < j,
             w[i].sobre = "utilizacionDePagina", w[j].op = "usa"
      PROVE  \E k \in i .. j : Sabe(w[k])
  <2>1. CASE j <= n
    <3>1. i \in 1 .. n /\ j \in 1 .. n /\ w[i] = s[i] /\ w[j] = s[j]
      BY <1>1, <1>3, <2>1
    <3>2. PICK k \in i .. j : Sabe(s[k])
      BY <1>3, <3>1 DEF Marcada, Separa
    <3>3. k \in 1 .. n /\ w[k] = s[k]
      BY <1>1, <3>1
    <3> QED BY <3>2, <3>3
  <2>2. CASE n < j /\ i <= n
    <3>1. j - n \in 1 .. Len(u) /\ w[j] = u[j - n]
      BY <1>1, <2>2
    <3>2. PICK k \in 1 .. j - n : Sabe(u[k])
      BY <1>3, <3>1 DEF Marcada, NoPide
    <3>3. k + n \in i .. j /\ w[k + n] = u[(k + n) - n] /\ (k + n) - n = k
      BY <1>1, <2>2
    <3> QED BY <3>2, <3>3
  <2>3. CASE n < i
    <3>1. /\ i - n \in 1 .. Len(u) /\ j - n \in 1 .. Len(u) /\ i - n < j - n
          /\ w[i] = u[i - n] /\ w[j] = u[j - n]
      BY <1>1, <1>3, <2>3
    <3>2. PICK k \in i - n .. j - n : Sabe(u[k])
      BY <1>3, <3>1 DEF Marcada, Separa
    <3>3. k \in Int /\ k + n \in i .. j /\ (k + n) - n = k /\ ~(k + n <= n)
      BY <1>1, <2>3
    <3>4. k + n \in 1 .. n + Len(u)
      BY <1>1, <3>3
    <3>5. w[k + n] = u[(k + n) - n]
      BY <1>1, <3>3, <3>4
    <3> QED BY <3>2, <3>3, <3>5
  <2> QED BY <1>1, <2>1, <2>2, <2>3
<1> QED BY <1>1, <1>2, <1>3 DEF Marcada, Separa, w

LEMMA MansaEsMarcada == \A s : Mansa(s) => Marcada(s)
BY DEF Mansa, Llana, Marcada, Separa

LEMMA VaciaEsMansa == Mansa(<< >>)
<1> DEFINE s == << >>
<1>1. s \in Seq(Pasos) /\ Len(s) = 0
  BY EmptySeq
<1> HIDE DEF s
<1>2. Mansa(s)
  BY <1>1 DEF Mansa, Llana, NoPide
<1> QED BY <1>2 DEF s

LEMMA PasoMarcado ==
    ASSUME NEW p \in Pasos, p.op # "usa"
    PROVE  /\ Marcada(<<p>>)
           /\ p.sobre # "utilizacionDePagina" => Mansa(<<p>>)
           /\ p.sobre # "utilizacionDePagina" /\ Sabe(p) => Sabia(<<p>>)
<1> DEFINE s == <<p>>
<1>1. s \in Seq(Pasos) /\ Len(s) = 1 /\ s[1] = p
  OBVIOUS
<1> HIDE DEF s
<1>2. /\ Marcada(s)
      /\ p.sobre # "utilizacionDePagina" => Mansa(s)
      /\ p.sobre # "utilizacionDePagina" /\ Sabe(p) => Sabia(s)
  BY <1>1 DEF Marcada, NoPide, Separa, Mansa, Llana, Sabia
<1> QED BY <1>2 DEF s

LEMMA MarcadaCon ==
    ASSUME NEW m \in Mutexes, NEW s, Marcada(s)
    PROVE  Marcada(Con(m, s))
<1>1. Con(m, s) = (<<Paso("toma", m)>> \o s) \o <<Paso("deja", m)>>
  BY ConEnTres DEF Marcada
<1>2. Marcada(<<Paso("toma", m)>>) /\ Marcada(<<Paso("deja", m)>>)
  BY PasosBien, PasoMarcado
<1> QED BY <1>1, <1>2, MarcadaSeguida

LEMMA MansaCon ==
    ASSUME NEW m \in Resto, NEW s, Mansa(s)
    PROVE  Mansa(Con(m, s)) /\ (Sabia(s) => Sabia(Con(m, s)))
<1>1. m \in Mutexes /\ m # "utilizacionDePagina"
  BY DEF Resto
<1>2. Con(m, s) = (<<Paso("toma", m)>> \o s) \o <<Paso("deja", m)>>
  BY <1>1, ConEnTres DEF Mansa, Llana
<1>3. Mansa(<<Paso("toma", m)>>) /\ Mansa(<<Paso("deja", m)>>)
  BY <1>1, PasosBien, PasoMarcado
<1>4. Mansa(Con(m, s))
  BY <1>2, <1>3, MansaSeguida
<1>5. ASSUME Sabia(s) PROVE Sabia(Con(m, s))
  <2>1. Sabia(<<Paso("toma", m)>> \o s)
    BY <1>3, <1>5, SabiaSeguida
  <2>2. Llana(<<Paso("deja", m)>>)
    BY <1>3 DEF Mansa
  <2> QED BY <1>2, <2>1, <2>2, SabiaSeguida
<1> QED BY <1>4, <1>5

\* What is good inside the section does not touch its mutex.
LEMMA BuenaEsLlana ==
    ASSUME NEW M \in SUBSET Resto, NEW s, Buena(M, s)
    PROVE  Llana(s)
<1> DEFINE a == {"utilizacionDePagina"}
<1>1. a \in SUBSET Mutexes /\ a \cap M = {} /\ "utilizacionDePagina" \in a
  BY DEF Resto, Mutexes
<1>2. Lleva("dentro", a, s, a)
  BY <1>1 DEF Buena
<1>3. \A b, p, d : Admite("dentro", b, p, d) => p.sobre # "utilizacionDePagina"
  BY DEF Admite
<1> QED BY <1>2, <1>3 DEF Lleva, Llana

-----------------------------------------------------------------------------
(* The functions.                                                          *)

\* What the closures above say of the pieces all functions are made of.
LEMMA Piezas ==
    /\ \A M \in SUBSET Resto : \A m \in M : Buena(M, Solo(m))
    /\ \A m \in Resto : Buena(Resto, Solo(m)) /\ Mansa(Solo(m)) /\ Equilibrada(Solo(m))
    /\ \A M : Buena(M, Obtiene) /\ Buena(M, Usa) /\ Buena(M, Desaloja)
    /\ Sabia(Obtiene) /\ Mansa(Obtiene) /\ Mansa(Desaloja) /\ Llana(Usa)
<1>1. ASSUME NEW M \in SUBSET Resto, NEW m \in M PROVE Buena(M, Solo(m))
  BY BuenaVacia, BuenaCon DEF Solo
<1>2. ASSUME NEW m \in Resto
      PROVE  Buena(Resto, Solo(m)) /\ Mansa(Solo(m)) /\ Equilibrada(Solo(m))
  <2>1. Buena(Resto, Solo(m))
    BY <1>1
  <2>2. Mansa(Solo(m))
    BY VaciaEsMansa, MansaCon DEF Solo
  <2> QED BY <2>1, <2>2 DEF Buena
<1>3. \A M : Buena(M, Obtiene) /\ Buena(M, Usa) /\ Buena(M, Desaloja)
  BY BuenaPaso DEF Obtiene, Usa, Desaloja
<1>4. Sabia(Obtiene) /\ Mansa(Desaloja)
  BY PasosBien, PasoMarcado DEF Obtiene, Desaloja, Sabe
<1>5. Llana(Usa)
  BY <1>3, BuenaEsLlana
<1> QED BY <1>1, <1>2, <1>3, <1>4, <1>5 DEF Sabia

LEMMA EnResto ==
    /\ {"list_tables", "list_pages", "memory", "swamp", "tlb"} \subseteq Resto
    /\ Resto \subseteq Mutexes
BY DEF Resto, Mutexes

LEMMA estaOcupadoUnEs == Buena(Resto, estaOcupadoUn) /\ Mansa(estaOcupadoUn)
<1>1. Buena(Resto \ {"list_tables"}, Solo("list_pages"))
  BY EnResto, Piezas
<1>2. Mansa(Solo("list_pages"))
  BY EnResto, Piezas
<1> QED BY <1>1, <1>2, EnResto, BuenaCon, MansaCon DEF estaOcupadoUn

LEMMA liberarFrameEs == Buena(Resto, liberarFrame)
<1> DEFINE M == Resto \ {"list_tables"}
<1>1. "list_pages" \in M /\ "memory" \in M \ {"list_pages"} /\ M \in SUBSET Resto
  BY EnResto
<1> HIDE DEF M
<1>2. Buena(M \ {"list_pages"}, Con("memory", Desaloja))
  BY <1>1, Piezas, BuenaCon
<1>3. Buena(M, Con("list_pages", Con("memory", Desaloja)))
  BY <1>1, <1>2, BuenaCon
<1> QED BY <1>3, EnResto, BuenaCon DEF liberarFrame, M

\* The bytes of a frame, under memory_mutex.
LEMMA MemoriaUsa ==
    /\ \A M \in SUBSET Resto : "memory" \in M => Buena(M, Con("memory", Usa))
    /\ Buena(Resto, Con("memory", Usa)) /\ Llana(Con("memory", Usa))
<1>1. \A M \in SUBSET Resto : "memory" \in M => Buena(M, Con("memory", Usa))
  BY Piezas, BuenaCon
<1>2. Buena(Resto, Con("memory", Usa))
  BY <1>1, EnResto
<1> QED BY <1>1, <1>2, BuenaEsLlana

LEMMA seleccionLRUEs == Buena(Resto, seleccionLRU)
<1>1. Buena(Resto, Con("list_pages", Obtiene))
  BY EnResto, Piezas, BuenaCon
<1>2. Buena(Resto, send_message_swamp) /\ Buena(Resto, delete_entrada_tlb)
  BY EnResto, Piezas DEF send_message_swamp, delete_entrada_tlb
<1>3. Buena(Resto, Con("list_pages", Obtiene) \o Con("memory", Usa))
  BY <1>1, MemoriaUsa, BuenaSeguida
<1>4. Buena(Resto, Con("list_pages", Obtiene) \o Con("memory", Usa) \o send_message_swamp)
  BY <1>2, <1>3, BuenaSeguida
<1>5. Buena(Resto, Con("list_pages", Obtiene) \o Con("memory", Usa) \o send_message_swamp
                       \o delete_entrada_tlb)
  BY <1>2, <1>4, BuenaSeguida
<1> QED BY <1>5, liberarFrameEs, BuenaSeguida DEF seleccionLRU

LEMMA TraeEs == Buena(Resto, Trae)
<1> DEFINE llena == send_message_swamp \o Con("memory", Usa)
           M == Resto \ {"list_pages"}
<1>1. "swamp" \in M /\ "memory" \in M /\ M \in SUBSET Resto
  BY EnResto
<1> HIDE DEF M
<1>2. Buena(M, send_message_swamp) /\ Buena(M, Con("memory", Usa))
  BY <1>1, Piezas, MemoriaUsa DEF send_message_swamp
<1>3. Buena(M, llena)
  BY <1>2, BuenaSeguida
<1> HIDE DEF llena
<1>4. Buena(Resto, Con("list_pages", llena))
  BY <1>3, EnResto, BuenaCon DEF M
<1>5. Buena(Resto, seleccionLRU \o estaOcupadoUn)
  BY seleccionLRUEs, estaOcupadoUnEs, BuenaSeguida
<1>6. Buena(Resto, seleccionLRU \o estaOcupadoUn \o Obtiene)
  BY <1>5, Piezas, BuenaSeguida
<1>7. Buena(Resto, seleccionLRU \o estaOcupadoUn \o Obtiene \o Con("list_pages", llena))
  BY <1>4, <1>6, BuenaSeguida
<1> QED BY <1>7 DEF Trae, llena

LEMMA AnotaEs == Buena(Resto, Anota)
<1> DEFINE cuerpo == add_entrada_tlb \o Obtiene
           M == Resto \ {"list_pages"}
<1>1. "tlb" \in M /\ M \in SUBSET Resto
  BY EnResto
<1> HIDE DEF M
<1>2. Buena(M, add_entrada_tlb) /\ Buena(M, Obtiene)
  BY <1>1, Piezas DEF add_entrada_tlb
<1>3. Buena(M, cuerpo)
  BY <1>2, BuenaSeguida
<1> HIDE DEF cuerpo
<1>4. Buena(Resto, Con("list_pages", cuerpo))
  BY <1>3, EnResto, BuenaCon DEF M
<1> QED BY <1>4 DEF Anota, cuerpo

\* The searches, which take one mutex.
LEMMA BusquedasSon ==
    /\ Buena(Resto, get_pages_by) /\ Mansa(get_pages_by)
    /\ Buena(Resto, getPageDe) /\ Mansa(getPageDe)
    /\ Buena(Resto, fetch_entrada_tlb) /\ Mansa(fetch_entrada_tlb)
    /\ Buena(Resto, send_message_swamp) /\ Mansa(send_message_swamp)
    /\ Buena(Resto, Solo("list_pages")) /\ Mansa(Solo("list_pages"))
    /\ Buena(Resto, Solo("memory"))
BY EnResto, Piezas
   DEF get_pages_by, getPageDe, fetch_entrada_tlb, send_message_swamp

LEMMA getFrameDeUnEs == \A s \in getFrameDeUn : Buena(Resto, s)
<1> DEFINE antes == get_pages_by \o fetch_entrada_tlb
           caminos == {Con("list_pages", Obtiene), Solo("list_pages") \o Trae \o Anota,
                       getPageDe \o Anota, getPageDe \o Trae \o Anota}
<1>1. Buena(Resto, antes)
  BY BusquedasSon, BuenaSeguida
<1>2. Buena(Resto, Con("list_pages", Obtiene))
  BY EnResto, Piezas, BuenaCon
<1>3. Buena(Resto, Solo("list_pages") \o Trae) /\ Buena(Resto, getPageDe \o Trae)
  BY BusquedasSon, TraeEs, BuenaSeguida
<1>4. /\ Buena(Resto, Solo("list_pages") \o Trae \o Anota)
      /\ Buena(Resto, getPageDe \o Trae \o Anota)
      /\ Buena(Resto, getPageDe \o Anota)
  BY <1>3, BusquedasSon, AnotaEs, BuenaSeguida
<1>5. \A c \in caminos : Buena(Resto, c)
  BY <1>2, <1>4
<1>6. getFrameDeUn = {antes \o c : c \in caminos}
  BY DEF getFrameDeUn
<1> HIDE DEF antes, caminos
<1>7. ASSUME NEW c \in caminos PROVE Buena(Resto, antes \o c)
  BY <1>1, <1>5, BuenaSeguida
<1> QED BY <1>6, <1>7

LEMMA mandarPaginaAgonzaEs == Buena(Resto, mandarPaginaAgonza) /\ Llana(mandarPaginaAgonza)
<1>1. Buena(Resto, mandarPaginaAgonza)
  BY MemoriaUsa, BusquedasSon, BuenaSeguida DEF mandarPaginaAgonza
<1> QED BY <1>1, BuenaEsLlana

\* A call to a function from inside the section.
LEMMA LlamaEs ==
    ASSUME NEW f \in DOMAIN Funciones, f # "read_from_memory"
    PROVE  Buena(Resto, Llama(f)) /\ Mansa(Llama(f)) /\ Equilibrada(Llama(f))
<1>1. Paso("llama", f) \in Pasos /\ f # "utilizacionDePagina"
  BY PasosBien DEF Funciones
<1>2. Mansa(Llama(f))
  BY <1>1, PasosBien, PasoMarcado DEF Llama
<1> QED BY <1>2, BuenaLlama DEF Buena

\* getFrameDeUn and then its bytes.
LEMMA LeeCabeceraEs == Buena(Resto, LeeCabecera) /\ Sabia(LeeCabecera)
<1>1. "getFrameDeUn" \in DOMAIN Funciones
  BY DEF Funciones
<1>2. Sabia(Llama("getFrameDeUn"))
  BY <1>1, PasosBien, PasoMarcado DEF Llama, Sabe
<1> QED BY <1>1, <1>2, LlamaEs, MemoriaUsa, BuenaSeguida, SabiaSeguida DEF LeeCabecera

LEMMA editarAlgoEnMemoriaEs ==
    Buena(Resto, editarAlgoEnMemoria) /\ Sabia(editarAlgoEnMemoria)
<1> DEFINE e == Llama("getFrameDeUn") \o Con("memory", Usa)
<1>1. Buena(Resto, e) /\ Sabia(e)
  BY LeeCabeceraEs DEF LeeCabecera
<1>2. editarAlgoEnMemoria = e \o getPageDe \o mandarPaginaAgonza
  BY DEF editarAlgoEnMemoria
<1> HIDE DEF e
<1>3. Buena(Resto, e \o getPageDe) /\ Sabia(e \o getPageDe)
  BY <1>1, BusquedasSon, BuenaSeguida, SabiaSeguida DEF Mansa
<1> QED BY <1>2, <1>3, mandarPaginaAgonzaEs, BuenaSeguida, SabiaSeguida

LEMMA agregarXPaginasParaEs == \A s \in agregarXPaginasPara : Buena(Resto, s)
<1> DEFINE antes == getPageDe \o Solo("list_pages") \o estaOcupadoUn
           saca == seleccionLRU \o estaOcupadoUn
<1>1. Buena(Resto, getPageDe \o Solo("list_pages"))
  BY BusquedasSon, BuenaSeguida
<1>2. Buena(Resto, antes)
  BY <1>1, estaOcupadoUnEs, BuenaSeguida
<1>3. Buena(Resto, saca) /\ Buena(Resto, << >>)
  BY seleccionLRUEs, estaOcupadoUnEs, BuenaSeguida, BuenaVacia
<1>4. agregarXPaginasPara =
          {antes \o e \o get_pages_by \o Solo("list_pages") : e \in {<< >>, saca}}
  BY DEF agregarXPaginasPara
<1> HIDE DEF antes, saca
<1>5. ASSUME NEW e \in {<< >>, saca}
      PROVE  Buena(Resto, antes \o e \o get_pages_by \o Solo("list_pages"))
  <2>1. Buena(Resto, antes \o e)
    BY <1>2, <1>3, BuenaSeguida
  <2>2. Buena(Resto, antes \o e \o get_pages_by)
    BY <2>1, BusquedasSon, BuenaSeguida
  <2> QED BY <2>2, BusquedasSon, BuenaSeguida
<1> QED BY <1>4, <1>5

LEMMA entraEnElEspacioLibreEs == \A s \in entraEnElEspacioLibre : Buena(Resto, s)
<1> DEFINE antes == get_pages_by \o Solo("list_pages")
           busquedas == {<< >>, LeeCabecera, LeeCabecera \o LeeCabecera \o Solo("memory")}
<1>1. Buena(Resto, antes)
  BY BusquedasSon, BuenaSeguida
<1>2. Buena(Resto, LeeCabecera \o LeeCabecera)
  BY LeeCabeceraEs, BuenaSeguida
<1>3. \A e \in busquedas : Buena(Resto, e)
  BY <1>2, LeeCabeceraEs, BusquedasSon, BuenaSeguida, BuenaVacia
<1>4. entraEnElEspacioLibre = {antes \o e : e \in busquedas}
  BY DEF entraEnElEspacioLibre
<1> HIDE DEF antes, busquedas
<1>5. ASSUME NEW e \in busquedas PROVE Buena(Resto, antes \o e)
  BY <1>1, <1>3, BuenaSeguida
<1> QED BY <1>4, <1>5

LEMMA LiberaCabeceraEs == \A s \in LiberaCabecera : Buena(Resto, s)
<1> DEFINE g == Llama("getFrameDeUn")
           m == mandarPaginaAgonza
<1>1. Buena(Resto, g)
  BY LlamaEs DEF Funciones
<1>2. Buena(Resto, Usa) /\ Buena(Resto, getPageDe) /\ Buena(Resto, m)
  BY Piezas, BusquedasSon, mandarPaginaAgonzaEs
<1>3. LiberaCabecera =
          {g \o Usa, g \o Usa \o g \o Usa \o Usa \o getPageDe \o m \o Usa \o getPageDe \o m}
  BY DEF LiberaCabecera
<1> HIDE DEF g, m
<1>4. Buena(Resto, g \o Usa)
  BY <1>1, <1>2, BuenaSeguida
<1>5. Buena(Resto, g \o Usa \o g \o Usa)
  <2>1. Buena(Resto, g \o Usa \o g)
    BY <1>1, <1>4, BuenaSeguida
  <2> QED BY <1>2, <2>1, BuenaSeguida
<1>6. Buena(Resto, g \o Usa \o g \o Usa \o Usa \o getPageDe \o m)
  <2>1. Buena(Resto, g \o Usa \o g \o Usa \o Usa)
    BY <1>2, <1>5, BuenaSeguida
  <2>2. Buena(Resto, g \o Usa \o g \o Usa \o Usa \o getPageDe)
    BY <1>2, <2>1, BuenaSeguida
  <2> QED BY <1>2, <2>2, BuenaSeguida
<1>7. Buena(Resto, g \o Usa \o g \o Usa \o Usa \o getPageDe \o m \o Usa \o getPageDe)
  <2>1. Buena(Resto, g \o Usa \o g \o Usa \o Usa \o getPageDe \o m \o Usa)
    BY <1>2, <1>6, BuenaSeguida
  <2> QED BY <1>2, <2>1, BuenaSeguida
<1>8. Buena(Resto, g \o Usa \o g \o Usa \o Usa \o getPageDe \o m \o Usa \o getPageDe \o m)
  BY <1>2, <1>7, BuenaSeguida
<1> QED BY <1>3, <1>4, <1>8

LEMMA UneOSacaEs == \A s \in UneOSaca : Buena(Resto, s)
<1>1. Buena(Resto, editarAlgoEnMemoria \o editarAlgoEnMemoria)
  BY editarAlgoEnMemoriaEs, BuenaSeguida
<1>2. Buena(Resto, Llama("deletePagina"))
  BY LlamaEs DEF Funciones
<1>3. Buena(Resto, getPageDe \o Llama("deletePagina"))
  BY <1>2, BusquedasSon, BuenaSeguida
<1> QED BY <1>1, <1>3, BusquedasSon DEF UneOSaca

-----------------------------------------------------------------------------
(* Calls: paths that begin and end with no mutex.                          *)

Ordenada(s) == Lleva("orden", {}, s, {}) /\ Marcada(s)
Seccionada(s) == Lleva("seccion", {}, s, {}) /\ Marcada(s)

LEMMA OrdenadaSeguida ==
    /\ \A s, u : Ordenada(s) /\ Ordenada(u) => Ordenada(s \o u)
    /\ \A s, u : Seccionada(s) /\ Seccionada(u) => Seccionada(s \o u)
    /\ \A s : Ordenada(s) => Seccionada(s)
    /\ Ordenada(<< >>)
<1>1. ASSUME NEW s, NEW u, Ordenada(s), Ordenada(u) PROVE Ordenada(s \o u)
  BY <1>1, LlevaSeguido, MarcadaSeguida DEF Ordenada
<1>2. ASSUME NEW s, NEW u, Seccionada(s), Seccionada(u) PROVE Seccionada(s \o u)
  BY <1>2, LlevaSeguido, MarcadaSeguida DEF Seccionada
<1>3. ASSUME NEW s, Ordenada(s) PROVE Seccionada(s)
  BY <1>3, LlevaMonotono DEF Ordenada, Seccionada, Modos
<1>4. Ordenada(<< >>)
  BY LlevaVacio, VaciaEsMansa, MansaEsMarcada DEF Ordenada, Conjuntos
<1> QED BY <1>1, <1>2, <1>3, <1>4

\* A mutex taken and left, and a section of utilizacionDePagina_mutex.
LEMMA OrdenadaSeccion ==
    /\ \A m \in Mutexes : Ordenada(Solo(m))
    /\ \A s : Buena(Resto, s) /\ Mansa(s) => Ordenada(Con("utilizacionDePagina", s))
<1>1. ASSUME NEW m \in Mutexes PROVE Ordenada(Solo(m))
  <2>1. Lleva("orden", {} \cup {m}, << >>, {} \cup {m})
    BY LlevaVacio DEF Conjuntos
  <2>2. Lleva("orden", {}, Con(m, << >>), {})
    BY <2>1, LlevaCon
  <2>3. Marcada(Con(m, << >>))
    BY VaciaEsMansa, MansaEsMarcada, MarcadaCon
  <2> QED BY <2>2, <2>3 DEF Ordenada, Solo
<1>2. ASSUME NEW s, Buena(Resto, s), Mansa(s)
      PROVE  Ordenada(Con("utilizacionDePagina", s))
  <2> DEFINE a == {} \cup {"utilizacionDePagina"}
  <2>1. a \in SUBSET Mutexes /\ "utilizacionDePagina" \in a /\ a \cap Resto = {}
    BY DEF Mutexes, Resto
  <2>2. Lleva("orden", a, s, a)
    BY <1>2, <2>1, LlevaMonotono DEF Buena, Modos
  <2>3. Lleva("orden", {}, Con("utilizacionDePagina", s), {})
    BY <2>2, LlevaCon DEF Mutexes
  <2>4. Marcada(Con("utilizacionDePagina", s))
    BY <1>2, MansaEsMarcada, MarcadaCon DEF Mutexes
  <2> QED BY <2>3, <2>4 DEF Ordenada
<1> QED BY <1>1, <1>2

LEMMA deletePaginaEs ==
    \A s \in deletePagina : Buena(Resto, s) /\ Seccionada(s)
<1> DEFINE antes == get_pages_by \o fetch_entrada_tlb
           M == Resto \ {"list_pages"}
           a == {"list_pages"}
<1>1. /\ M \in SUBSET Resto /\ "list_tables" \in M /\ "tlb" \in M
      /\ a \in SUBSET Mutexes /\ "list_tables" \in Mutexes /\ "tlb" \in Mutexes
      /\ "list_tables" \notin a /\ "tlb" \notin a
      /\ a \in Conjuntos /\ a \cup {"list_tables"} \in Conjuntos /\ a \cup {"tlb"} \in Conjuntos
  BY EnResto, EnConjuntos DEF Mutexes, Conjuntos
<1>2. Buena(M, getPageDe) /\ Buena(M, delete_entrada_tlb) /\ Buena(M, << >>)
  <2> HIDE DEF M, a
  <2> QED BY <1>1, Piezas, BuenaVacia DEF getPageDe, get_pages_by, delete_entrada_tlb
<1>3. /\ Lleva("seccion", a, getPageDe, a) /\ Lleva("seccion", a, delete_entrada_tlb, a)
      /\ Lleva("seccion", a, << >>, a)
  <2> HIDE DEF M, a
  <2>1. /\ Lleva("seccion", a \cup {"list_tables"}, << >>, a \cup {"list_tables"})
        /\ Lleva("seccion", a \cup {"tlb"}, << >>, a \cup {"tlb"})
        /\ Lleva("seccion", a, << >>, a)
    BY <1>1, LlevaVacio
  <2>2. Lleva("seccion", a, Con("list_tables", << >>), a)
    BY <1>1, <2>1, LlevaCon
  <2>3. Lleva("seccion", a, Con("tlb", << >>), a)
    BY <1>1, <2>1, LlevaCon
  <2> QED BY <2>1, <2>2, <2>3 DEF getPageDe, get_pages_by, delete_entrada_tlb, Solo
<1>4. Mansa(getPageDe) /\ Mansa(delete_entrada_tlb) /\ Mansa(<< >>)
  BY EnResto, BusquedasSon, Piezas, VaciaEsMansa DEF delete_entrada_tlb
<1>5. Buena(Resto, antes) /\ Seccionada(antes)
  <2>1. Seccionada(get_pages_by) /\ Seccionada(fetch_entrada_tlb)
    BY EnResto, OrdenadaSeccion, OrdenadaSeguida DEF get_pages_by, fetch_entrada_tlb
  <2> QED BY <2>1, BusquedasSon, BuenaSeguida, OrdenadaSeguida
<1>6. ASSUME NEW t \in {getPageDe, << >>}
      PROVE  LET s == antes \o Con("list_pages", t \o delete_entrada_tlb)
             IN  Buena(Resto, s) /\ Seccionada(s)
  <2> DEFINE u == t \o delete_entrada_tlb
  <2> HIDE DEF antes, M
  <2>1. Buena(M, u) /\ Lleva("seccion", {} \cup a, u, {} \cup a) /\ Mansa(u)
    BY <1>2, <1>3, <1>4, BuenaSeguida, LlevaSeguido, MansaSeguida
  <2> HIDE DEF u
  <2>2. Buena(Resto, Con("list_pages", u))
    BY <2>1, EnResto, BuenaCon DEF M
  <2>3. Lleva("seccion", {}, Con("list_pages", u), {})
    BY <2>1, EnResto, LlevaCon
  <2>4. Marcada(Con("list_pages", u))
    BY <2>1, EnResto, MansaCon, MansaEsMarcada
  <2>5. Seccionada(Con("list_pages", u))
    BY <2>3, <2>4 DEF Seccionada
  <2>6. Buena(Resto, antes \o Con("list_pages", u)) /\ Seccionada(antes \o Con("list_pages", u))
    BY <1>5, <2>2, <2>5, BuenaSeguida, OrdenadaSeguida
  <2> QED BY <2>6 DEF u
<1>7. deletePagina =
          {antes \o Con("list_pages", t \o delete_entrada_tlb) : t \in {getPageDe, << >>}}
  BY DEF deletePagina
<1> HIDE DEF antes
<1> QED BY <1>6, <1>7

LEMMA read_from_memoryEs ==
    \A s \in read_from_memory : Equilibrada(s) /\ Ordenada(s)
<1> DEFINE cuerpo == Llama("getFrameDeUn") \o Con("memory", Usa)
<1>1. Buena(Resto, cuerpo) /\ Mansa(cuerpo)
  BY LeeCabeceraEs DEF LeeCabecera, Sabia
<1>2. LeePagina = Con("utilizacionDePagina", cuerpo) /\ "utilizacionDePagina" \in Mutexes
  BY DEF LeePagina, Mutexes
<1> HIDE DEF cuerpo
<1>3. Equilibrada(LeePagina) /\ Ordenada(LeePagina)
  BY <1>1, <1>2, EquilibradaCon, OrdenadaSeccion DEF Buena
<1> QED BY <1>3, EquilibradaSeguida, OrdenadaSeguida DEF read_from_memory

\* What a call to a function does, for every path it may take.
LEMMA FuncionesBien ==
    ASSUME NEW f \in DOMAIN Funciones, NEW s \in Funciones[f]
    PROVE  /\ Equilibrada(s)
           /\ f # "read_from_memory" => Buena(Resto, s)
           /\ f = "read_from_memory" => Ordenada(s)
           /\ f = "deletePagina" => Seccionada(s)
<1>1. CASE f = "read_from_memory"
  BY <1>1, read_from_memoryEs DEF Funciones
<1>2. CASE f # "read_from_memory"
  <2>1. Buena(Resto, s) /\ (f = "deletePagina" => Seccionada(s))
    BY <1>2, getFrameDeUnEs, agregarXPaginasParaEs, deletePaginaEs, entraEnElEspacioLibreEs,
       LiberaCabeceraEs, UneOSacaEs DEF Funciones
  <2> QED BY <1>2, <2>1 DEF Buena
<1> QED BY <1>1, <1>2

-----------------------------------------------------------------------------
(* The calls.                                                              *)

LEMMA SolosOrdenados ==
    /\ Ordenada(get_pages_by) /\ Ordenada(getPageDe) /\ Ordenada(send_message_swamp)
    /\ Ordenada(Solo("list_pages")) /\ Ordenada(Solo("list_tables"))
    /\ Ordenada(DireccionInvalida)
BY OrdenadaSeccion
   DEF get_pages_by, getPageDe, send_message_swamp, DireccionInvalida, Mutexes

LEMMA BuscaEs == Ordenada(Busca) /\ Equilibrada(Busca)
<1>1. Buena(Resto, Llama("entraEnElEspacioLibre")) /\ Mansa(Llama("entraEnElEspacioLibre"))
  BY LlamaEs DEF Funciones
<1> QED BY <1>1, OrdenadaSeccion, EquilibradaCon DEF Busca, Buena, Mutexes

LEMMA EditaEnSeccion ==
    Ordenada(Con("utilizacionDePagina", editarAlgoEnMemoria))
BY editarAlgoEnMemoriaEs, OrdenadaSeccion DEF Sabia

LEMMA inicializarUnProcesoEs == \A s \in inicializarUnProceso : Ordenada(s)
<1> DEFINE cuerpo == estaOcupadoUn \o Obtiene \o Con("memory", Usa) \o Solo("list_pages")
<1>1. Buena(Resto, estaOcupadoUn \o Obtiene) /\ Sabia(estaOcupadoUn \o Obtiene)
  BY estaOcupadoUnEs, Piezas, BuenaSeguida, SabiaSeguida
<1>2. /\ Buena(Resto, estaOcupadoUn \o Obtiene \o Con("memory", Usa))
      /\ Sabia(estaOcupadoUn \o Obtiene \o Con("memory", Usa))
  BY <1>1, MemoriaUsa, BuenaSeguida, SabiaSeguida
<1>3. Buena(Resto, cuerpo) /\ Sabia(cuerpo)
  BY <1>2, BusquedasSon, BuenaSeguida, SabiaSeguida DEF Mansa
<1> HIDE DEF cuerpo
<1>4. Ordenada(Con("utilizacionDePagina", cuerpo))
  BY <1>3, OrdenadaSeccion DEF Sabia
<1>5. Ordenada(Solo("list_tables") \o Con("utilizacionDePagina", cuerpo))
  BY <1>4, SolosOrdenados, OrdenadaSeguida
<1> QED BY <1>5 DEF inicializarUnProceso, cuerpo

LEMMA memallocAlFinalEs == \A s \in memallocAlFinal : Ordenada(s)
<1> DEFINE e == Con("utilizacionDePagina", editarAlgoEnMemoria)
           l == Solo("list_pages")
<1>1. Ordenada(e) /\ Ordenada(l)
  BY EditaEnSeccion, SolosOrdenados
<1>2. memallocAlFinal = {Busca \o get_pages_by \o l \o e \o e \o l}
  BY DEF memallocAlFinal
<1> HIDE DEF e, l
<1>3. Ordenada(Busca \o get_pages_by \o l)
  <2>1. Ordenada(Busca \o get_pages_by)
    BY BuscaEs, SolosOrdenados, OrdenadaSeguida
  <2> QED BY <1>1, <2>1, OrdenadaSeguida
<1>4. Ordenada(Busca \o get_pages_by \o l \o e)
  BY <1>1, <1>3, OrdenadaSeguida
<1>5. Ordenada(Busca \o get_pages_by \o l \o e \o e)
  BY <1>1, <1>4, OrdenadaSeguida
<1> QED BY <1>1, <1>2, <1>5, OrdenadaSeguida

\* Until the pages are added and written.
LEMMA CreceEs ==
    LET e == Llama("agregarXPaginasPara") \o editarAlgoEnMemoria \o editarAlgoEnMemoria
    IN  Ordenada(Busca \o get_pages_by \o Solo("list_pages") \o Con("utilizacionDePagina", e))
<1> DEFINE e == Llama("agregarXPaginasPara") \o editarAlgoEnMemoria \o editarAlgoEnMemoria
<1>1. /\ Buena(Resto, Llama("agregarXPaginasPara") \o editarAlgoEnMemoria)
      /\ Mansa(Llama("agregarXPaginasPara") \o editarAlgoEnMemoria)
  <2>1. Buena(Resto, Llama("agregarXPaginasPara")) /\ Mansa(Llama("agregarXPaginasPara"))
    BY LlamaEs DEF Funciones
  <2> QED BY <2>1, editarAlgoEnMemoriaEs, BuenaSeguida, MansaSeguida DEF Sabia
<1>2. Buena(Resto, e) /\ Mansa(e)
  BY <1>1, editarAlgoEnMemoriaEs, BuenaSeguida, MansaSeguida DEF Sabia
<1> HIDE DEF e
<1>3. Ordenada(Con("utilizacionDePagina", e))
  BY <1>2, OrdenadaSeccion
<1>4. Ordenada(Busca \o get_pages_by)
  BY BuscaEs, SolosOrdenados, OrdenadaSeguida
<1>5. Ordenada(Busca \o get_pages_by \o Solo("list_pages"))
  BY <1>4, SolosOrdenados, OrdenadaSeguida
<1>6. Ordenada(Busca \o get_pages_by \o Solo("list_pages") \o Con("utilizacionDePagina", e))
  BY <1>3, <1>5, OrdenadaSeguida
<1> QED BY <1>6 DEF e

LEMMA memallocCreceEs ==
    /\ \A s \in memallocCrece : Ordenada(s)
    /\ \A s \in memallocDegenera : Seccionada(s)
<1> DEFINE antes == Busca \o get_pages_by \o Solo("list_pages")
                      \o Con("utilizacionDePagina",
                             Llama("agregarXPaginasPara") \o editarAlgoEnMemoria
                                 \o editarAlgoEnMemoria)
           l == Solo("list_pages")
           d == Llama("deletePagina")
<1>1. Ordenada(antes) /\ Ordenada(l)
  BY CreceEs, SolosOrdenados
<1>2. Seccionada(d)
  <2>1. Paso("llama", "deletePagina") \in Pasos
    BY PasosBien DEF Funciones
  <2>2. Admite("seccion", {}, Paso("llama", "deletePagina"), {})
    BY PasosBien DEF Admite, PuedeLlamar
  <2> QED BY <2>1, <2>2, PasosBien, PasoMarcado, LlevaUno
          DEF Seccionada, Llama, Conjuntos
<1>3. /\ memallocCrece = {antes \o << >> \o l \o l}
      /\ memallocDegenera = {antes \o d \o l \o l}
  BY DEF memallocCrece, memallocDegenera, CreceY
<1> HIDE DEF antes, l, d
<1>4. Ordenada(antes \o << >> \o l \o l)
  <2>1. Ordenada(antes \o << >>)
    BY <1>1, OrdenadaSeguida
  <2>2. Ordenada(antes \o << >> \o l)
    BY <1>1, <2>1, OrdenadaSeguida
  <2> QED BY <1>1, <2>2, OrdenadaSeguida
<1>5. Seccionada(antes \o d \o l \o l)
  <2>1. Seccionada(antes \o d) /\ Seccionada(l)
    BY <1>1, <1>2, OrdenadaSeguida
  <2>2. Seccionada(antes \o d \o l)
    BY <2>1, OrdenadaSeguida
  <2> QED BY <2>1, <2>2, OrdenadaSeguida
<1> QED BY <1>3, <1>4, <1>5

LEMMA memallocReusaEs ==
    /\ \A s \in memallocReusa : Equilibrada(s)
    /\ \A s \in memallocDivide : Equilibrada(s)
<1>1. /\ Equilibrada(LeeCabecera) /\ Equilibrada(getPageDe)
      /\ Equilibrada(mandarPaginaAgonza) /\ Equilibrada(Usa)
      /\ Equilibrada(Llama("getFrameDeUn"))
  BY LeeCabeceraEs, BusquedasSon, mandarPaginaAgonzaEs, Piezas, LlamaEs DEF Buena, Funciones
<1>2. Equilibrada(Marca)
  <2>1. Equilibrada(Busca \o LeeCabecera)
    BY <1>1, BuscaEs, EquilibradaSeguida
  <2>2. Equilibrada(Busca \o LeeCabecera \o getPageDe)
    BY <1>1, <2>1, EquilibradaSeguida
  <2> QED BY <1>1, <2>2, EquilibradaSeguida DEF Marca
<1>3. Equilibrada(Marca \o mandarPaginaAgonza)
  BY <1>1, <1>2, EquilibradaSeguida
<1> DEFINE cuerpo == Llama("getFrameDeUn") \o Usa \o mandarPaginaAgonza \o getPageDe
<1>4. Equilibrada(cuerpo)
  <2>1. Equilibrada(Llama("getFrameDeUn") \o Usa)
    BY <1>1, EquilibradaSeguida
  <2>2. Equilibrada(Llama("getFrameDeUn") \o Usa \o mandarPaginaAgonza)
    BY <1>1, <2>1, EquilibradaSeguida
  <2> QED BY <1>1, <2>2, EquilibradaSeguida
<1> HIDE DEF cuerpo
<1>5. Equilibrada(Con("memory", cuerpo))
  BY <1>4, EquilibradaCon DEF Mutexes
<1>6. Equilibrada(Marca \o Con("memory", cuerpo))
  BY <1>2, <1>5, EquilibradaSeguida
<1> QED BY <1>3, <1>6 DEF memallocReusa, memallocDivide, cuerpo

LEMMA LlamaLeeEs == Ordenada(Llama("read_from_memory"))
<1>1. Paso("llama", "read_from_memory") \in Pasos
  BY PasosBien DEF Funciones
<1>2. Admite("orden", {}, Paso("llama", "read_from_memory"), {})
  BY PasosBien DEF Admite, PuedeLlamar
<1> QED BY <1>1, <1>2, PasosBien, PasoMarcado, LlevaUno DEF Ordenada, Llama, Conjuntos

LEMMA memfreeEs == \A s \in memfree : Ordenada(s)
<1> DEFINE antes == get_pages_by \o Solo("list_pages")
           libera == Llama("LiberaCabecera")
           lee == Llama("read_from_memory")
           une == Con("utilizacionDePagina", Llama("UneOSaca"))
           caminos == {DireccionInvalida, Con("utilizacionDePagina", libera \o getPageDe),
                       Con("utilizacionDePagina", libera) \o lee \o une}
<1>1. Ordenada(antes)
  BY SolosOrdenados, OrdenadaSeguida
<1>2. Buena(Resto, libera) /\ Mansa(libera)
  BY LlamaEs DEF Funciones
<1>3. Ordenada(Con("utilizacionDePagina", libera))
  BY <1>2, OrdenadaSeccion
<1>4. Ordenada(Con("utilizacionDePagina", libera \o getPageDe))
  <2>1. Buena(Resto, libera \o getPageDe) /\ Mansa(libera \o getPageDe)
    BY <1>2, BusquedasSon, BuenaSeguida, MansaSeguida
  <2> QED BY <2>1, OrdenadaSeccion
<1>5. Ordenada(une)
  <2>1. Buena(Resto, Llama("UneOSaca")) /\ Mansa(Llama("UneOSaca"))
    BY LlamaEs DEF Funciones
  <2> QED BY <2>1, OrdenadaSeccion
<1>6. Ordenada(lee)
  BY LlamaLeeEs
<1>7. memfree = {antes \o c : c \in caminos}
  BY DEF memfree
<1>8. \A c \in caminos : Ordenada(c)
  <2> HIDE DEF antes, libera, lee, une
  <2>1. Ordenada(Con("utilizacionDePagina", libera) \o lee)
    BY <1>3, <1>6, OrdenadaSeguida
  <2>2. Ordenada(Con("utilizacionDePagina", libera) \o lee \o une)
    BY <1>5, <2>1, OrdenadaSeguida
  <2> QED BY <1>4, <2>2, SolosOrdenados
<1> HIDE DEF antes, caminos
<1>9. ASSUME NEW c \in caminos PROVE Ordenada(antes \o c)
  BY <1>1, <1>8, OrdenadaSeguida
<1> QED BY <1>7, <1>9

LEMMA memreadEs == \A s \in memread : Ordenada(s)
<1>1. Ordenada(get_pages_by \o Llama("read_from_memory"))
  BY LlamaLeeEs, SolosOrdenados, OrdenadaSeguida
<1> QED BY <1>1, SolosOrdenados DEF memread

LEMMA memwriteEs == \A s \in memwrite : Ordenada(s)
<1> DEFINE antes == get_pages_by \o Solo("list_pages")
           e == Con("utilizacionDePagina", editarAlgoEnMemoria)
<1>1. Ordenada(antes) /\ Ordenada(e)
  BY SolosOrdenados, OrdenadaSeguida, EditaEnSeccion
<1>2. memwrite = {antes \o c : c \in {<< >>, e}}
  BY DEF memwrite
<1> HIDE DEF antes, e
<1>3. ASSUME NEW c \in {<< >>, e} PROVE Ordenada(antes \o c)
  BY <1>1, OrdenadaSeguida
<1> QED BY <1>2, <1>3

LEMMA delete_processEs == \A s \in delete_process : Ordenada(s)
<1> DEFINE cuerpo == Con("list_pages", Solo("list_tables"))
<1>1. Buena(Resto, cuerpo) /\ Mansa(cuerpo)
  <2>1. Buena(Resto \ {"list_pages"}, Solo("list_tables"))
    BY EnResto, Piezas
  <2>2. Mansa(Solo("list_tables"))
    BY EnResto, Piezas
  <2> QED BY <2>1, <2>2, EnResto, BuenaCon, MansaCon
<1>2. Borra = Con("utilizacionDePagina", cuerpo)
  BY DEF Borra
<1> HIDE DEF cuerpo
<1>3. Ordenada(Borra)
  BY <1>1, <1>2, OrdenadaSeccion
<1>4. Ordenada(get_pages_by \o send_message_swamp)
  BY SolosOrdenados, OrdenadaSeguida
<1>5. Ordenada(get_pages_by \o send_message_swamp \o Borra)
  BY <1>3, <1>4, OrdenadaSeguida
<1> QED BY <1>5 DEF delete_process

\* A page is sent while list_pages_mutex is held, inside a section of its own.
LEMMA SuspendeEs ==
    LET a == {} \cup {"list_pages"}
    IN  /\ Lleva("seccion", a, Suspende, a) /\ Marcada(Suspende)
        /\ Lleva("seccion", a, Con("utilizacionDePagina", Manda), a)
        /\ Marcada(Con("utilizacionDePagina", Manda))
<1> DEFINE a == {} \cup {"list_pages"}
           b == a \cup {"utilizacionDePagina"}
           M == {"memory", "swamp", "tlb"}
           saca == Con("memory", Desaloja)
<1>1. /\ M \in SUBSET Resto /\ M \subseteq Resto /\ "memory" \in M /\ "swamp" \in M /\ "tlb" \in M
      /\ a \in SUBSET Mutexes /\ "utilizacionDePagina" \in Mutexes
      /\ "utilizacionDePagina" \notin a /\ b \in SUBSET Mutexes
      /\ "utilizacionDePagina" \in b /\ b \cap M = {}
  BY DEF Resto, Mutexes
<1> HIDE DEF M, a, b
<1>2. /\ Buena(M, Obtiene) /\ Buena(M, Con("memory", Usa)) /\ Buena(M, send_message_swamp)
      /\ Buena(M, delete_entrada_tlb) /\ Buena(M, saca)
  BY <1>1, Piezas, MemoriaUsa, BuenaCon DEF send_message_swamp, delete_entrada_tlb
<1>3. /\ Sabia(Obtiene) /\ Llana(Con("memory", Usa)) /\ Mansa(send_message_swamp)
      /\ Mansa(delete_entrada_tlb) /\ Mansa(saca)
  <2>1. "tlb" \in Resto /\ "memory" \in Resto
    BY EnResto
  <2> QED BY <2>1, Piezas, MemoriaUsa, BusquedasSon, MansaCon DEF delete_entrada_tlb
<1> HIDE DEF saca
<1>4. Buena(M, Manda) /\ Sabia(Manda)
  <2>1. Buena(M, Obtiene \o Con("memory", Usa)) /\ Sabia(Obtiene \o Con("memory", Usa))
    BY <1>2, <1>3, BuenaSeguida, SabiaSeguida
  <2>2. /\ Buena(M, Obtiene \o Con("memory", Usa) \o send_message_swamp)
        /\ Sabia(Obtiene \o Con("memory", Usa) \o send_message_swamp)
    BY <1>2, <1>3, <2>1, BuenaSeguida, SabiaSeguida DEF Mansa
  <2> QED BY <1>2, <1>3, <2>2, BuenaSeguida, SabiaSeguida DEF Manda, Mansa
<1>5. Buena(M, Manda \o saca) /\ Mansa(Manda \o saca)
  BY <1>2, <1>3, <1>4, BuenaSeguida, MansaSeguida DEF Sabia
<1>6. ASSUME NEW s, Buena(M, s), Mansa(s)
      PROVE  /\ Lleva("seccion", a, Con("utilizacionDePagina", s), a)
             /\ Marcada(Con("utilizacionDePagina", s))
  <2>1. Lleva("dentro", b, s, b)
    BY <1>1, <1>6 DEF Buena
  <2>2. Lleva("seccion", b, s, b)
    BY <2>1, LlevaMonotono DEF Modos
  <2>3. Lleva("seccion", a, Con("utilizacionDePagina", s), a)
    BY <1>1, <2>2, LlevaCon DEF b
  <2> QED BY <1>1, <1>6, <2>3, MansaEsMarcada, MarcadaCon
<1>7. Suspende = Con("utilizacionDePagina", Manda \o saca)
  BY DEF Suspende, saca
<1>8. /\ Lleva("seccion", a, Suspende, a) /\ Marcada(Suspende)
      /\ Lleva("seccion", a, Con("utilizacionDePagina", Manda), a)
      /\ Marcada(Con("utilizacionDePagina", Manda))
  BY <1>4, <1>5, <1>6, <1>7 DEF Sabia
<1> QED BY <1>8 DEF a

LEMMA suspend_processEs ==
    /\ \A s \in suspend_process : Seccionada(s)
    /\ \A s \in suspendRechazada : Lleva("seccion", {}, s, {"list_pages"}) /\ Marcada(s)
<1> DEFINE a == {} \cup {"list_pages"}
           manda == Con("utilizacionDePagina", Manda)
<1>1. /\ Lleva("seccion", a, Suspende, a) /\ Marcada(Suspende)
      /\ Lleva("seccion", a, manda, a) /\ Marcada(manda)
  BY SuspendeEs
<1>2. /\ Lleva("seccion", a, Suspende \o Suspende, a) /\ Marcada(Suspende \o Suspende)
  BY <1>1, LlevaSeguido, MarcadaSeguida
<1>3. Seccionada(get_pages_by)
  BY SolosOrdenados, OrdenadaSeguida
<1>4. "list_pages" \in Mutexes /\ a \in Conjuntos /\ {} \in Conjuntos
  BY DEF Mutexes, Conjuntos
<1>5. ASSUME NEW s, Lleva("seccion", a, s, a), Marcada(s)
      PROVE  Seccionada(get_pages_by \o Con("list_pages", s))
  <2>1. Lleva("seccion", {}, Con("list_pages", s), {})
    BY <1>4, <1>5, LlevaCon
  <2>2. Seccionada(Con("list_pages", s))
    BY <1>4, <1>5, <2>1, MarcadaCon DEF Seccionada
  <2> QED BY <1>3, <2>2, OrdenadaSeguida
<1> DEFINE toma == Paso("toma", "list_pages")
<1>6. Lleva("seccion", {}, <<toma>>, a) /\ Marcada(<<toma>>)
  <2>1. toma \in Pasos /\ toma.op = "toma" /\ toma.sobre = "list_pages"
    BY <1>4, PasosBien
  <2> HIDE DEF toma
  <2>2. Admite("seccion", {}, toma, a)
    BY <2>1 DEF Admite
  <2> QED BY <1>4, <2>1, <2>2, LlevaUno, PasoMarcado
<1> HIDE DEF manda, toma
<1>7. /\ Lleva("seccion", {}, get_pages_by \o <<toma>>, a) /\ Marcada(get_pages_by \o <<toma>>)
  BY <1>3, <1>6, LlevaSeguido, MarcadaSeguida DEF Seccionada
<1>8. /\ Lleva("seccion", {}, get_pages_by \o <<toma>> \o manda, a)
      /\ Marcada(get_pages_by \o <<toma>> \o manda)
  BY <1>1, <1>7, LlevaSeguido, MarcadaSeguida
<1>9. a = {"list_pages"}
  OBVIOUS
<1>10. suspendRechazada = {get_pages_by \o <<toma>> \o manda}
  BY DEF suspendRechazada, toma, manda
<1>11. suspend_process = {get_pages_by \o Con("list_pages", Suspende),
                          get_pages_by \o Con("list_pages", Suspende \o Suspende)}
  BY DEF suspend_process
<1>12. /\ Seccionada(get_pages_by \o Con("list_pages", Suspende))
       /\ Seccionada(get_pages_by \o Con("list_pages", Suspende \o Suspende))
  BY <1>1, <1>2, <1>5
<1> QED BY <1>8, <1>9, <1>10, <1>11, <1>12

-----------------------------------------------------------------------------
(* The invariant.                                                          *)

Modo(c) == IF c \in SinSeccion THEN "libre" ELSE IF c \in SinOrden THEN "seccion" ELSE "orden"

\* What a call holds at its end: nothing, unless swamp refused a suspension; the one that
\* takes a mutex twice has no end.
Finales(c) == {{}, Nunca} \cup IF c = "suspendRechazada" THEN {{"list_pages"}} ELSE {}

\* What a call does, for every path it may take.
LEMMA PedidosBien ==
    ASSUME NEW c \in DOMAIN Pedidos, NEW s \in Pedidos[c]
    PROVE  /\ \E fin \in Finales(c) : Lleva(Modo(c), {}, s, fin)
           /\ c \notin SinSeccion => Marcada(s)
<1>1. CASE c \in SinSeccion
  <2>1. Equilibrada(s)
    BY <1>1, memallocReusaEs DEF Pedidos, SinSeccion
  <2>2. Lleva("libre", {}, s, {}) \/ Lleva("libre", {}, s, Nunca)
    BY <2>1 DEF Equilibrada
  <2> QED BY <1>1, <2>2 DEF Modo, Finales
<1>2. CASE c \in SinOrden \ (SinSeccion \cup {"suspendRechazada"})
  <2>1. Seccionada(s)
    BY <1>2, memallocCreceEs, suspend_processEs DEF Pedidos, SinSeccion, SinOrden
  <2> QED BY <1>2, <2>1 DEF Modo, Finales, Seccionada
<1>3. CASE c = "suspendRechazada"
  <2>1. Lleva("seccion", {}, s, {"list_pages"}) /\ Marcada(s)
    BY <1>3, suspend_processEs DEF Pedidos
  <2> QED BY <1>3, <2>1 DEF Modo, Finales, SinSeccion, SinOrden
<1>4. CASE c \notin SinOrden
  <2>1. Ordenada(s)
    BY <1>4, inicializarUnProcesoEs, memallocAlFinalEs, memallocCreceEs, memfreeEs, memreadEs,
       memwriteEs, delete_processEs DEF Pedidos, SinSeccion, SinOrden
  <2> QED BY <1>4, <2>1 DEF Modo, Finales, Ordenada, SinOrden
<1> QED BY <1>1, <1>2, <1>3, <1>4 DEF SinOrden

Tiene(t) == {m \in Mutexes : dueno[m] = t}

Tipos ==
    /\ llamada \in [Servidores -> {"ninguna"} \cup DOMAIN Pedidos]
    /\ hilo \in [Servidores -> Seq(Pasos)]
    /\ dueno \in [Mutexes -> Servidores \cup {Nadie}]
    /\ \A t \in Servidores : llamada[t] = "ninguna" => hilo[t] = << >>

\* What is left of a call keeps its discipline from what its thread holds.
Encaminado(t) ==
    \E fin \in Finales(llamada[t]) : Lleva(Modo(llamada[t]), Tiene(t), hilo[t], fin)

\* A thread that knows a frame and has yet to use it holds utilizacionDePagina_mutex.
MarcoGuardado(t) ==
    llamada[t] \notin SinSeccion =>
        Separa(hilo[t]) /\ (NoPide(hilo[t]) \/ "utilizacionDePagina" \in Tiene(t))

IInv == Tipos /\ \A t \in Servidores : Encaminado(t) /\ MarcoGuardado(t)

LEMMA ConMarcoEs ==
    ASSUME NEW t \in Servidores, hilo[t] \in Seq(Pasos)
    PROVE  ConMarco(t) <=> ~NoPide(hilo[t])
BY DEF ConMarco, NoPide, Sabe

\* The rest of a path after its first step.
LEMMA NoPideCola ==
    ASSUME NEW s \in Seq(Pasos), s # << >>, ~Sabe(Head(s))
    PROVE  /\ NoPide(s) => NoPide(Tail(s))
           /\ Separa(s) /\ Head(s).sobre = "utilizacionDePagina" => NoPide(Tail(s))
<1>1. /\ Head(s) = s[1] /\ Tail(s) \in Seq(Pasos) /\ Len(Tail(s)) = Len(s) - 1
      /\ \A i \in 1 .. Len(Tail(s)) : Tail(s)[i] = s[i + 1]
      /\ Len(s) \in Nat /\ Len(s) > 0
  BY HeadTailProperties
<1> DEFINE u == Tail(s)
<1> HIDE DEF u
<1>2. ASSUME NEW i \in 1 .. Len(u), u[i].op = "usa",
             NoPide(s) \/ (Separa(s) /\ Head(s).sobre = "utilizacionDePagina")
      PROVE  \E k \in 1 .. i : Sabe(u[k])
  <2>1. /\ 1 \in 1 .. Len(s) /\ i + 1 \in 1 .. Len(s) /\ 1 < i + 1
        /\ s[i + 1].op = "usa"
    BY <1>1, <1>2 DEF u
  <2>2. PICK k \in 1 .. i + 1 : Sabe(s[k])
    BY <1>1, <1>2, <2>1 DEF NoPide, Separa
  <2>3. k # 1
    BY <1>1, <2>2
  <2>4. k - 1 \in 1 .. i /\ k - 1 \in 1 .. Len(u) /\ (k - 1) + 1 = k
    BY <1>1, <1>2, <2>3 DEF u
  <2>5. u[k - 1] = s[(k - 1) + 1]
    BY <1>1, <2>4 DEF u
  <2> QED BY <2>2, <2>4, <2>5
<1> QED BY <1>2 DEF NoPide, u

LEMMA SeparaCola ==
    ASSUME NEW s \in Seq(Pasos), s # << >>, Separa(s)
    PROVE  Separa(Tail(s))
<1>1. /\ Tail(s) \in Seq(Pasos) /\ Len(Tail(s)) = Len(s) - 1
      /\ \A i \in 1 .. Len(Tail(s)) : Tail(s)[i] = s[i + 1]
      /\ Len(s) \in Nat /\ Len(s) > 0
  BY HeadTailProperties
<1> DEFINE u == Tail(s)
<1> HIDE DEF u
<1>2. ASSUME NEW i \in 1 .. Len(u), NEW j \in 1 .. Len(u), i < j,
             u[i].sobre = "utilizacionDePagina", u[j].op = "usa"
      PROVE  \E k \in i .. j : Sabe(u[k])
  <2>1. /\ i + 1 \in 1 .. Len(s) /\ j + 1 \in 1 .. Len(s) /\ i + 1 < j + 1
        /\ s[i + 1].sobre = "utilizacionDePagina" /\ s[j + 1].op = "usa"
    BY <1>1, <1>2 DEF u
  <2>2. PICK k \in i + 1 .. j + 1 : Sabe(s[k])
    BY <2>1 DEF Separa
  <2>3. k - 1 \in i .. j /\ k - 1 \in 1 .. Len(u) /\ (k - 1) + 1 = k
    BY <1>1, <1>2 DEF u
  <2>4. u[k - 1] = s[(k - 1) + 1]
    BY <1>1, <2>3 DEF u
  <2> QED BY <2>2, <2>3, <2>4
<1> QED BY <1>2 DEF Separa, u

\* The path of a function before the rest of its caller.
LEMMA SeparaEntra ==
    ASSUME NEW s, Llana(s), NEW u \in Seq(Pasos), Separa(u)
    PROVE  Separa(s \o u)
<1> DEFINE w == s \o u
           n == Len(s)
<1>1. /\ w \in Seq(Pasos) /\ n \in Nat /\ Len(u) \in Nat /\ Len(w) = n + Len(u)
      /\ \A i \in 1 .. n + Len(u) : w[i] = IF i <= n THEN s[i] ELSE u[i - n]
  BY ConcatProperties DEF Llana
<1> HIDE DEF w
<1>2. ASSUME NEW i \in 1 .. Len(w), NEW j \in 1 .. Len(w), i < j,
             w[i].sobre = "utilizacionDePagina", w[j].op = "usa"
      PROVE  \E k \in i .. j : Sabe(w[k])
  <2>1. n < i
    BY <1>1, <1>2 DEF Llana
  <2>2. /\ i - n \in 1 .. Len(u) /\ j - n \in 1 .. Len(u) /\ i - n < j - n
        /\ w[i] = u[i - n] /\ w[j] = u[j - n]
    BY <1>1, <1>2, <2>1
  <2>3. PICK k \in i - n .. j - n : Sabe(u[k])
    BY <1>2, <2>2 DEF Separa
  <2>4. k \in Int /\ k + n \in i .. j /\ (k + n) - n = k /\ ~(k + n <= n)
    BY <1>1, <2>1
  <2>5. k + n \in 1 .. n + Len(u)
    BY <1>1, <2>4
  <2>6. w[k + n] = u[(k + n) - n]
    BY <1>1, <2>4, <2>5
  <2> QED BY <2>3, <2>4, <2>6
<1> QED BY <1>2 DEF Separa, w

\* A step of one thread leaves the others as they were.
LEMMA PasoDeHilo ==
    ASSUME IInv, NEW t \in Servidores, NEW r \in Seq(Pasos),
           hilo' = [hilo EXCEPT ![t] = r],
           \A u \in Servidores \ {t} : llamada'[u] = llamada[u] /\ Tiene(u)' = Tiene(u),
           llamada' \in [Servidores -> {"ninguna"} \cup DOMAIN Pedidos],
           llamada'[t] # "ninguna",
           dueno' \in [Mutexes -> Servidores \cup {Nadie}],
           Encaminado(t)', MarcoGuardado(t)'
    PROVE  IInv'
<1>1. /\ hilo' \in [Servidores -> Seq(Pasos)] /\ hilo'[t] = r
      /\ \A u \in Servidores \ {t} : hilo'[u] = hilo[u]
  BY DEF IInv, Tipos
<1>2. Tipos'
  BY <1>1 DEF IInv, Tipos
<1>3. ASSUME NEW u \in Servidores \ {t} PROVE Encaminado(u)' /\ MarcoGuardado(u)'
  <2>1. Encaminado(u) /\ MarcoGuardado(u)
    BY DEF IInv
  <2>2. hilo'[u] = hilo[u] /\ llamada'[u] = llamada[u] /\ Tiene(u)' = Tiene(u)
    BY <1>1
  <2> QED BY <2>1, <2>2 DEF Encaminado, MarcoGuardado
<1> QED BY <1>2, <1>3 DEF IInv

LEMMA InicioIInv == Init => IInv
<1> SUFFICES ASSUME Init PROVE IInv
  OBVIOUS
<1>1. Tipos
  BY EmptySeq DEF Init, Tipos
<1>2. ASSUME NEW t \in Servidores PROVE Encaminado(t) /\ MarcoGuardado(t)
  <2>1. llamada[t] = "ninguna" /\ hilo[t] = << >> /\ Tiene(t) = {}
    BY HilosValidos DEF Init, Tiene
  <2>2. Lleva(Modo("ninguna"), {}, << >>, {}) /\ {} \in Finales("ninguna")
    BY LlevaVacio DEF Conjuntos, Finales
  <2>3. Marcada(<< >>)
    BY VaciaEsMansa, MansaEsMarcada
  <2> QED BY <2>1, <2>2, <2>3 DEF Encaminado, MarcoGuardado, Marcada
<1> QED BY <1>1, <1>2 DEF IInv

\* What a thread that has something left to do is about to do.
LEMMA LoQueSigue ==
    ASSUME IInv, NEW t \in Servidores, hilo[t] # << >>
    PROVE  LET p == Head(hilo[t])
               modo == Modo(llamada[t])
           IN  /\ hilo[t] \in Seq(Pasos) /\ llamada[t] # "ninguna"
               /\ p \in Pasos /\ Tail(hilo[t]) \in Seq(Pasos)
               /\ \E fin \in Finales(llamada[t]) : \E d \in Conjuntos :
                     /\ Lleva(modo, d, Tail(hilo[t]), fin)
                     /\ Admite(modo, Tiene(t), p, d)
                     /\ \/ modo = "libre" /\ d = Nunca /\ p.op = "toma" /\ p.sobre \in Tiene(t)
                        \/ p.op = "toma" /\ p.sobre \notin Tiene(t)
                              /\ d = Tiene(t) \cup {p.sobre}
                        \/ p.op = "deja" /\ p.sobre \in Tiene(t) /\ d = Tiene(t) \ {p.sobre}
                        \/ p.op \in {"obtiene", "usa", "desaloja"} /\ d = Tiene(t)
                        \/ p.op = "llama" /\ d = Tiene(t) /\ PuedeLlamar(modo, Tiene(t), p.sobre)
<1> DEFINE p == Head(hilo[t])
           modo == Modo(llamada[t])
<1>1. hilo[t] \in Seq(Pasos) /\ llamada[t] # "ninguna"
  BY DEF IInv, Tipos
<1>2. PICK fin \in Finales(llamada[t]) : Lleva(modo, Tiene(t), hilo[t], fin)
  BY DEF IInv, Encaminado
<1>3. /\ p \in Pasos /\ Tail(hilo[t]) \in Seq(Pasos)
      /\ \E d \in Conjuntos : Admite(modo, Tiene(t), p, d) /\ Lleva(modo, d, Tail(hilo[t]), fin)
  BY <1>2, LlevaCola
<1>4. Tiene(t) # Nunca
  BY DEF Tiene, Nunca, Mutexes
<1>5. ASSUME NEW d, Admite(modo, Tiene(t), p, d)
      PROVE  \/ modo = "libre" /\ d = Nunca /\ p.op = "toma" /\ p.sobre \in Tiene(t)
             \/ p.op = "toma" /\ p.sobre \notin Tiene(t) /\ d = Tiene(t) \cup {p.sobre}
             \/ p.op = "deja" /\ p.sobre \in Tiene(t) /\ d = Tiene(t) \ {p.sobre}
             \/ p.op \in {"obtiene", "usa", "desaloja"} /\ d = Tiene(t)
             \/ p.op = "llama" /\ d = Tiene(t) /\ PuedeLlamar(modo, Tiene(t), p.sobre)
  <2> HIDE DEF p, modo
  <2> QED BY <1>4, <1>5, Zenon DEF Admite
<1> QED BY <1>1, <1>2, <1>3, <1>5

\* A thread that goes on to the rest of its path, and learns no frame by its step.
LEMMA MarcoGuardadoCola ==
    ASSUME IInv, NEW t \in Servidores, hilo[t] # << >>, hilo'[t] = Tail(hilo[t]),
           llamada'[t] = llamada[t],
           \/ "utilizacionDePagina" \in Tiene(t)'
           \/ ~Sabe(Head(hilo[t])) /\ "utilizacionDePagina" \notin Tiene(t)
           \/ ~Sabe(Head(hilo[t])) /\ Head(hilo[t]).sobre = "utilizacionDePagina"
    PROVE  MarcoGuardado(t)'
<1>1. hilo[t] \in Seq(Pasos) /\ MarcoGuardado(t)
  BY DEF IInv, Tipos
<1> SUFFICES ASSUME llamada[t] \notin SinSeccion
             PROVE  Separa(Tail(hilo[t])) /\ (\/ NoPide(Tail(hilo[t]))
                                              \/ "utilizacionDePagina" \in Tiene(t)')
  BY DEF MarcoGuardado
<1>2. /\ Separa(hilo[t]) /\ Separa(Tail(hilo[t]))
      /\ NoPide(hilo[t]) \/ "utilizacionDePagina" \in Tiene(t)
  BY <1>1, SeparaCola DEF MarcoGuardado
<1> QED BY <1>1, <1>2, NoPideCola

\* A mutex is taken.
LEMMA PasoToma == ASSUME IInv, NEW t \in Servidores, Toma(t) PROVE IInv'
<1> DEFINE p == Head(hilo[t])
           m == p.sobre
<1>1. /\ hilo[t] # << >> /\ p.op = "toma" /\ dueno[m] = Nadie
      /\ dueno' = [dueno EXCEPT ![m] = t] /\ hilo' = [hilo EXCEPT ![t] = Tail(hilo[t])]
      /\ llamada' = llamada
  BY DEF Toma, En, Sobre, Avanza
<1>2. Tipos
  BY DEF IInv
<1>3. /\ p \in Pasos /\ Tail(hilo[t]) \in Seq(Pasos) /\ llamada[t] # "ninguna"
      /\ hilo'[t] = Tail(hilo[t])
  BY <1>1, <1>2, LoQueSigue DEF Tipos
<1>4. m \in Mutexes /\ ~Sabe(p)
  BY <1>1, <1>3 DEF Pasos, Sabe, Mutexes
<1>5. /\ Tiene(t)' = Tiene(t) \cup {m} /\ m \notin Tiene(t)
      /\ \A u \in Servidores \ {t} : Tiene(u)' = Tiene(u)
  <2> HIDE DEF p, m
  <2> QED BY <1>1, <1>2, <1>4, HilosValidos DEF Tiene, Tipos
<1>6. Encaminado(t)'
  <2>1. \E fin \in Finales(llamada[t]) :
            Lleva(Modo(llamada[t]), Tiene(t) \cup {m}, Tail(hilo[t]), fin)
    BY <1>1, <1>5, LoQueSigue
  <2> QED BY <1>1, <1>3, <1>5, <2>1 DEF Encaminado
<1>7. MarcoGuardado(t)'
  BY <1>1, <1>3, <1>4, <1>5, MarcoGuardadoCola
<1>8. dueno' \in [Mutexes -> Servidores \cup {Nadie}]
  BY <1>1, <1>2 DEF Tipos
<1> QED BY <1>1, <1>2, <1>3, <1>5, <1>6, <1>7, <1>8, PasoDeHilo DEF Tipos

\* A mutex is left.
LEMMA PasoDeja == ASSUME IInv, NEW t \in Servidores, Deja(t) PROVE IInv'
<1> DEFINE p == Head(hilo[t])
           m == p.sobre
<1>1. /\ hilo[t] # << >> /\ p.op = "deja"
      /\ dueno' = [dueno EXCEPT ![m] = Nadie] /\ hilo' = [hilo EXCEPT ![t] = Tail(hilo[t])]
      /\ llamada' = llamada
  BY DEF Deja, En, Sobre, Avanza
<1>2. Tipos
  BY DEF IInv
<1>3. /\ p \in Pasos /\ Tail(hilo[t]) \in Seq(Pasos) /\ llamada[t] # "ninguna"
      /\ hilo'[t] = Tail(hilo[t]) /\ m \in Tiene(t)
      /\ \E fin \in Finales(llamada[t]) :
            Lleva(Modo(llamada[t]), Tiene(t) \ {m}, Tail(hilo[t]), fin)
  BY <1>1, <1>2, LoQueSigue DEF Tipos
<1>4. m \in Mutexes /\ dueno[m] = t /\ ~Sabe(p)
  BY <1>1, <1>3 DEF Pasos, Sabe, Mutexes, Tiene
<1>5. /\ Tiene(t)' = Tiene(t) \ {m}
      /\ \A u \in Servidores \ {t} : Tiene(u)' = Tiene(u)
  <2> HIDE DEF p, m
  <2> QED BY <1>1, <1>2, <1>4, HilosValidos DEF Tiene, Tipos
<1>6. Encaminado(t)'
  BY <1>1, <1>3, <1>5 DEF Encaminado
<1>7. MarcoGuardado(t)'
  <2>1. CASE m = "utilizacionDePagina"
    BY <1>1, <1>3, <1>4, <2>1, MarcoGuardadoCola
  <2>2. CASE m # "utilizacionDePagina"
    BY <1>1, <1>3, <1>4, <1>5, <2>2, MarcoGuardadoCola
  <2> QED BY <2>1, <2>2
<1>8. dueno' \in [Mutexes -> Servidores \cup {Nadie}]
  BY <1>1, <1>2 DEF Tipos
<1> QED BY <1>1, <1>2, <1>3, <1>5, <1>6, <1>7, <1>8, PasoDeHilo DEF Tipos

\* A frame becomes known, is used or is emptied.
LEMMA PasoHace == ASSUME IInv, NEW t \in Servidores, Hace(t) PROVE IInv'
<1> DEFINE p == Head(hilo[t])
<1>1. /\ hilo[t] # << >> /\ p.op \in {"obtiene", "usa", "desaloja"}
      /\ hilo' = [hilo EXCEPT ![t] = Tail(hilo[t])]
      /\ llamada' = llamada /\ dueno' = dueno
  BY DEF Hace, En, Avanza
<1>2. Tipos
  BY DEF IInv
<1>3. /\ p \in Pasos /\ Tail(hilo[t]) \in Seq(Pasos) /\ llamada[t] # "ninguna"
      /\ hilo'[t] = Tail(hilo[t])
      /\ \E fin \in Finales(llamada[t]) :
            Lleva(Modo(llamada[t]), Tiene(t), Tail(hilo[t]), fin)
      /\ Admite(Modo(llamada[t]), Tiene(t), p, Tiene(t))
  BY <1>1, <1>2, LoQueSigue DEF Tipos
<1>4. \A u \in Servidores : Tiene(u)' = Tiene(u)
  BY <1>1 DEF Tiene
<1>5. Encaminado(t)'
  BY <1>1, <1>3, <1>4 DEF Encaminado
<1>6. MarcoGuardado(t)'
  <2>1. CASE llamada[t] \in SinSeccion
    BY <1>1, <2>1 DEF MarcoGuardado
  <2>2. CASE llamada[t] \notin SinSeccion
    <3>1. Modo(llamada[t]) # "libre"
      BY <2>2 DEF Modo
    <3>2. "utilizacionDePagina" \in Tiene(t)
      BY <1>1, <1>3, <3>1 DEF Admite
    <3> QED BY <1>1, <1>3, <1>4, <3>2, MarcoGuardadoCola
  <2> QED BY <2>1, <2>2
<1> QED BY <1>1, <1>2, <1>3, <1>4, <1>5, <1>6, PasoDeHilo DEF Tipos

\* A function is called: its path goes before the rest.
LEMMA PasoEntra == ASSUME IInv, NEW t \in Servidores, Entra(t) PROVE IInv'
<1> DEFINE p == Head(hilo[t])
           f == p.sobre
           modo == Modo(llamada[t])
           resto == Tail(hilo[t])
<1>1. /\ hilo[t] # << >> /\ p.op = "llama" /\ llamada' = llamada /\ dueno' = dueno
  BY DEF Entra, En, Sobre
<1>2. PICK camino \in Funciones[f] : hilo' = [hilo EXCEPT ![t] = camino \o resto]
  BY DEF Entra, Sobre
<1>3. Tipos
  BY DEF IInv
<1>4. /\ p \in Pasos /\ resto \in Seq(Pasos) /\ llamada[t] # "ninguna"
      /\ PuedeLlamar(modo, Tiene(t), f)
  BY <1>1, LoQueSigue
<1>5. PICK fin \in Finales(llamada[t]) : Lleva(modo, Tiene(t), resto, fin)
  BY <1>1, LoQueSigue
<1>7. f \in DOMAIN Funciones /\ f # "utilizacionDePagina"
  BY <1>1, <1>4 DEF Pasos, Funciones
<1>8. /\ Equilibrada(camino)
      /\ f # "read_from_memory" => Buena(Resto, camino)
      /\ f = "read_from_memory" => Ordenada(camino)
      /\ f = "deletePagina" => Seccionada(camino)
  BY <1>7, FuncionesBien
<1>9. camino \in Seq(Pasos) /\ camino \o resto \in Seq(Pasos)
  BY <1>4, <1>8, ConcatProperties DEF Equilibrada
<1>10. \A u \in Servidores : Tiene(u)' = Tiene(u)
  BY <1>1 DEF Tiene
<1>11. hilo'[t] = camino \o resto
  BY <1>2, <1>3 DEF Tipos
<1>12. Tiene(t) \in SUBSET Mutexes
  BY DEF Tiene
<1>13. modo \in {"libre", "seccion", "orden"} /\ (modo = "libre" <=> llamada[t] \in SinSeccion)
  BY DEF Modo
<1> HIDE DEF p, f, modo, resto
<1>14. CASE modo = "libre"
  <2>1. \E fin2 \in Finales(llamada[t]) : Lleva(modo, Tiene(t), camino \o resto, fin2)
    <3>1. CASE Lleva("libre", Tiene(t), camino, Tiene(t))
      BY <1>5, <1>14, <3>1, LlevaSeguido
    <3>2. CASE Lleva("libre", Tiene(t), camino, Nunca)
      <4>1. Lleva("libre", Tiene(t), camino \o resto, Nunca)
        BY <1>4, <3>2, LlevaNunca, LlevaSeguido
      <4> QED BY <1>14, <4>1 DEF Finales
    <3> QED BY <1>8, <1>12, <3>1, <3>2 DEF Equilibrada
  <2>2. Encaminado(t)'
    BY <1>1, <1>10, <1>11, <2>1 DEF Encaminado, modo
  <2>3. MarcoGuardado(t)'
    BY <1>1, <1>13, <1>14 DEF MarcoGuardado
  <2> QED BY <1>1, <1>2, <1>3, <1>4, <1>9, <1>10, <2>2, <2>3, PasoDeHilo DEF Tipos
<1>15. CASE modo # "libre" /\ Tiene(t) = {"utilizacionDePagina"}
  <2>1. f # "read_from_memory"
    BY <1>4, <1>15 DEF PuedeLlamar
  <2>2. Lleva("dentro", Tiene(t), camino, Tiene(t))
    BY <1>8, <1>12, <1>15, <2>1 DEF Buena, Resto
  <2>3. Lleva(modo, Tiene(t), camino, Tiene(t))
    BY <1>13, <2>2, LlevaMonotono DEF Modos
  <2>4. Lleva(modo, Tiene(t), camino \o resto, fin)
    BY <1>5, <2>3, LlevaSeguido
  <2>5. Encaminado(t)'
    BY <1>1, <1>10, <1>11, <2>4 DEF Encaminado, modo
  <2>6. MarcoGuardado(t)'
    <3>1. Llana(camino)
      BY <1>8, <2>1, BuenaEsLlana
    <3>2. Separa(resto)
      <4>1. Separa(hilo[t]) /\ hilo[t] \in Seq(Pasos)
        BY <1>3, <1>13, <1>15 DEF IInv, MarcoGuardado, Tipos
      <4> QED BY <1>1, <4>1, SeparaCola DEF resto
    <3>3. Separa(camino \o resto)
      BY <1>4, <3>1, <3>2, SeparaEntra
    <3> QED BY <1>10, <1>11, <1>15, <3>3 DEF MarcoGuardado
  <2> QED BY <1>1, <1>2, <1>3, <1>4, <1>9, <1>10, <2>5, <2>6, PasoDeHilo DEF Tipos
<1>16. CASE modo # "libre" /\ Tiene(t) # {"utilizacionDePagina"}
  <2>1. /\ Tiene(t) = {}
        /\ f = "read_from_memory" \/ (modo = "seccion" /\ f = "deletePagina")
    BY <1>4, <1>16 DEF PuedeLlamar
  <2>2. Lleva(modo, {}, camino, {}) /\ Marcada(camino)
    <3>1. CASE f = "read_from_memory"
      <4>1. Ordenada(camino) /\ Seccionada(camino)
        BY <1>8, <3>1, OrdenadaSeguida
      <4> QED BY <1>13, <1>16, <4>1 DEF Ordenada, Seccionada
    <3>2. CASE modo = "seccion" /\ f = "deletePagina"
      BY <1>8, <3>2 DEF Seccionada
    <3> QED BY <2>1, <3>1, <3>2
  <2>3. Lleva(modo, Tiene(t), camino \o resto, fin)
    BY <1>5, <2>1, <2>2, LlevaSeguido
  <2>4. Encaminado(t)'
    BY <1>1, <1>10, <1>11, <2>3 DEF Encaminado, modo
  <2>5. MarcoGuardado(t)'
    <3>1. Separa(hilo[t]) /\ NoPide(hilo[t]) /\ hilo[t] \in Seq(Pasos)
      BY <1>3, <1>13, <1>16, <2>1 DEF IInv, MarcoGuardado, Tipos
    <3>2. ~Sabe(p)
      BY <1>1, <2>1 DEF Sabe, f
    <3>3. Marcada(resto)
      BY <1>1, <1>4, <3>1, <3>2, NoPideCola, SeparaCola DEF Marcada, resto, p
    <3>4. Marcada(camino \o resto)
      BY <2>2, <3>3, MarcadaSeguida
    <3> QED BY <1>11, <3>4 DEF MarcoGuardado, Marcada
  <2> QED BY <1>1, <1>2, <1>3, <1>4, <1>9, <1>10, <2>4, <2>5, PasoDeHilo DEF Tipos
<1> QED BY <1>14, <1>15, <1>16

\* A thread begins to serve a call.
LEMMA PasoAtiende == ASSUME IInv, NEW t \in Servidores, Atiende(t) PROVE IInv'
<1>0. PICK c \in DOMAIN Pedidos : \E camino \in Pedidos[c] :
          /\ llamada[t] = "ninguna" /\ llamada' = [llamada EXCEPT ![t] = c]
          /\ hilo' = [hilo EXCEPT ![t] = camino] /\ dueno' = dueno
  BY DEF Atiende
<1>1. PICK camino \in Pedidos[c] :
          /\ llamada[t] = "ninguna" /\ llamada' = [llamada EXCEPT ![t] = c]
          /\ hilo' = [hilo EXCEPT ![t] = camino] /\ dueno' = dueno
  BY <1>0
<1>2. Tipos
  BY DEF IInv
<1>3. /\ \E fin \in Finales(c) : Lleva(Modo(c), {}, camino, fin)
      /\ c \notin SinSeccion => Marcada(camino)
  BY PedidosBien
<1>4. camino \in Seq(Pasos)
  BY <1>3 DEF Lleva
<1>5. Tiene(t) = {}
  <2>1. hilo[t] = << >> /\ Encaminado(t)
    BY <1>1, <1>2 DEF Tipos, IInv
  <2>2. PICK fin \in {{}, Nunca} : Lleva(Modo("ninguna"), Tiene(t), << >>, fin)
    BY <1>1, <2>1 DEF Encaminado, Finales
  <2>3. Tiene(t) = fin
    BY <2>2, EmptySeq DEF Lleva
  <2> QED BY <2>3 DEF Tiene, Nunca, Mutexes
<1>6. \A u \in Servidores : Tiene(u)' = Tiene(u)
  BY <1>1 DEF Tiene
<1>7. llamada'[t] = c /\ hilo'[t] = camino /\ c # "ninguna"
  BY <1>1, <1>2 DEF Tipos, Pedidos
<1>8. Encaminado(t)' /\ MarcoGuardado(t)'
  BY <1>3, <1>5, <1>6, <1>7 DEF Encaminado, MarcoGuardado, Marcada
<1>9. /\ llamada' \in [Servidores -> {"ninguna"} \cup DOMAIN Pedidos]
      /\ \A u \in Servidores \ {t} : llamada'[u] = llamada[u]
  BY <1>1, <1>2 DEF Tipos
<1> QED BY <1>1, <1>2, <1>4, <1>6, <1>7, <1>8, <1>9, PasoDeHilo DEF Tipos

LEMMA PasoIInv == IInv /\ [Next]_vars => IInv'
<1> SUFFICES ASSUME IInv, [Next]_vars PROVE IInv'
  OBVIOUS
<1>1. ASSUME NEW t \in Servidores, Atiende(t) \/ Sigue(t) PROVE IInv'
  BY <1>1, PasoAtiende, PasoToma, PasoDeja, PasoEntra, PasoHace DEF Sigue
<1>2. CASE UNCHANGED vars
  BY <1>2 DEF vars, IInv, Tipos, Encaminado, MarcoGuardado, Tiene
<1> QED BY <1>1, <1>2 DEF Next

-----------------------------------------------------------------------------
(* What follows.                                                           *)

\* The invariant on which the rest stands holds in every reachable state.
THEOREM Invariante == Spec => []IInv
BY InicioIInv, PasoIInv, PTL DEF Spec

\* Every variable keeps its type, and a call that ended left every mutex it took, unless
\* it is the suspension of a process whose page swamp refused.
THEOREM TipoCorrecto == Spec => []TypeOK
<1>1. ASSUME IInv PROVE TypeOK
  <2>1. Tipos
    BY <1>1 DEF IInv
  <2>2. ASSUME NEW m \in Mutexes, NEW t \in Servidores, dueno[m] = t, hilo[t] = << >>,
               llamada[t] # "suspendRechazada"
        PROVE  FALSE
    <3>1. PICK fin \in {{}, Nunca} : Lleva(Modo(llamada[t]), Tiene(t), << >>, fin)
      BY <1>1, <2>2 DEF IInv, Encaminado, Finales
    <3>2. Tiene(t) = fin
      BY <3>1, EmptySeq DEF Lleva
    <3>3. m \in Tiene(t) /\ Tiene(t) # Nunca
      BY <2>2 DEF Tiene, Nunca, Mutexes
    <3> QED BY <3>2, <3>3
  <2> QED BY <2>1, <2>2 DEF TypeOK, Tipos
<1> QED BY <1>1, Invariante, PTL

\* A call of those that keep to the section is inside it whenever it uses a frame or takes
\* one from its page, and one that takes the mutexes in order waits for the first of them,
\* or waits inside the section, for one it does not hold.
LEMMA Disciplina ==
    ASSUME IInv, NEW t \in Servidores
    PROVE  /\ En(t, "usa") \/ En(t, "desaloja") =>
                 llamada[t] \in SinSeccion \/ dueno["utilizacionDePagina"] = t
           /\ En(t, "toma") => Sobre(t) \in Mutexes
           /\ En(t, "toma") /\ llamada[t] \notin SinOrden =>
                 /\ dueno[Sobre(t)] # t
                 /\ (\E m \in Mutexes : dueno[m] = t) => dueno["utilizacionDePagina"] = t
<1> DEFINE p == Head(hilo[t])
           modo == Modo(llamada[t])
<1>1. CASE hilo[t] = << >>
  BY <1>1 DEF En
<1>2. CASE hilo[t] # << >>
  <2>1. p \in Pasos /\ \E d \in Conjuntos : Admite(modo, Tiene(t), p, d)
    BY <1>2, LoQueSigue
  <2>2. PICK d \in Conjuntos : Admite(modo, Tiene(t), p, d)
    BY <2>1
  <2>3. ASSUME p.op \in {"usa", "desaloja"}, llamada[t] \notin SinSeccion
        PROVE  dueno["utilizacionDePagina"] = t
    <3>1. modo # "libre"
      BY <2>3 DEF Modo
    <3>2. "utilizacionDePagina" \in Tiene(t)
      BY <2>2, <2>3, <3>1 DEF Admite
    <3> QED BY <3>2 DEF Tiene
  <2>4. ASSUME p.op = "toma" PROVE p.sobre \in Mutexes
    BY <2>1, <2>4 DEF Pasos
  <2>5. ASSUME p.op = "toma", llamada[t] \notin SinOrden
        PROVE  /\ p.sobre \notin Tiene(t)
               /\ Tiene(t) = {} \/ "utilizacionDePagina" \in Tiene(t)
    <3>1. modo = "orden"
      BY <2>5 DEF Modo, SinOrden
    <3> QED BY <2>2, <2>5, <3>1 DEF Admite
  <2> QED BY <2>3, <2>4, <2>5 DEF En, Sobre, Tiene
<1> QED BY <1>1, <1>2

\* The bytes of memory are used by one call at a time, unless a free block is being used
\* again: utilizacionDePagina_mutex is held wherever memory_mutex is forgotten.
THEOREM UnaEnLaMemoria == Spec => []MemoriaExclusiva
<1>1. ASSUME IInv PROVE MemoriaExclusiva
  <2> SUFFICES ASSUME NEW t \in Servidores, NEW u \in Servidores,
                      En(t, "usa"), En(u, "usa"), ConSeccion(t, u)
               PROVE  t = u
    BY DEF MemoriaExclusiva
  <2>1. llamada[t] \notin SinSeccion /\ llamada[u] \notin SinSeccion
    BY DEF ConSeccion
  <2>2. dueno["utilizacionDePagina"] = t /\ dueno["utilizacionDePagina"] = u
    BY <1>1, <2>1, Disciplina
  <2> QED BY <2>2
<1> QED BY <1>1, Invariante, PTL

\* No frame is taken from its page between the moment another call gets to know it and
\* the moment it uses it, unless a free block is being used again.
THEOREM MarcoNoSePierde == Spec => []MarcoVigente
<1>1. ASSUME IInv PROVE MarcoVigente
  <2> SUFFICES ASSUME NEW t \in Servidores, NEW u \in Servidores,
                      En(t, "desaloja"), ConMarco(u), ConSeccion(t, u)
               PROVE  t = u
    BY DEF MarcoVigente
  <2>1. llamada[t] \notin SinSeccion /\ llamada[u] \notin SinSeccion
    BY DEF ConSeccion
  <2>2. dueno["utilizacionDePagina"] = t
    BY <1>1, <2>1, Disciplina
  <2>3. ~NoPide(hilo[u])
    BY <1>1, ConMarcoEs DEF IInv, Tipos
  <2>4. "utilizacionDePagina" \in Tiene(u)
    BY <1>1, <2>1, <2>3 DEF IInv, MarcoGuardado
  <2> QED BY <2>2, <2>4 DEF Tiene
<1> QED BY <1>1, Invariante, PTL

\* No calls wait for one another in a circle, nor does one wait for itself, unless one of
\* those that have no order is among them: whoever holds a mutex and waits is inside the
\* section, where there is one call.
THEOREM SinAbrazoMortal == Spec => []SinEsperaCircular
<1>1. ASSUME IInv PROVE SinEsperaCircular
  <2> SUFFICES ASSUME NEW ts \in (SUBSET Servidores) \ {{}}, EnCirculo(ts),
                      \A t \in ts : llamada[t] \notin SinOrden
               PROVE  FALSE
    BY DEF SinEsperaCircular
  <2>1. ASSUME NEW u \in ts
        PROVE  \E w \in ts : /\ En(u, "toma") /\ dueno[Sobre(u)] = w /\ w # u
                             /\ dueno["utilizacionDePagina"] = w
    <3>1. PICK w \in ts : En(u, "toma") /\ dueno[Sobre(u)] = w
      BY DEF EnCirculo, Espera
    <3>2. En(w, "toma")
      BY DEF EnCirculo, Espera
    <3>3. Sobre(u) \in Mutexes /\ w # u
      BY <1>1, <3>1, Disciplina
    <3> QED BY <1>1, <3>1, <3>2, <3>3, Disciplina
  <2>2. PICK u \in ts : TRUE
    OBVIOUS
  <2>3. PICK w \in ts : dueno["utilizacionDePagina"] = w
    BY <2>1, <2>2
  <2> QED BY <2>1, <2>3
<1> QED BY <1>1, Invariante, PTL
=============================================================================
