----------------------------- MODULE Swamp_proofs -----------------------------
(***************************************************************************)
(* Proofs about swamp, for every number of processes, pages, files, frames *)
(* and rows.                                                               *)
(***************************************************************************)
EXTENDS Swamp, Secuencias_proofs

Filas == [proceso : Procesos \cup {Libre}, pagina : Paginas \cup {Libre}]

\* The rows in use of a page table.
Usadas(t) == {k \in 1 .. Len(t) : t[k].proceso # Libre}

-----------------------------------------------------------------------------
(* The operators of the model.                                             *)

\* A page table is a sequence of rows.
LEMMA TablaEs ==
    ASSUME TypeOK, NEW f \in Archivos
    PROVE  /\ tabla_paginas[f] \in Seq(Filas)
           /\ Len(tabla_paginas[f]) \in Nat
           /\ DOMAIN tabla_paginas[f] = 1 .. Len(tabla_paginas[f])
           /\ \A k \in 1 .. Len(tabla_paginas[f]) :
                 /\ tabla_paginas[f][k] \in Filas
                 /\ tabla_paginas[f][k].proceso \in Procesos \cup {Libre}
                 /\ tabla_paginas[f][k].pagina \in Paginas \cup {Libre}
                 /\ tabla_paginas[f][k] =
                       Fila(tabla_paginas[f][k].proceso, tabla_paginas[f][k].pagina)
<1>1. tabla_paginas[f] \in Seq(Filas)
  BY DEF TypeOK, Filas
<1>2. \A k \in 1 .. Len(tabla_paginas[f]) : tabla_paginas[f][k] \in Filas
  BY <1>1
<1> QED BY <1>1, <1>2 DEF Filas, Fila

\* The search of a row stops at the first one of the set, or past the last row.
LEMMA PosicionEs ==
    ASSUME TypeOK, NEW f \in Archivos, NEW A
    PROVE  /\ Posicion(f, A) \in 0 .. Len(tabla_paginas[f])
           /\ Posicion(f, A) < Len(tabla_paginas[f]) =>
                 tabla_paginas[f][Posicion(f, A) + 1] \in A
           /\ \A k \in 1 .. Posicion(f, A) : tabla_paginas[f][k] \notin A
<1> DEFINE i == Primera(tabla_paginas[f], A)
<1>1. /\ i \in 0 .. Len(tabla_paginas[f])
      /\ i # 0 => tabla_paginas[f][i] \in A /\ \A k \in 1 .. i - 1 : tabla_paginas[f][k] \notin A
      /\ i = 0 => \A k \in 1 .. Len(tabla_paginas[f]) : tabla_paginas[f][k] \notin A
  <2>1. tabla_paginas[f] \in Seq(Filas)
    BY TablaEs
  <2> QED BY <2>1, PrimeraPosicion
<1>2. Posicion(f, A) = IF i = 0 THEN Len(tabla_paginas[f]) ELSE i - 1
  BY DEF Posicion, SelectInSeq, Primera
<1>3. Len(tabla_paginas[f]) \in Nat
  BY TablaEs
<1> HIDE DEF i
<1> QED BY <1>1, <1>2, <1>3

\* Reemplaza keeps the length, and the rows out of the range that is replaced.
LEMMA ReemplazaEs ==
    ASSUME NEW t \in Seq(Filas), NEW i \in Nat, NEW filas \in Seq(Filas)
    PROVE  /\ Reemplaza(t, i, filas) \in Seq(Filas)
           /\ Len(Reemplaza(t, i, filas)) = Len(t)
           /\ \A k \in 1 .. Len(t) :
                 Reemplaza(t, i, filas)[k] =
                     IF k \in i + 1 .. i + Len(filas) THEN filas[k - i] ELSE t[k]
<1> DEFINE u == Reemplaza(t, i, filas)
<1>1. Len(t) \in Nat /\ DOMAIN t = 1 .. Len(t) /\ DOMAIN filas = 1 .. Len(filas) /\ Len(filas) \in Nat
  OBVIOUS
<1>2. \A k \in 1 .. Len(t) : k - i \in 1 .. Len(filas) <=> k \in i + 1 .. i + Len(filas)
  BY <1>1
<1>3. /\ u = [k \in 1 .. Len(t) |-> IF k - i \in 1 .. Len(filas) THEN filas[k - i] ELSE t[k]]
  BY <1>1 DEF Reemplaza
<1>4. \A k \in 1 .. Len(t) : u[k] = IF k \in i + 1 .. i + Len(filas) THEN filas[k - i] ELSE t[k]
  BY <1>2, <1>3
<1>5. \A k \in 1 .. Len(t) : u[k] \in Filas
  <2> TAKE k \in 1 .. Len(t)
  <2>1. CASE k - i \in 1 .. Len(filas)
    BY <1>3, <2>1
  <2>2. CASE k - i \notin 1 .. Len(filas)
    BY <1>3, <2>2
  <2> QED BY <2>1, <2>2
<1>6. u \in [1 .. Len(t) -> Filas]
  BY <1>3, <1>5
<1> HIDE DEF u
<1>7. u \in Seq(Filas) /\ Len(u) = Len(t)
  BY <1>1, <1>6
<1> QED BY <1>4, <1>7 DEF u

\* The rows of a block: the page in the first one, the others reserved.
LEMMA BloqueEs ==
    ASSUME ConstantesValidas, NEW p \in Procesos, NEW g \in Paginas
    PROVE  /\ Bloque(p, g) \in Seq(Filas) /\ Len(Bloque(p, g)) = MarcosPorCarpincho
           /\ Bloque(p, g)[1] = Fila(p, g)
           /\ \A k \in 2 .. MarcosPorCarpincho : Bloque(p, g)[k] = Fila(p, Libre)
           /\ \A k \in 1 .. MarcosPorCarpincho : Bloque(p, g)[k].proceso = p
<1>1. MarcosPorCarpincho \in Nat \ {0}
  BY DEF ConstantesValidas
<1>2. Bloque(p, g) \in [1 .. MarcosPorCarpincho -> Filas]
  BY DEF Bloque, Fila, Filas
<1>3. Bloque(p, g) \in Seq(Filas) /\ Len(Bloque(p, g)) = MarcosPorCarpincho
  BY <1>1, <1>2
<1> QED BY <1>1, <1>3 DEF Bloque, Fila

\* The rows of a table are as many as its length at most; when the rows in use that
\* another table has more are in X, they are as many as X at most.
LEMMA UsadasCrecen ==
    ASSUME NEW t \in Seq(Filas), NEW u \in Seq(Filas), NEW X, IsFiniteSet(X),
           \A k \in 1 .. Len(u) : u[k].proceso # Libre =>
              (k \in 1 .. Len(t) /\ t[k].proceso # Libre) \/ k \in X
    PROVE  /\ Cardinality(Usadas(t)) \in Nat /\ Cardinality(Usadas(u)) \in Nat
           /\ Cardinality(Usadas(t)) <= Len(t)
           /\ Cardinality(Usadas(u)) <= Cardinality(Usadas(t)) + Cardinality(X)
<1>1. Len(t) \in Nat /\ Len(u) \in Nat
  OBVIOUS
<1>2. IsFiniteSet(1 .. Len(t)) /\ Cardinality(1 .. Len(t)) = Len(t)
  <2>1. 1 \in Int /\ Len(t) \in Int /\ (IF 1 > Len(t) THEN 0 ELSE Len(t) - 1 + 1) = Len(t)
    BY <1>1
  <2> QED BY <2>1, FS_Interval
<1>3. /\ IsFiniteSet(Usadas(t)) /\ Cardinality(Usadas(t)) <= Len(t)
      /\ Cardinality(Usadas(t)) \in Nat
  <2>1. Usadas(t) \in SUBSET (1 .. Len(t))
    BY DEF Usadas
  <2> QED BY <2>1, <1>2, FS_Subset, FS_CardinalityType
<1>4. /\ IsFiniteSet(Usadas(t) \cup X)
      /\ Cardinality(Usadas(t) \cup X) <= Cardinality(Usadas(t)) + Cardinality(X)
  <2>1. IsFiniteSet(Usadas(t) \cap X) /\ Cardinality(Usadas(t) \cap X) \in Nat
    BY <1>3, FS_Subset, FS_CardinalityType
  <2>2. /\ IsFiniteSet(Usadas(t) \cup X)
        /\ Cardinality(Usadas(t) \cup X) =
              Cardinality(Usadas(t)) + Cardinality(X) - Cardinality(Usadas(t) \cap X)
    BY <1>3, FS_Union
  <2>3. Cardinality(X) \in Nat
    BY FS_CardinalityType
  <2> QED BY <1>3, <2>1, <2>2, <2>3
<1>5. Usadas(u) \in SUBSET (Usadas(t) \cup X)
  BY DEF Usadas
<1>6. Cardinality(Usadas(u)) <= Cardinality(Usadas(t) \cup X) /\ IsFiniteSet(Usadas(u))
  BY <1>4, <1>5, FS_Subset
<1>7. /\ Cardinality(Usadas(u)) \in Nat /\ Cardinality(Usadas(t) \cup X) \in Nat
      /\ Cardinality(X) \in Nat
  BY <1>4, <1>6, FS_CardinalityType
<1> QED BY <1>3, <1>4, <1>6, <1>7

\* tabla_paginas_size counts the rows in use.
LEMMA TamanioEs ==
    ASSUME TypeOK, NEW f \in Archivos
    PROVE  /\ tabla_paginas_size(f) = Cardinality(Usadas(tabla_paginas[f]))
           /\ tabla_paginas_size(f) \in Nat
           /\ tabla_paginas_size(f) <= Len(tabla_paginas[f])
<1>1. tabla_paginas[f] \in Seq(Filas) /\ DOMAIN tabla_paginas[f] = 1 .. Len(tabla_paginas[f])
  BY TablaEs
<1>2. tabla_paginas_size(f) = Cardinality(Usadas(tabla_paginas[f]))
  BY <1>1 DEF tabla_paginas_size, Usadas
<1>3. IsFiniteSet({})
  BY FS_EmptySet
<1>4. Cardinality(Usadas(tabla_paginas[f])) \in Nat
      /\ Cardinality(Usadas(tabla_paginas[f])) <= Len(tabla_paginas[f])
  <2> DEFINE s == tabla_paginas[f]
  <2>1. s \in Seq(Filas)
    BY <1>1
  <2> HIDE DEF s
  <2>2. Cardinality(Usadas(s)) \in Nat /\ Cardinality(Usadas(s)) <= Len(s)
    BY <2>1, <1>3, UsadasCrecen
  <2> QED BY <2>2 DEF s
<1> QED BY <1>2, <1>4
-----------------------------------------------------------------------------
(* A message that saves a page.                                            *)

\* Page g of p takes row d of file f, whose new table is t; the other rows that
\* change are reserved for p.
Ocupa(p, g, f, t, d) ==
    /\ f \in Archivos /\ t \in Seq(Filas)
    /\ swap_dict[p] \in {Libre, f} /\ Fila(p, g) \notin Range(tabla_paginas[f])
    /\ tabla_paginas' = [tabla_paginas EXCEPT ![f] = t]
    /\ swap_dict' = [swap_dict EXCEPT ![p] = f]
    /\ \A k \in 1 .. Len(t) :
          \/ k \in 1 .. Len(tabla_paginas[f]) /\ t[k] = tabla_paginas[f][k]
          \/ t[k] = Fila(p, Libre)
          \/ k = d /\ t[k] = Fila(p, g)
    /\ Cardinality(Usadas(t)) <= FramesPorArchivo

Inductivo == TypeOK /\ CapacidadRespetada /\ CadaPaginaEnSuArchivo

\* A process without a file has no rows.
LEMMA SinArchivoSinFilas ==
    ASSUME ConstantesValidas, TypeOK, CadaPaginaEnSuArchivo,
           NEW p \in Procesos, swap_dict[p] = Libre, NEW f \in Archivos
    PROVE  \A k \in 1 .. Len(tabla_paginas[f]) : tabla_paginas[f][k].proceso # p
<1>1. f # Libre /\ p # Libre
  BY DEF ConstantesValidas, Archivos
<1>2. DOMAIN tabla_paginas[f] = 1 .. Len(tabla_paginas[f])
  BY TablaEs
<1> QED BY <1>1, <1>2 DEF CadaPaginaEnSuArchivo

\* Under the fixed assignment, the first page: the block fits in the file.
LEMMA PrimeraFijaOcupa ==
    ASSUME ConstantesValidas, Inductivo, NEW p \in Procesos, NEW g \in Paginas,
           NEW x \in Contenidos, PrimeraFija(p, g, x)
    PROVE  \E f, t, d : Ocupa(p, g, f, t, d)
<1>1. PICK f \in swap_file_menos_ocupado :
        LET i == get_first_free_frame_number(f, p)
            tabla == tabla_paginas[f]
        IN  /\ EntraBloque(f)
            /\ Asigna(p, f)
            /\ CambiaTabla(f, IF Len(tabla) - 1 > i THEN Reemplaza(tabla, i, Bloque(p, g))
                                                    ELSE tabla \o Bloque(p, g))
  BY DEF PrimeraFija
<1> DEFINE i == get_first_free_frame_number(f, p)
           s == tabla_paginas[f]
           n == MarcosPorCarpincho
           B == Bloque(p, g)
           t == IF Len(s) - 1 > i THEN Reemplaza(s, i, B) ELSE s \o B
           a == IF Len(s) - 1 > i THEN i ELSE Len(s)
<1>2. f \in Archivos /\ swap_dict[p] = Libre
  BY DEF swap_file_menos_ocupado, PrimeraFija
<1>3. s \in Seq(Filas) /\ Len(s) \in Nat /\ DOMAIN s = 1 .. Len(s)
  BY <1>2, TablaEs DEF Inductivo
<1>4. i \in 0 .. Len(s)
  BY <1>2, PosicionEs DEF Inductivo, get_first_free_frame_number
<1>5. /\ B \in Seq(Filas) /\ Len(B) = n /\ n \in Nat
      /\ \A k \in 1 .. n : B[k] = Fila(p, IF k = 1 THEN g ELSE Libre)
  BY BloqueEs DEF ConstantesValidas, Bloque
<1>6. \A k \in 1 .. Len(s) : s[k].proceso # p
  BY <1>2, SinArchivoSinFilas DEF Inductivo
<1>7. tabla_paginas_size(f) = Cardinality(Usadas(s)) /\ tabla_paginas_size(f) \in Nat
  BY <1>2, TamanioEs DEF Inductivo
<1>8. n <= FramesPorArchivo - Cardinality(Usadas(s)) /\ FramesPorArchivo \in Nat
  BY <1>1, <1>7 DEF EntraBloque, FramesLibres, ConstantesValidas
<1>9. tabla_paginas' = [tabla_paginas EXCEPT ![f] = t] /\ swap_dict' = [swap_dict EXCEPT ![p] = f]
  BY <1>1 DEF CambiaTabla, Asigna
<1> HIDE DEF i, s, n, B
<1>10. /\ t \in Seq(Filas)
       /\ \A k \in 1 .. Len(t) : \/ k \in 1 .. Len(s) /\ t[k] = s[k]
                                 \/ k \in a + 1 .. a + n /\ t[k] = B[k - a]
  <2>1. CASE Len(s) - 1 > i
    <3>1. i \in Nat
      BY <1>3, <1>4
    <3> QED BY SMTT(30), <1>3, <1>5, <2>1, <3>1, ReemplazaEs
  <2>2. CASE ~(Len(s) - 1 > i)
    <3>1. /\ s \o B \in Seq(Filas) /\ Len(s \o B) = Len(s) + Len(B)
          /\ \A k \in 1 .. Len(s) + Len(B) :
                (s \o B)[k] = IF k <= Len(s) THEN s[k] ELSE B[k - Len(s)]
      <4>1. s \in Seq(Filas) /\ B \in Seq(Filas)
        BY <1>3, <1>5
      <4> QED BY ONLY <4>1, ConcatProperties
    <3> QED BY <1>3, <1>5, <2>2, <3>1
  <2> QED BY <2>1, <2>2
<1>11. a \in Int
  BY <1>3, <1>4
<1> HIDE DEF t, a
<1>12. \A k \in 1 .. Len(t) :
          \/ k \in 1 .. Len(s) /\ t[k] = s[k]
          \/ t[k] = Fila(p, Libre)
          \/ k = a + 1 /\ t[k] = Fila(p, g)
  <2> TAKE k \in 1 .. Len(t)
  <2>1. CASE k \in a + 1 .. a + n /\ t[k] = B[k - a]
    <3>1. k - a \in 1 .. n /\ (k - a = 1 => k = a + 1)
      BY <1>5, <1>11, <2>1
    <3> QED BY <1>5, <2>1, <3>1
  <2> QED BY <1>10, <2>1
<1>13. IsFiniteSet(a + 1 .. a + n) /\ Cardinality(a + 1 .. a + n) = n
  <2>1. a + 1 \in Int /\ a + n \in Int /\ (IF a + 1 > a + n THEN 0 ELSE (a + n) - (a + 1) + 1) = n
    BY <1>5, <1>11
  <2> QED BY <2>1, FS_Interval
<1>14. /\ Cardinality(Usadas(s)) \in Nat /\ Cardinality(Usadas(t)) \in Nat
       /\ Cardinality(Usadas(t)) <= Cardinality(Usadas(s)) + n
  <2>1. \A k \in 1 .. Len(t) : t[k].proceso # Libre =>
           (k \in 1 .. Len(s) /\ s[k].proceso # Libre) \/ k \in a + 1 .. a + n
    BY <1>10
  <2> DEFINE X == a + 1 .. a + n
  <2>2. IsFiniteSet(X) /\ Cardinality(X) = n
    BY <1>13
  <2>3. \A k \in 1 .. Len(t) : t[k].proceso # Libre =>
           (k \in 1 .. Len(s) /\ s[k].proceso # Libre) \/ k \in X
    BY <2>1
  <2> HIDE DEF X
  <2> QED BY <1>3, <1>10, <2>2, <2>3, UsadasCrecen
<1>15. Cardinality(Usadas(t)) <= FramesPorArchivo
  BY <1>5, <1>8, <1>14
<1>16. Fila(p, g) \notin Range(s)
  BY <1>3, <1>6 DEF Range, Fila
<1>17. Ocupa(p, g, f, t, a + 1)
  BY <1>2, <1>9, <1>10, <1>12, <1>15, <1>16 DEF Ocupa, s
<1> QED BY <1>17

\* A row with page g of p is put in the place of another row of p, or of a free one.
LEMMA ReemplazaOcupa ==
    ASSUME ConstantesValidas, Inductivo, NEW p \in Procesos, NEW g \in Paginas,
           NEW f \in Archivos, NEW i \in Nat,
           swap_dict[p] \in {Libre, f}, Fila(p, g) \notin Range(tabla_paginas[f]),
           tabla_paginas' = [tabla_paginas EXCEPT
                                ![f] = Reemplaza(tabla_paginas[f], i, <<Fila(p, g)>>)],
           swap_dict' = [swap_dict EXCEPT ![p] = f],
           \/ tabla_paginas_size(f) < FramesPorArchivo
           \/ i < Len(tabla_paginas[f]) => tabla_paginas[f][i + 1].proceso # Libre
    PROVE  \E t, d : Ocupa(p, g, f, t, d)
<1> DEFINE s == tabla_paginas[f]
           t == Reemplaza(s, i, <<Fila(p, g)>>)
<1>1. s \in Seq(Filas) /\ Len(s) \in Nat
  BY TablaEs DEF Inductivo
<1>2. <<Fila(p, g)>> \in Seq(Filas) /\ Len(<<Fila(p, g)>>) = 1 /\ <<Fila(p, g)>>[1] = Fila(p, g)
  BY DEF Fila, Filas
<1>3. /\ t \in Seq(Filas) /\ Len(t) = Len(s)
      /\ \A k \in 1 .. Len(s) :
            t[k] = IF k \in i + 1 .. i + 1 THEN <<Fila(p, g)>>[k - i] ELSE s[k]
  <2> DEFINE filas == <<Fila(p, g)>>
  <2>1. filas \in Seq(Filas) /\ Len(filas) = 1
    BY <1>2
  <2>2. s \in Seq(Filas) /\ i \in Nat
    BY <1>1
  <2> HIDE DEF filas, s
  <2>3. /\ Reemplaza(s, i, filas) \in Seq(Filas) /\ Len(Reemplaza(s, i, filas)) = Len(s)
        /\ \A k \in 1 .. Len(s) :
              Reemplaza(s, i, filas)[k] =
                  IF k \in i + 1 .. i + Len(filas) THEN filas[k - i] ELSE s[k]
    BY ONLY <2>1, <2>2, ReemplazaEs
  <2> QED BY <2>1, <2>3 DEF filas
<1> HIDE DEF s, t
<1>4. \A k \in 1 .. Len(t) : IF k = i + 1 THEN t[k] = Fila(p, g) ELSE t[k] = s[k]
  <2> TAKE k \in 1 .. Len(t)
  <2>1. CASE k = i + 1
    <3>1. k \in i + 1 .. i + 1 /\ k - i = 1
      BY <1>1, <1>3, <2>1
    <3> QED BY <1>2, <1>3, <2>1, <3>1
  <2>2. CASE k # i + 1
    <3>1. k \notin i + 1 .. i + 1
      BY <1>1, <1>3, <2>2
    <3> QED BY <1>2, <1>3, <2>2, <3>1
  <2> QED BY <2>1, <2>2
<1>5. tabla_paginas_size(f) = Cardinality(Usadas(s)) /\ Cardinality(Usadas(s)) \in Nat
  BY TamanioEs DEF Inductivo, s
<1>6. Cardinality(Usadas(t)) <= FramesPorArchivo
  <2>1. CASE tabla_paginas_size(f) < FramesPorArchivo
    <3>1. \A k \in 1 .. Len(t) : t[k].proceso # Libre =>
             (k \in 1 .. Len(s) /\ s[k].proceso # Libre) \/ k \in {i + 1}
      BY <1>1, <1>3, <1>4
    <3>2. Cardinality(Usadas(t)) \in Nat /\ Cardinality(Usadas(t)) <= Cardinality(Usadas(s)) + 1
      BY <1>1, <1>3, <3>1, UsadasCrecen, FS_Singleton
    <3> QED BY <1>5, <2>1, <3>2 DEF ConstantesValidas
  <2>2. CASE ~(tabla_paginas_size(f) < FramesPorArchivo)
    <3>1. i < Len(s) => s[i + 1].proceso # Libre
      BY <2>2 DEF s
    <3>2. \A k \in 1 .. Len(t) : t[k].proceso # Libre =>
             (k \in 1 .. Len(s) /\ s[k].proceso # Libre) \/ k \in {}
      BY <1>1, <1>3, <1>4, <3>1
    <3>3. Cardinality(Usadas(t)) \in Nat /\ Cardinality(Usadas(t)) <= Cardinality(Usadas(s)) + 0
      BY <1>1, <1>3, <3>2, UsadasCrecen, FS_EmptySet
    <3>4. tabla_paginas_size(f) <= FramesPorArchivo
      BY DEF Inductivo, CapacidadRespetada
    <3> QED BY <1>5, <3>3, <3>4 DEF ConstantesValidas
  <2> QED BY <2>1, <2>2
<1>7. /\ tabla_paginas' = [tabla_paginas EXCEPT ![f] = t]
      /\ Fila(p, g) \notin Range(s)
  BY DEF s, t
<1>8. Ocupa(p, g, f, t, i + 1)
  BY <1>3, <1>4, <1>6, <1>7 DEF Ocupa, s
<1> QED BY <1>8

\* A row with page g of p is added at the end.
LEMMA AgregaOcupa ==
    ASSUME ConstantesValidas, Inductivo, NEW p \in Procesos, NEW g \in Paginas,
           NEW f \in Archivos,
           swap_dict[p] \in {Libre, f}, Fila(p, g) \notin Range(tabla_paginas[f]),
           tabla_paginas' = [tabla_paginas EXCEPT ![f] = Append(tabla_paginas[f], Fila(p, g))],
           swap_dict' = [swap_dict EXCEPT ![p] = f],
           tabla_paginas_size(f) < FramesPorArchivo
    PROVE  \E t, d : Ocupa(p, g, f, t, d)
<1> DEFINE s == tabla_paginas[f]
           t == Append(s, Fila(p, g))
<1>1. s \in Seq(Filas) /\ Len(s) \in Nat
  BY TablaEs DEF Inductivo
<1>2. Fila(p, g) \in Filas
  BY DEF Fila, Filas
<1>3. /\ t \in Seq(Filas) /\ Len(t) = Len(s) + 1
      /\ \A k \in 1 .. Len(s) : t[k] = s[k]
      /\ t[Len(s) + 1] = Fila(p, g)
  BY <1>1, <1>2, AppendProperties
<1> HIDE DEF s, t
<1>4. \A k \in 1 .. Len(t) : (k \in 1 .. Len(s) /\ t[k] = s[k]) \/ (k = Len(s) + 1 /\ t[k] = Fila(p, g))
  BY <1>1, <1>3
<1>5. tabla_paginas_size(f) = Cardinality(Usadas(s)) /\ Cardinality(Usadas(s)) \in Nat
  BY TamanioEs DEF Inductivo, s
<1>6. Cardinality(Usadas(t)) <= FramesPorArchivo
  <2>1. \A k \in 1 .. Len(t) : t[k].proceso # Libre =>
           (k \in 1 .. Len(s) /\ s[k].proceso # Libre) \/ k \in {Len(s) + 1}
    BY <1>1, <1>4
  <2>2. Cardinality(Usadas(t)) \in Nat /\ Cardinality(Usadas(t)) <= Cardinality(Usadas(s)) + 1
    BY <1>1, <1>3, <2>1, UsadasCrecen, FS_Singleton
  <2> QED BY <1>5, <2>2 DEF ConstantesValidas
<1>7. /\ tabla_paginas' = [tabla_paginas EXCEPT ![f] = t]
      /\ Fila(p, g) \notin Range(s)
  BY DEF s, t
<1>8. Ocupa(p, g, f, t, Len(s) + 1)
  BY <1>3, <1>4, <1>6, <1>7 DEF Ocupa, s
<1> QED BY <1>8

\* Whatever the assignment, a message that saves a page gives it a row, or changes
\* neither the rows nor the file of any process.
LEMMA GuardarOcupa ==
    ASSUME ConstantesValidas, Inductivo, NEW p \in Procesos, NEW g \in Paginas,
           NEW x \in Contenidos, guardar_pagina(p, g, x)
    PROVE  \/ UNCHANGED <<tabla_paginas, swap_dict>>
           \/ \E f, t, d : Ocupa(p, g, f, t, d)
<1>1. CASE Sobreescribe(p, g, x) \/ PrimeraFijaSinEspacio(p, g, x) \/ PrimeraDinamicaSinEspacio(p, g, x)
  BY <1>1 DEF Sobreescribe, PrimeraFijaSinEspacio, PrimeraDinamicaSinEspacio, SinEspacio
<1>2. CASE PrimeraFija(p, g, x)
  BY <1>2, PrimeraFijaOcupa
<1> DEFINE f == swap_dict[p]
<1>3. ASSUME f # Libre, ~pagina_esta_en_swap(f, p, g)
      PROVE  /\ f \in Archivos /\ Fila(p, g) \notin Range(tabla_paginas[f])
             /\ swap_dict = [swap_dict EXCEPT ![p] = f]
  BY <1>3 DEF Inductivo, TypeOK, pagina_esta_en_swap
<1>4. CASE OtraFija(p, g, x)
  <2> DEFINE i == get_frame_number(f, p, Libre)
  <2>1. f \in Archivos /\ Fila(p, g) \notin Range(tabla_paginas[f])
    BY <1>3, <1>4 DEF OtraFija
  <2>2. CASE SinEspacio(p, g, x)
    BY <2>2 DEF SinEspacio
  <2>3. CASE ~SinEspacio(p, g, x)
    <3>1. /\ i \in 0 .. Len(tabla_paginas[f])
          /\ i < Len(tabla_paginas[f]) => tabla_paginas[f][i + 1] = Fila(p, Libre)
      BY <2>1, PosicionEs DEF Inductivo, get_frame_number
    <3>2. /\ i \in Nat
          /\ i < Len(tabla_paginas[f]) => tabla_paginas[f][i + 1].proceso # Libre
      <4>1. Len(tabla_paginas[f]) \in Nat
        BY <2>1, TablaEs DEF Inductivo
      <4> QED BY <3>1, <4>1 DEF Fila, ConstantesValidas
    <3>3. /\ tabla_paginas' = [tabla_paginas EXCEPT
                                  ![f] = Reemplaza(tabla_paginas[f], i, <<Fila(p, g)>>)]
          /\ swap_dict' = swap_dict
      BY <1>4, <2>3 DEF OtraFija, CambiaTabla
    <3> HIDE DEF i
    <3>4. swap_dict' = [swap_dict EXCEPT ![p] = f]
      BY <1>3, <1>4, <3>3 DEF OtraFija
    <3> HIDE DEF f
    <3>5. swap_dict[p] \in {Libre, f}
      BY DEF f
    <3>6. \E t, d : Ocupa(p, g, f, t, d)
      BY <2>1, <3>2, <3>3, <3>4, <3>5, ReemplazaOcupa
    <3> QED BY <3>6
  <2> QED BY <2>2, <2>3
<1>5. CASE PrimeraDinamica(p, g, x)
  <2>1. PICK h \in swap_file_menos_ocupado :
          LET i == get_first_free_frame_number(h, p)
              tabla == tabla_paginas[h]
          IN  /\ Asigna(p, h)
              /\ CambiaTabla(h, IF tabla_paginas_size(h) - 1 > i
                                THEN Reemplaza(tabla, i, <<Fila(p, g)>>)
                                ELSE Append(tabla, Fila(p, g)))
    BY <1>5 DEF PrimeraDinamica
  <2> DEFINE i == get_first_free_frame_number(h, p)
  <2>2. h \in Archivos /\ FramesLibres(h) > 0 /\ swap_dict[p] = Libre
    BY <1>5 DEF swap_file_menos_ocupado, PrimeraDinamica
  <2>3. tabla_paginas_size(h) < FramesPorArchivo
    <3>1. tabla_paginas_size(h) \in Nat
      BY <2>2, TamanioEs DEF Inductivo
    <3> QED BY <2>2, <3>1 DEF FramesLibres, ConstantesValidas
  <2>4. Fila(p, g) \notin Range(tabla_paginas[h])
    <3>1. \A k \in 1 .. Len(tabla_paginas[h]) : tabla_paginas[h][k].proceso # p
      BY <2>2, SinArchivoSinFilas DEF Inductivo
    <3>2. DOMAIN tabla_paginas[h] = 1 .. Len(tabla_paginas[h])
      BY <2>2, TablaEs DEF Inductivo
    <3> QED BY <3>1, <3>2 DEF Range, Fila
  <2>5. i \in Nat
    <3>1. i \in 0 .. Len(tabla_paginas[h]) /\ Len(tabla_paginas[h]) \in Nat
      BY <2>2, PosicionEs, TablaEs DEF Inductivo, get_first_free_frame_number
    <3> QED BY <3>1
  <2>6. swap_dict' = [swap_dict EXCEPT ![p] = h]
    BY <2>1 DEF Asigna
  <2>7. \/ tabla_paginas' = [tabla_paginas EXCEPT
                                ![h] = Reemplaza(tabla_paginas[h], i, <<Fila(p, g)>>)]
        \/ tabla_paginas' = [tabla_paginas EXCEPT ![h] = Append(tabla_paginas[h], Fila(p, g))]
    BY <2>1 DEF CambiaTabla
  <2> HIDE DEF i
  <2>8. \E t, d : Ocupa(p, g, h, t, d)
    <3>1. CASE tabla_paginas' = [tabla_paginas EXCEPT
                                    ![h] = Reemplaza(tabla_paginas[h], i, <<Fila(p, g)>>)]
      BY <2>2, <2>3, <2>4, <2>5, <2>6, <3>1, ReemplazaOcupa
    <3>2. CASE tabla_paginas' = [tabla_paginas EXCEPT ![h] = Append(tabla_paginas[h], Fila(p, g))]
      BY <2>2, <2>3, <2>4, <2>6, <3>2, AgregaOcupa
    <3> QED BY <2>7, <3>1, <3>2
  <2> QED BY <2>8
<1>6. CASE OtraDinamica(p, g, x)
  <2>1. f \in Archivos /\ Fila(p, g) \notin Range(tabla_paginas[f])
    BY <1>3, <1>6 DEF OtraDinamica
  <2>2. CASE SinEspacio(p, g, x)
    BY <2>2 DEF SinEspacio
  <2>3. CASE ~SinEspacio(p, g, x)
    <3>1. /\ ~ArchivoLleno(f)
          /\ tabla_paginas' = [tabla_paginas EXCEPT ![f] = Append(tabla_paginas[f], Fila(p, g))]
          /\ swap_dict' = swap_dict
      BY <1>6, <2>3 DEF OtraDinamica, CambiaTabla
    <3>2. tabla_paginas_size(f) < FramesPorArchivo
      <4>1. tabla_paginas_size(f) \in Nat
        BY <2>1, TamanioEs DEF Inductivo
      <4> QED BY <3>1, <4>1 DEF ArchivoLleno, ConstantesValidas
    <3>3. swap_dict' = [swap_dict EXCEPT ![p] = f]
      BY <1>3, <1>6, <3>1 DEF OtraDinamica
    <3> HIDE DEF f
    <3>4. swap_dict[p] \in {Libre, f}
      BY DEF f
    <3>5. \E t, d : Ocupa(p, g, f, t, d)
      BY <2>1, <3>1, <3>2, <3>3, <3>4, AgregaOcupa
    <3> QED BY <3>5
  <2> QED BY <2>2, <2>3
<1> QED
  BY <1>1, <1>2, <1>4, <1>5, <1>6
  DEF guardar_pagina, guardar_pagina_asignacion_fija, guardar_pagina_asignacion_dinamica
\* A message that saves a page keeps the types.
LEMMA GuardarTipos ==
    ASSUME ConstantesValidas, Inductivo, NEW p \in Procesos, NEW g \in Paginas,
           NEW x \in Contenidos, guardar_pagina(p, g, x)
    PROVE  TypeOK'
<1>1. /\ tabla_paginas' \in [Archivos -> Seq(Filas)]
      /\ swap_dict' \in [Procesos -> Archivos \cup {Libre}]
  <2>1. /\ tabla_paginas \in [Archivos -> Seq(Filas)]
        /\ swap_dict \in [Procesos -> Archivos \cup {Libre}]
    BY DEF Inductivo, TypeOK, Filas
  <2>2. ASSUME NEW f, NEW t, NEW d, Ocupa(p, g, f, t, d)
        PROVE  /\ tabla_paginas' \in [Archivos -> Seq(Filas)]
               /\ swap_dict' \in [Procesos -> Archivos \cup {Libre}]
    BY <2>1, <2>2 DEF Ocupa
  <2> QED BY <2>1, <2>2, GuardarOcupa
<1>2. /\ swap_file' \in [Archivos -> [Frames -> Contenidos \cup {Vacio}]]
      /\ \E r \in {"guardada", "sin_espacio"} : respuesta' = Respuesta(p, g, x, r)
  <2>1. swap_file \in [Archivos -> [Frames -> Contenidos \cup {Vacio}]]
    BY DEF Inductivo, TypeOK
  <2>2. ASSUME NEW f \in Archivos, NEW i, EscribeFrame(f, i, x)
        PROVE  swap_file' \in [Archivos -> [Frames -> Contenidos \cup {Vacio}]]
    <3>1. CASE i \notin Frames
      BY <2>1, <2>2, <3>1 DEF EscribeFrame
    <3>2. CASE i \in Frames
      <4>1. swap_file' = [swap_file EXCEPT ![f] = [swap_file[f] EXCEPT ![i] = x]]
        BY <2>2, <3>2 DEF EscribeFrame
      <4>2. [swap_file[f] EXCEPT ![i] = x] \in [Frames -> Contenidos \cup {Vacio}]
        BY <2>1, <3>2
      <4> QED BY <2>1, <4>1, <4>2
    <3> QED BY <3>1, <3>2
  <2>3. swap_dict[p] # Libre => swap_dict[p] \in Archivos
    BY DEF Inductivo, TypeOK
  <2>4. \/ /\ \E f \in Archivos : \E i : EscribeFrame(f, i, x)
           /\ Guardada(p, g, x)
        \/ SinEspacio(p, g, x)
    <3>1. CASE Sobreescribe(p, g, x)
      BY <2>3, <3>1 DEF Sobreescribe
    <3>2. CASE PrimeraFija(p, g, x) \/ PrimeraDinamica(p, g, x)
      BY <3>2 DEF PrimeraFija, PrimeraDinamica, swap_file_menos_ocupado
    <3>3. CASE PrimeraFijaSinEspacio(p, g, x) \/ PrimeraDinamicaSinEspacio(p, g, x)
      BY <3>3 DEF PrimeraFijaSinEspacio, PrimeraDinamicaSinEspacio
    <3>4. CASE OtraFija(p, g, x) \/ OtraDinamica(p, g, x)
      BY <2>3, <3>4 DEF OtraFija, OtraDinamica
    <3> QED
      BY <3>1, <3>2, <3>3, <3>4
      DEF guardar_pagina, guardar_pagina_asignacion_fija, guardar_pagina_asignacion_dinamica
  <2>5. CASE SinEspacio(p, g, x)
    BY <2>1, <2>5 DEF SinEspacio
  <2>6. CASE ~SinEspacio(p, g, x)
    BY <2>2, <2>4, <2>6 DEF Guardada
  <2> QED BY <2>5, <2>6
<1>3. tipo_asignacion' \in {"fija", "dinamica"}
  BY DEF guardar_pagina, Inductivo, TypeOK
<1>4. respuesta' \in [proceso : Procesos \cup {Libre}, pagina : Paginas \cup {Libre},
                      contenido : Contenidos \cup {Vacio, Basura, Libre},
                      resultado : {"ninguna", "tipo", "guardada", "sin_espacio", "leida"}]
  <2>1. PICK r \in {"guardada", "sin_espacio"} : respuesta' = Respuesta(p, g, x, r)
    BY <1>2
  <2> QED BY <2>1 DEF Respuesta
<1> QED BY <1>1, <1>2, <1>3, <1>4 DEF TypeOK, Filas

\* It keeps within the frames of the files, and each page where it is.
LEMMA GuardarFilas ==
    ASSUME ConstantesValidas, Inductivo, NEW p \in Procesos, NEW g \in Paginas,
           NEW x \in Contenidos, guardar_pagina(p, g, x)
    PROVE  CapacidadRespetada' /\ CadaPaginaEnSuArchivo'
<1>1. TypeOK' /\ Libre \notin Archivos \cup Procesos \cup Paginas
  BY GuardarTipos DEF ConstantesValidas, Archivos
<1>2. CASE UNCHANGED <<tabla_paginas, swap_dict>>
  BY <1>2 DEF Inductivo, CapacidadRespetada, CadaPaginaEnSuArchivo, tabla_paginas_size
<1>3. ASSUME NEW f, NEW t, NEW d, Ocupa(p, g, f, t, d)
      PROVE  CapacidadRespetada' /\ CadaPaginaEnSuArchivo'
  <2> DEFINE s == tabla_paginas[f]
  <2>1. /\ f \in Archivos /\ t \in Seq(Filas)
        /\ swap_dict[p] \in {Libre, f} /\ Fila(p, g) \notin Range(s)
        /\ \A k \in 1 .. Len(t) : \/ k \in 1 .. Len(s) /\ t[k] = s[k]
                                  \/ t[k] = Fila(p, Libre)
                                  \/ k = d /\ t[k] = Fila(p, g)
        /\ Cardinality(Usadas(t)) <= FramesPorArchivo
    BY <1>3 DEF Ocupa
  <2>2. /\ tabla_paginas'[f] = t
        /\ \A h \in Archivos : h # f => tabla_paginas'[h] = tabla_paginas[h]
        /\ swap_dict'[p] = f
        /\ \A q \in Procesos : q # p => swap_dict'[q] = swap_dict[q]
    BY <1>3 DEF Ocupa, Inductivo, TypeOK
  <2>3. /\ s \in Seq(Filas) /\ DOMAIN s = 1 .. Len(s) /\ Len(s) \in Nat
        /\ DOMAIN t = 1 .. Len(t)
        /\ \A k \in 1 .. Len(s) : s[k].proceso \in Procesos \cup {Libre}
    BY <2>1, TablaEs DEF Inductivo
  <2>4. CapacidadRespetada'
    <3>1. ASSUME NEW h \in Archivos PROVE (tabla_paginas_size(h) <= FramesPorArchivo)'
      <4>1. CASE h = f
        <5>1. tabla_paginas_size(f)' = Cardinality(Usadas(t))
          BY <2>2, <2>3 DEF tabla_paginas_size, Usadas
        <5> QED BY <2>1, <4>1, <5>1
      <4>2. CASE h # f
        BY <2>2, <4>2 DEF Inductivo, CapacidadRespetada, tabla_paginas_size
      <4> QED BY <4>1, <4>2
    <3> QED BY <3>1 DEF CapacidadRespetada
  <2>5. \A h \in Archivos : \A k \in DOMAIN tabla_paginas[h] :
           tabla_paginas[h][k].proceso # Libre => swap_dict[tabla_paginas[h][k].proceso] = h
    BY DEF Inductivo, CadaPaginaEnSuArchivo
  <2>6. \A h \in Archivos : \A k, j \in DOMAIN tabla_paginas[h] :
           /\ tabla_paginas[h][k].proceso # Libre /\ tabla_paginas[h][k].pagina # Libre
           /\ tabla_paginas[h][j] = tabla_paginas[h][k]
           => j = k
    BY DEF Inductivo, CadaPaginaEnSuArchivo
  <2>7. ASSUME NEW h \in Archivos, h # f, NEW k \in DOMAIN tabla_paginas'[h],
               tabla_paginas'[h][k].proceso # Libre
        PROVE  /\ swap_dict'[tabla_paginas'[h][k].proceso] = h
               /\ tabla_paginas'[h][k].pagina # Libre =>
                     \A j \in DOMAIN tabla_paginas'[h] :
                        tabla_paginas'[h][j] = tabla_paginas'[h][k] => j = k
    <3>1. tabla_paginas'[h] = tabla_paginas[h]
      BY <2>2, <2>7
    <3>2. tabla_paginas[h][k].proceso \in Procesos
      BY <2>7, <3>1, TablaEs DEF Inductivo
    <3>3. tabla_paginas[h][k].proceso # p
      BY <1>1, <2>1, <2>5, <2>7, <3>1
    <3> QED BY <2>2, <2>5, <2>6, <2>7, <3>1, <3>2, <3>3
  <2> HIDE DEF s
  <2>8. ASSUME NEW k \in 1 .. Len(t), t[k].proceso # Libre
        PROVE  /\ swap_dict'[t[k].proceso] = f
               /\ t[k].pagina # Libre => \A j \in 1 .. Len(t) : t[j] = t[k] => j = k
    <3>1. swap_dict'[t[k].proceso] = f
      <4>1. CASE t[k] = Fila(p, Libre) \/ t[k] = Fila(p, g)
        BY <2>2, <4>1 DEF Fila
      <4>2. CASE k \in 1 .. Len(s) /\ t[k] = s[k]
        <5>1. s[k].proceso \in Procesos /\ swap_dict[s[k].proceso] = f
          BY <2>1, <2>3, <2>5, <2>8, <4>2 DEF s
        <5> QED BY <2>2, <4>2, <5>1
      <4> QED BY <2>1, <4>1, <4>2
    <3>2. ASSUME t[k].pagina # Libre, NEW j \in 1 .. Len(t), t[j] = t[k]
          PROVE  j = k
      <4>1. t[k] # Fila(p, Libre) /\ t[j] # Fila(p, Libre)
        BY <3>2 DEF Fila
      <4>2. Fila(p, g) \notin {s[i] : i \in 1 .. Len(s)}
        BY <2>1, <2>3 DEF Range
      <4>3. CASE k \in 1 .. Len(s) /\ t[k] = s[k]
        <5>1. j \in 1 .. Len(s) /\ t[j] = s[j]
          BY <2>1, <3>2, <4>1, <4>2, <4>3
        <5> QED BY <2>1, <2>3, <2>6, <2>8, <3>2, <4>3, <5>1 DEF s
      <4>4. CASE k = d /\ t[k] = Fila(p, g)
        BY <2>1, <3>2, <4>1, <4>2, <4>4
      <4> QED BY <2>1, <4>1, <4>3, <4>4
    <3> QED BY <3>1, <3>2
  <2>9. CadaPaginaEnSuArchivo'
    <3>1. ASSUME NEW h \in Archivos, NEW k \in DOMAIN tabla_paginas'[h],
                 tabla_paginas'[h][k].proceso # Libre
          PROVE  /\ swap_dict'[tabla_paginas'[h][k].proceso] = h
                 /\ tabla_paginas'[h][k].pagina # Libre =>
                       \A j \in DOMAIN tabla_paginas'[h] :
                          tabla_paginas'[h][j] = tabla_paginas'[h][k] => j = k
      <4>1. CASE h # f
        BY <2>7, <3>1, <4>1
      <4>2. CASE h = f
        BY <2>2, <2>3, <2>8, <3>1, <4>2
      <4> QED BY <4>1, <4>2
    <3> QED BY <3>1 DEF CadaPaginaEnSuArchivo
  <2> QED BY <2>4, <2>9
<1> QED BY <1>2, <1>3, GuardarOcupa

-----------------------------------------------------------------------------
(* The end of a process.                                                   *)

\* What finalizar_proceso does to the rows.
LEMMA FinalizarEs ==
    ASSUME ConstantesValidas, TypeOK, NEW p \in Procesos, finalizar_proceso(p), NEW f,
           f = swap_dict[p]
    PROVE  /\ f \in Archivos
           /\ tabla_paginas'[f] \in Seq(Filas) /\ Len(tabla_paginas'[f]) = Len(tabla_paginas[f])
           /\ DOMAIN tabla_paginas'[f] = 1 .. Len(tabla_paginas[f])
           /\ \A k \in 1 .. Len(tabla_paginas[f]) :
                 tabla_paginas'[f][k] = IF tabla_paginas[f][k].proceso = p
                                        THEN FilaLibre ELSE tabla_paginas[f][k]
           /\ \A h \in Archivos : h # f => tabla_paginas'[h] = tabla_paginas[h]
           /\ tabla_paginas' \in [Archivos -> Seq(Filas)]
           /\ swap_dict'[p] = Libre
           /\ \A q \in Procesos : q # p => swap_dict'[q] = swap_dict[q]
<1> DEFINE s == tabla_paginas[f]
           t == [k \in DOMAIN s |-> IF k \in FilasDe(f, p) THEN FilaLibre ELSE s[k]]
<1>1. f \in Archivos
  BY DEF finalizar_proceso, TypeOK
<1>2. /\ s \in Seq(Filas) /\ Len(s) \in Nat /\ DOMAIN s = 1 .. Len(s)
      /\ \A k \in 1 .. Len(s) : s[k] \in Filas
  BY <1>1, TablaEs
<1>3. tabla_paginas' = [tabla_paginas EXCEPT ![f] = t]
  BY DEF finalizar_proceso
<1>4. \A k \in 1 .. Len(s) : k \in FilasDe(f, p) <=> s[k].proceso = p
  BY <1>2 DEF FilasDe
<1>5. FilaLibre \in Filas
  BY DEF FilaLibre, Fila, Filas
<1> HIDE DEF s
<1>6. /\ t \in [1 .. Len(s) -> Filas]
      /\ \A k \in 1 .. Len(s) : t[k] = IF s[k].proceso = p THEN FilaLibre ELSE s[k]
  <2>1. t = [k \in 1 .. Len(s) |-> IF k \in FilasDe(f, p) THEN FilaLibre ELSE s[k]]
    BY <1>2
  <2> QED BY <1>2, <1>4, <1>5, <2>1
<1> HIDE DEF t
<1>7. t \in Seq(Filas) /\ Len(t) = Len(s) /\ DOMAIN t = 1 .. Len(s)
  BY <1>2, <1>6
<1>8. /\ tabla_paginas'[f] = t
      /\ \A h \in Archivos : h # f => tabla_paginas'[h] = tabla_paginas[h]
      /\ tabla_paginas' \in [Archivos -> Seq(Filas)]
  BY <1>1, <1>3, <1>7 DEF TypeOK, Filas
<1>9. swap_dict'[p] = Libre /\ \A q \in Procesos : q # p => swap_dict'[q] = swap_dict[q]
  BY DEF finalizar_proceso, TypeOK
<1> QED BY <1>1, <1>6, <1>7, <1>8, <1>9 DEF s

\* The end of a process keeps the invariant: its rows become free.
LEMMA FinalizarInductivo ==
    ASSUME ConstantesValidas, Inductivo, NEW p \in Procesos, finalizar_proceso(p)
    PROVE  Inductivo'
<1> DEFINE f == swap_dict[p]
           s == tabla_paginas[f]
           t == tabla_paginas'[f]
<1>1. /\ f \in Archivos
      /\ t \in Seq(Filas) /\ Len(t) = Len(s) /\ DOMAIN t = 1 .. Len(s)
      /\ \A k \in 1 .. Len(s) : t[k] = IF s[k].proceso = p THEN FilaLibre ELSE s[k]
      /\ \A h \in Archivos : h # f => tabla_paginas'[h] = tabla_paginas[h]
      /\ tabla_paginas' \in [Archivos -> Seq(Filas)]
      /\ swap_dict'[p] = Libre
      /\ \A q \in Procesos : q # p => swap_dict'[q] = swap_dict[q]
  BY FinalizarEs DEF Inductivo
<1>2. /\ s \in Seq(Filas) /\ Len(s) \in Nat /\ DOMAIN s = 1 .. Len(s)
      /\ \A k \in 1 .. Len(s) : s[k].proceso \in Procesos \cup {Libre}
  BY <1>1, TablaEs DEF Inductivo
<1>3. TypeOK'
  <2>1. swap_dict' \in [Procesos -> Archivos \cup {Libre}]
    BY DEF finalizar_proceso, Inductivo, TypeOK
  <2>2. swap_file' \in [Archivos -> [Frames -> Contenidos \cup {Vacio}]]
    <3>1. swap_file' = [swap_file EXCEPT ![f] =
              [i \in Frames |-> IF i + 1 \in FilasDe(f, p) THEN Vacio ELSE swap_file[f][i]]]
      BY DEF finalizar_proceso
    <3>2. swap_file \in [Archivos -> [Frames -> Contenidos \cup {Vacio}]]
      BY DEF Inductivo, TypeOK
    <3>3. [i \in Frames |-> IF i + 1 \in FilasDe(f, p) THEN Vacio ELSE swap_file[f][i]]
             \in [Frames -> Contenidos \cup {Vacio}]
      BY <1>1, <3>2
    <3> HIDE DEF f
    <3> QED BY <3>1, <3>2, <3>3
  <2>3. UNCHANGED <<tipo_asignacion, respuesta>>
    BY DEF finalizar_proceso
  <2> QED BY <1>1, <2>1, <2>2, <2>3 DEF TypeOK, Filas, Inductivo
<1>4. f # Libre /\ p # Libre /\ Libre \notin Archivos
  BY <1>1 DEF ConstantesValidas, Archivos
<1>5. CapacidadRespetada'
  <2>1. ASSUME NEW h \in Archivos PROVE (tabla_paginas_size(h) <= FramesPorArchivo)'
    <3>1. tabla_paginas_size(h) <= FramesPorArchivo
      BY DEF Inductivo, CapacidadRespetada
    <3>2. CASE h # f
      BY <1>1, <3>1, <3>2 DEF tabla_paginas_size
    <3>3. CASE h = f
      <4>1. tabla_paginas_size(h) = Cardinality(Usadas(s))
        BY <1>2, <3>3 DEF tabla_paginas_size, Usadas
      <4>2. tabla_paginas_size(h)' = Cardinality(Usadas(t))
        BY <1>1, <3>3 DEF tabla_paginas_size, Usadas
      <4>3. \A k \in 1 .. Len(t) : t[k].proceso # Libre =>
               (k \in 1 .. Len(s) /\ s[k].proceso # Libre) \/ k \in {}
        BY SMTT(30), <1>1 DEF FilaLibre, Fila
      <4> HIDE DEF s, t
      <4>4. /\ Cardinality(Usadas(t)) <= Cardinality(Usadas(s)) + 0
            /\ Cardinality(Usadas(t)) \in Nat /\ Cardinality(Usadas(s)) \in Nat
        BY <1>1, <1>2, <4>3, UsadasCrecen, FS_EmptySet
      <4> QED BY <3>1, <3>3, <4>1, <4>2, <4>4 DEF ConstantesValidas
    <3> QED BY <3>2, <3>3
  <2> QED BY <2>1 DEF CapacidadRespetada
<1>6. \A h \in Archivos : \A k \in DOMAIN tabla_paginas[h] :
         tabla_paginas[h][k].proceso # Libre =>
            /\ swap_dict[tabla_paginas[h][k].proceso] = h
            /\ tabla_paginas[h][k].pagina # Libre =>
                  \A j \in DOMAIN tabla_paginas[h] :
                     tabla_paginas[h][j] = tabla_paginas[h][k] => j = k
  BY DEF Inductivo, CadaPaginaEnSuArchivo
<1>7. CadaPaginaEnSuArchivo'
  <2>1. ASSUME NEW h \in Archivos, NEW k \in DOMAIN tabla_paginas'[h],
               tabla_paginas'[h][k].proceso # Libre
        PROVE  /\ swap_dict'[tabla_paginas'[h][k].proceso] = h
               /\ tabla_paginas'[h][k].pagina # Libre =>
                     \A j \in DOMAIN tabla_paginas'[h] :
                        tabla_paginas'[h][j] = tabla_paginas'[h][k] => j = k
    <3>1. CASE h # f
      <4>1. tabla_paginas'[h] = tabla_paginas[h]
        BY <1>1, <3>1
      <4>2. tabla_paginas[h][k].proceso \in Procesos
        BY <2>1, <4>1, TablaEs DEF Inductivo
      <4>3. tabla_paginas[h][k].proceso # p
        BY <1>6, <2>1, <3>1, <4>1
      <4> QED BY <1>1, <1>6, <2>1, <4>1, <4>2, <4>3
    <3>2. CASE h = f
      <4>1. k \in 1 .. Len(s) /\ t[k].proceso # Libre
        BY <1>1, <2>1, <3>2
      <4> HIDE DEF t
      <4>2. s[k].proceso # p /\ t[k] = s[k] /\ s[k].proceso \in Procesos
        BY <1>1, <1>2, <4>1 DEF FilaLibre, Fila
      <4>3. \A j \in 1 .. Len(s) : t[j] = s[k] => s[j] = s[k]
        BY <1>1, <4>1, <4>2 DEF FilaLibre, Fila
      <4>4. /\ swap_dict[s[k].proceso] = f
            /\ s[k].pagina # Libre => \A j \in 1 .. Len(s) : s[j] = s[k] => j = k
        BY <1>1, <1>2, <1>6, <4>1, <4>2
      <4>5. swap_dict'[s[k].proceso] = f
        BY <1>1, <4>2, <4>4
      <4> QED BY <1>1, <3>2, <4>1, <4>2, <4>3, <4>4, <4>5 DEF t
    <3> QED BY <3>1, <3>2
  <2> QED BY <2>1 DEF CadaPaginaEnSuArchivo
<1> QED BY <1>3, <1>5, <1>7 DEF Inductivo

\* Every message keeps the invariant.
LEMMA PasoInductivo ==
    ASSUME ConstantesValidas, Inductivo, [Next]_vars
    PROVE  Inductivo'
<1>1. CASE TipoAsignacion
  <2>1. TypeOK'
    BY <1>1 DEF TipoAsignacion, Inductivo, TypeOK, ConstantesValidas
  <2> QED BY <1>1, <2>1
          DEF TipoAsignacion, Inductivo, CapacidadRespetada, CadaPaginaEnSuArchivo, tabla_paginas_size
<1>2. ASSUME NEW p \in Procesos, NEW g \in Paginas, obtener_pagina(p, g) PROVE Inductivo'
  <2>1. UNCHANGED <<tabla_paginas, swap_file, swap_dict, tipo_asignacion>>
    BY <1>2 DEF obtener_pagina
  <2>2. \E x \in Contenidos \cup {Vacio, Basura} : respuesta' = Respuesta(p, g, x, "leida")
    <3> DEFINE f == swap_dict[p]
               i == get_frame_number(f, p, g)
               x == IF f = Libre THEN Basura ELSE LeeFrame(f, i)
    <3>1. respuesta' = Respuesta(p, g, x, "leida")
      BY <1>2 DEF obtener_pagina
    <3>2. f # Libre => f \in Archivos
      BY DEF Inductivo, TypeOK
    <3>3. f \in Archivos => LeeFrame(f, i) \in Contenidos \cup {Vacio, Basura}
      BY DEF LeeFrame, Inductivo, TypeOK
    <3>4. x \in Contenidos \cup {Vacio, Basura}
      BY <3>2, <3>3
    <3> HIDE DEF x
    <3> QED BY <3>1, <3>4
  <2>3. TypeOK'
    <3>1. PICK x \in Contenidos \cup {Vacio, Basura} : respuesta' = Respuesta(p, g, x, "leida")
      BY <2>2
    <3> QED BY <2>1, <3>1 DEF Inductivo, TypeOK, Respuesta
  <2> QED BY <2>1, <2>3
          DEF Inductivo, CapacidadRespetada, CadaPaginaEnSuArchivo, tabla_paginas_size
<1>3. ASSUME NEW p \in Procesos, NEW g \in Paginas, NEW x \in Contenidos, guardar_pagina(p, g, x)
      PROVE  Inductivo'
  BY <1>3, GuardarTipos, GuardarFilas DEF Inductivo
<1>4. ASSUME NEW p \in Procesos, finalizar_proceso(p) PROVE Inductivo'
  BY <1>4, FinalizarInductivo
<1>5. CASE UNCHANGED vars
  <2>1. TypeOK'
    BY <1>5 DEF vars, Inductivo, TypeOK
  <2> QED BY <1>5, <2>1
          DEF vars, Inductivo, CapacidadRespetada, CadaPaginaEnSuArchivo, tabla_paginas_size
<1> QED BY <1>1, <1>2, <1>3, <1>4, <1>5 DEF Next, consola

\* The empty tables satisfy it.
LEMMA AlEmpezar ==
    ASSUME ConstantesValidas, Init
    PROVE  Inductivo
<1>1. \A f \in Archivos : tabla_paginas[f] = << >>
  BY DEF Init
<1>2. TypeOK
  BY DEF Init, TypeOK, SinRespuesta, Respuesta
<1>3. CapacidadRespetada
  <2>1. ASSUME NEW f \in Archivos PROVE tabla_paginas_size(f) <= FramesPorArchivo
    <3>1. Len(tabla_paginas[f]) = 0
      BY <1>1
    <3> QED BY <1>2, <3>1, TamanioEs DEF ConstantesValidas
  <2> QED BY <2>1 DEF CapacidadRespetada
<1>4. CadaPaginaEnSuArchivo
  BY <1>1 DEF CadaPaginaEnSuArchivo
<1> QED BY <1>2, <1>3, <1>4 DEF Inductivo

\* The invariant always holds.
THEOREM Invariante == Spec => []Inductivo
<1>1. Init => Inductivo
  BY ConstantesValidas, AlEmpezar
<1>2. Inductivo /\ [Next]_vars => Inductivo'
  BY ConstantesValidas, PasoInductivo
<1> QED BY <1>1, <1>2, PTL DEF Spec

\* The tables, the files, the dictionary and the answers keep their types.
THEOREM TipoCorrecto == Spec => []TypeOK
<1>1. Inductivo => TypeOK
  BY DEF Inductivo
<1> QED BY <1>1, Invariante, PTL

\* No swap file has more rows in use than frames, under either assignment, whichever
\* processes end and however their rows are reused.
THEOREM NuncaSeExcede == Spec => []CapacidadRespetada
<1>1. Inductivo => CapacidadRespetada
  BY DEF Inductivo
<1> QED BY <1>1, Invariante, PTL

\* The rows of a process are in its file, and get_frame_number finds one row at most
\* for a page, under either assignment and whichever processes end.
THEOREM PaginasEnUnLugar == Spec => []CadaPaginaEnSuArchivo
<1>1. Inductivo => CadaPaginaEnSuArchivo
  BY DEF Inductivo
<1> QED BY <1>1, Invariante, PTL
-----------------------------------------------------------------------------
(* The order of the rows.  The last row of a table is not reused when a    *)
(* process ends, "list_size(...) - 1 > frame_asignado": blocks of one frame*)
(* stay whole only while no process ends.                                  *)

BloquesReusables == MarcosPorCarpincho >= 2 \/ Terminan = {}

\* b[k] is the frame where the block of row k begins: all the rows of a block are of
\* one process, and a process has one block.
PorBloques(t, b) ==
    \A k \in 1 .. Len(t) :
        /\ b[k] \in 0 .. k - 1
        /\ k <= b[k] + MarcosPorCarpincho /\ b[k] + MarcosPorCarpincho <= Len(t)
        /\ \A j \in b[k] + 1 .. b[k] + MarcosPorCarpincho : b[j] = b[k]
        /\ \A j \in 1 .. Len(t) : b[j] = b[k] => t[j].proceso = t[k].proceso
        /\ t[k].proceso # Libre =>
              \A j \in 1 .. Len(t) : t[j].proceso = t[k].proceso => b[j] = b[k]

\* Until memoria sends the assignment there are no rows.
AntesDelTipo ==
    respuesta = SinRespuesta =>
        /\ \A f \in Archivos : tabla_paginas[f] = << >>
        /\ \A p \in Procesos : swap_dict[p] = Libre

\* Only processes that end leave free rows.
FilasLibresEnteras ==
    \A f \in Archivos : \A k \in 1 .. Len(tabla_paginas[f]) :
        tabla_paginas[f][k].proceso = Libre =>
            tabla_paginas[f][k] = FilaLibre /\ Terminan # {}

\* Under the fixed assignment a table is made of blocks, and fits in its file.
TablaFija(f) ==
    /\ Len(tabla_paginas[f]) <= FramesPorArchivo
    /\ \E b : PorBloques(tabla_paginas[f], b)

TieneFilas(p) ==
    swap_dict[p] # Libre =>
        \E k \in 1 .. Len(tabla_paginas[swap_dict[p]]) :
            tabla_paginas[swap_dict[p]][k].proceso = p

EnFija ==
    tipo_asignacion = "fija" =>
        (\A f \in Archivos : TablaFija(f)) /\ (\A p \in Procesos : TieneFilas(p))

\* Under the dynamic one, while no process ends, each row has its page.
TablaDinamica(f) ==
    /\ Len(tabla_paginas[f]) <= FramesPorArchivo
    /\ \A k \in 1 .. Len(tabla_paginas[f]) : tabla_paginas[f][k].pagina # Libre

EnDinamica ==
    tipo_asignacion = "dinamica" /\ Terminan = {} => \A f \in Archivos : TablaDinamica(f)

Ordenado ==
    /\ AntesDelTipo /\ FilasLibresEnteras /\ EnFija /\ EnDinamica
    /\ tipo_asignacion \in TiposMemoria \cup {"fija"}

\* The rows of a table where all are in use.
LEMMA UsadasTodas ==
    ASSUME NEW s \in Seq(Filas), \A k \in 1 .. Len(s) : s[k].proceso # Libre
    PROVE  Cardinality(Usadas(s)) = Len(s)
<1>1. Len(s) \in Nat
  OBVIOUS
<1>2. Usadas(s) = 1 .. Len(s)
  BY DEF Usadas
<1>3. 1 \in Int /\ Len(s) \in Int /\ (IF 1 > Len(s) THEN 0 ELSE Len(s) - 1 + 1) = Len(s)
  BY <1>1
<1> QED BY <1>2, <1>3, FS_Interval

\* The new block of p in table t, from frame i on: at the end of table s or in the
\* place of free rows.
Entra(p, g, s, i, t) ==
    LET n == MarcosPorCarpincho
    IN  /\ t \in Seq(Filas) /\ i \in 0 .. Len(s)
        /\ i + n <= Len(t) /\ Len(s) <= Len(t) /\ Len(t) <= FramesPorArchivo
        /\ \A k \in 1 .. Len(t) :
              IF k \in i + 1 .. i + n THEN t[k] = Fila(p, IF k = i + 1 THEN g ELSE Libre)
                                      ELSE k \in 1 .. Len(s) /\ t[k] = s[k]
        /\ \A k \in 1 .. Len(s) : k \in i + 1 .. i + n => s[k] = FilaLibre
        /\ \A b : PorBloques(s, b) =>
              \A k \in 1 .. Len(s) : k \in i + 1 .. i + n <=> b[k] = i

\* The block of a free row at the first free frame: it begins there and is free.
LEMMA BloqueLibre ==
    ASSUME ConstantesValidas, NEW s \in Seq(Filas), NEW i \in 0 .. Len(s) - 1, NEW b,
           PorBloques(s, b), s[i + 1].proceso = Libre,
           \A k \in 1 .. i : s[k].proceso # Libre
    PROVE  /\ i + MarcosPorCarpincho <= Len(s)
           /\ \A k \in 1 .. Len(s) : k \in i + 1 .. i + MarcosPorCarpincho <=> b[k] = i
           /\ \A k \in 1 .. Len(s) : b[k] = i => s[k].proceso = Libre
<1> DEFINE n == MarcosPorCarpincho
<1>1. n \in Nat \ {0} /\ Len(s) \in Nat /\ i \in Nat /\ i + 1 \in 1 .. Len(s)
  BY DEF ConstantesValidas
<1>2. \A k \in 1 .. Len(s) :
        /\ b[k] \in 0 .. k - 1 /\ k <= b[k] + n /\ b[k] + n <= Len(s)
        /\ \A j \in b[k] + 1 .. b[k] + n : b[j] = b[k]
        /\ \A j \in 1 .. Len(s) : b[j] = b[k] => s[j].proceso = s[k].proceso
  BY DEF PorBloques
<1> HIDE DEF n
<1>3. b[i + 1] = i
  <2> SUFFICES ASSUME b[i + 1] # i PROVE FALSE
    OBVIOUS
  <2>1. i \in b[i + 1] + 1 .. b[i + 1] + n /\ i \in 1 .. Len(s)
    BY SMTT(30), <1>1, <1>2
  <2>2. b[i] = b[i + 1]
    BY <1>1, <1>2, <2>1
  <2>3. s[i].proceso = s[i + 1].proceso
    BY <1>1, <1>2, <2>1, <2>2
  <2> QED BY <2>1, <2>3
<1>4. i + n <= Len(s)
  BY <1>1, <1>2, <1>3
<1>5. \A k \in i + 1 .. i + n : b[k] = i
  BY <1>1, <1>2, <1>3
<1>6. ASSUME NEW k \in 1 .. Len(s), b[k] = i
      PROVE  k \in i + 1 .. i + n /\ s[k].proceso = Libre
  <2>1. k \in b[k] + 1 .. b[k] + n
    BY <1>1, <1>2
  <2>2. s[k].proceso = s[i + 1].proceso
    BY <1>1, <1>2, <1>3, <1>6
  <2> QED BY <1>6, <2>1, <2>2
<1> QED BY <1>4, <1>5, <1>6 DEF n

\* PrimeraFija gives the process a block of rows with nothing in it.
LEMMA PrimeraFijaEntra ==
    ASSUME ConstantesValidas, BloquesReusables, Inductivo, Ordenado, tipo_asignacion = "fija",
           NEW p \in Procesos, NEW g \in Paginas, NEW x \in Contenidos, PrimeraFija(p, g, x)
    PROVE  \E f \in Archivos : \E i, t :
              /\ swap_dict[p] = Libre /\ swap_dict' = [swap_dict EXCEPT ![p] = f]
              /\ tabla_paginas' = [tabla_paginas EXCEPT ![f] = t]
              /\ EscribeFrame(f, i, x) /\ Guardada(p, g, x)
              /\ Entra(p, g, tabla_paginas[f], i, t)
<1>1. PICK f \in swap_file_menos_ocupado :
        LET i == get_first_free_frame_number(f, p)
            tabla == tabla_paginas[f]
        IN  /\ EntraBloque(f)
            /\ Asigna(p, f)
            /\ EscribeFrame(f, i, x)
            /\ CambiaTabla(f, IF Len(tabla) - 1 > i THEN Reemplaza(tabla, i, Bloque(p, g))
                                                    ELSE tabla \o Bloque(p, g))
            /\ Guardada(p, g, x)
  BY DEF PrimeraFija
<1> DEFINE i == get_first_free_frame_number(f, p)
           s == tabla_paginas[f]
           n == MarcosPorCarpincho
           B == Bloque(p, g)
           t == IF Len(s) - 1 > i THEN Reemplaza(s, i, B) ELSE s \o B
<1>2. f \in Archivos /\ swap_dict[p] = Libre
  BY DEF swap_file_menos_ocupado, PrimeraFija
<1>3. /\ s \in Seq(Filas) /\ Len(s) \in Nat
      /\ \A k \in 1 .. Len(s) : s[k].proceso = Libre => s[k] = FilaLibre /\ Terminan # {}
      /\ Len(s) <= FramesPorArchivo
  BY <1>2, TablaEs DEF Inductivo, Ordenado, FilasLibresEnteras, EnFija, TablaFija
<1>4. PICK b : PorBloques(s, b)
  BY <1>2 DEF Ordenado, EnFija, TablaFija
<1>5. /\ i \in 0 .. Len(s)
      /\ i < Len(s) => s[i + 1] \in {FilaLibre, Fila(p, Libre)}
      /\ \A k \in 1 .. i : s[k] \notin {FilaLibre, Fila(p, Libre)}
  BY <1>2, PosicionEs DEF Inductivo, get_first_free_frame_number
<1>6. /\ B \in Seq(Filas) /\ Len(B) = n /\ n \in Nat \ {0}
      /\ \A k \in 1 .. n : B[k] = Fila(p, IF k = 1 THEN g ELSE Libre)
  BY BloqueEs DEF ConstantesValidas, Bloque
<1>7. \A k \in 1 .. Len(s) : s[k].proceso # p
  BY <1>2, SinArchivoSinFilas DEF Inductivo
<1>8. /\ tabla_paginas' = [tabla_paginas EXCEPT ![f] = t]
      /\ swap_dict' = [swap_dict EXCEPT ![p] = f]
      /\ EscribeFrame(f, i, x) /\ Guardada(p, g, x)
  BY <1>1 DEF CambiaTabla, Asigna
<1>9. EntraBloque(f) /\ tabla_paginas_size(f) = Cardinality(Usadas(s)) /\ FramesPorArchivo \in Nat
  BY <1>1, <1>2, TamanioEs DEF Inductivo, ConstantesValidas
<1> HIDE DEF i, s, B
<1>10. \A k \in 1 .. i : s[k].proceso # Libre
  BY <1>3, <1>5
<1>11. CASE i < Len(s)
  <2>1. s[i + 1].proceso = Libre /\ Terminan # {}
    <3>1. i + 1 \in 1 .. Len(s)
      BY <1>3, <1>5, <1>11
    <3>2. s[i + 1] = FilaLibre
      BY <1>5, <1>7, <1>11, <3>1 DEF Fila
    <3> QED BY <1>3, <3>1, <3>2 DEF FilaLibre, Fila
  <2>2. n >= 2
    BY <2>1 DEF BloquesReusables
  <2>3. i \in 0 .. Len(s) - 1 /\ i \in Nat
    BY <1>3, <1>5, <1>11
  <2>4. ASSUME NEW c, PorBloques(s, c)
        PROVE  /\ i + n <= Len(s)
               /\ \A k \in 1 .. Len(s) : k \in i + 1 .. i + n <=> c[k] = i
               /\ \A k \in 1 .. Len(s) : c[k] = i => s[k].proceso = Libre
    BY <1>3, <1>10, <2>1, <2>3, <2>4, BloqueLibre
  <2>5. /\ i + n <= Len(s)
        /\ \A k \in 1 .. Len(s) : k \in i + 1 .. i + n => s[k] = FilaLibre
    BY <1>3, <1>4, <2>4
  <2>6. t = Reemplaza(s, i, B)
    BY <1>3, <2>2, <2>3, <2>5
  <2>7. /\ t \in Seq(Filas) /\ Len(t) = Len(s)
        /\ \A k \in 1 .. Len(s) : t[k] = IF k \in i + 1 .. i + n THEN B[k - i] ELSE s[k]
    <3>1. s \in Seq(Filas) /\ i \in Nat /\ B \in Seq(Filas) /\ Len(B) = n
      BY <1>3, <1>6, <2>3
    <3>2. /\ Reemplaza(s, i, B) \in Seq(Filas) /\ Len(Reemplaza(s, i, B)) = Len(s)
          /\ \A k \in 1 .. Len(s) :
                Reemplaza(s, i, B)[k] = IF k \in i + 1 .. i + Len(B) THEN B[k - i] ELSE s[k]
      BY ONLY <3>1, ReemplazaEs
    <3> QED BY <2>6, <3>1, <3>2
  <2> HIDE DEF t
  <2>8. \A k \in i + 1 .. i + n : B[k - i] = Fila(p, IF k = i + 1 THEN g ELSE Libre)
    <3> TAKE k \in i + 1 .. i + n
    <3>1. k - i \in 1 .. n /\ (k - i = 1 <=> k = i + 1)
      BY <1>6, <2>3
    <3> QED BY <1>6, <3>1
  <2>9. \A k \in 1 .. Len(t) :
           IF k \in i + 1 .. i + n THEN t[k] = Fila(p, IF k = i + 1 THEN g ELSE Libre)
                                   ELSE k \in 1 .. Len(s) /\ t[k] = s[k]
    BY <2>7, <2>8
  <2>10. i + n <= Len(t) /\ Len(s) <= Len(t) /\ Len(t) <= FramesPorArchivo
    BY <1>3, <2>5, <2>7
  <2>11. \A c : PorBloques(s, c) =>
            \A k \in 1 .. Len(s) : k \in i + 1 .. i + n <=> c[k] = i
    BY <2>4
  <2>12. Entra(p, g, s, i, t)
    BY <1>5, <2>5, <2>7, <2>9, <2>10, <2>11 DEF Entra
  <2> QED BY <1>2, <1>8, <2>12 DEF s, t
<1>12. CASE ~(i < Len(s))
  <2>1. i = Len(s) /\ t = s \o B
    BY <1>3, <1>5, <1>12
  <2>2. Len(s) + n <= FramesPorArchivo
    <3>1. Cardinality(Usadas(s)) = Len(s)
      BY <1>3, <1>10, <2>1, UsadasTodas
    <3> QED BY <1>3, <1>6, <1>9, <3>1 DEF EntraBloque, FramesLibres
  <2>3. /\ s \o B \in Seq(Filas) /\ Len(s \o B) = Len(s) + Len(B)
        /\ \A k \in 1 .. Len(s) + Len(B) :
              (s \o B)[k] = IF k <= Len(s) THEN s[k] ELSE B[k - Len(s)]
    <3>1. s \in Seq(Filas) /\ B \in Seq(Filas)
      BY <1>3, <1>6
    <3> QED BY ONLY <3>1, ConcatProperties
  <2>4. /\ t \in Seq(Filas) /\ Len(t) = Len(s) + n
        /\ \A k \in 1 .. Len(s) : t[k] = s[k]
        /\ \A k \in i + 1 .. i + n : t[k] = B[k - i]
    BY <1>3, <1>6, <2>1, <2>3
  <2> HIDE DEF t
  <2>5. \A k \in i + 1 .. i + n : B[k - i] = Fila(p, IF k = i + 1 THEN g ELSE Libre)
    <3> TAKE k \in i + 1 .. i + n
    <3>1. k - i \in 1 .. n /\ (k - i = 1 <=> k = i + 1)
      BY <1>3, <1>6, <2>1
    <3> QED BY <1>6, <3>1
  <2>6. ASSUME NEW c, PorBloques(s, c)
        PROVE  \A k \in 1 .. Len(s) : k \in i + 1 .. i + n <=> c[k] = i
    <3> TAKE k \in 1 .. Len(s)
    <3>1. c[k] \in 0 .. k - 1
      BY <2>6 DEF PorBloques
    <3> QED BY <1>3, <1>6, <2>1, <3>1
  <2>7. \A k \in 1 .. Len(t) :
           IF k \in i + 1 .. i + n THEN t[k] = Fila(p, IF k = i + 1 THEN g ELSE Libre)
                                   ELSE k \in 1 .. Len(s) /\ t[k] = s[k]
    BY <1>3, <1>6, <2>1, <2>4, <2>5
  <2>8. \A k \in 1 .. Len(s) : k \notin i + 1 .. i + n
    BY <1>3, <1>6, <2>1
  <2>9. i + n <= Len(t) /\ Len(s) <= Len(t) /\ Len(t) <= FramesPorArchivo
    BY <1>3, <1>6, <2>1, <2>2, <2>4
  <2>10. Entra(p, g, s, i, t)
    BY <1>5, <2>4, <2>6, <2>7, <2>8, <2>9 DEF Entra
  <2> QED BY <1>2, <1>8, <2>10 DEF s, t
<1> QED BY <1>11, <1>12

\* The table with the new block is made of blocks.
LEMMA EntraPorBloques ==
    ASSUME ConstantesValidas, NEW p \in Procesos, NEW g, NEW s \in Seq(Filas), NEW i, NEW t,
           Entra(p, g, s, i, t), NEW b, PorBloques(s, b),
           \A k \in 1 .. Len(s) : s[k].proceso # p
    PROVE  \E c : PorBloques(t, c)
<1> DEFINE n == MarcosPorCarpincho
           c == [k \in 1 .. Len(t) |-> IF k \in i + 1 .. i + n THEN i ELSE b[k]]
<1>1. /\ n \in Nat \ {0} /\ Len(s) \in Nat /\ p # Libre
      /\ t \in Seq(Filas) /\ Len(t) \in Nat /\ i \in 0 .. Len(s) /\ i \in Nat
      /\ i + n <= Len(t) /\ Len(s) <= Len(t)
  BY DEF ConstantesValidas, Entra
<1>2. \A k \in 1 .. Len(t) :
         IF k \in i + 1 .. i + n THEN t[k].proceso = p ELSE k \in 1 .. Len(s) /\ t[k] = s[k]
  <2>1. \A h : Fila(p, h).proceso = p
    BY DEF Fila
  <2>2. \A k \in 1 .. Len(t) :
           IF k \in i + 1 .. i + n THEN t[k] = Fila(p, IF k = i + 1 THEN g ELSE Libre)
                                   ELSE k \in 1 .. Len(s) /\ t[k] = s[k]
    BY DEF Entra
  <2> HIDE DEF n
  <2> QED BY <2>1, <2>2
<1>3. \A k \in 1 .. Len(s) : k \in i + 1 .. i + n <=> b[k] = i
  BY DEF Entra
<1>4. \A k \in 1 .. Len(s) :
        /\ b[k] \in 0 .. k - 1 /\ k <= b[k] + n /\ b[k] + n <= Len(s)
        /\ \A j \in b[k] + 1 .. b[k] + n : b[j] = b[k]
        /\ \A j \in 1 .. Len(s) : b[j] = b[k] => s[j].proceso = s[k].proceso
        /\ s[k].proceso # Libre =>
              \A j \in 1 .. Len(s) : s[j].proceso = s[k].proceso => b[j] = b[k]
  BY DEF PorBloques
<1> HIDE DEF n
<1>5. \A k \in 1 .. Len(t) : c[k] = IF k \in i + 1 .. i + n THEN i ELSE b[k]
  OBVIOUS
<1> HIDE DEF c
<1>6. ASSUME NEW k \in 1 .. Len(t), k \in i + 1 .. i + n
      PROVE  /\ c[k] \in 0 .. k - 1 /\ k <= c[k] + n /\ c[k] + n <= Len(t)
             /\ \A j \in c[k] + 1 .. c[k] + n : c[j] = c[k]
             /\ \A j \in 1 .. Len(t) : c[j] = c[k] => t[j].proceso = t[k].proceso
             /\ \A j \in 1 .. Len(t) : t[j].proceso = t[k].proceso => c[j] = c[k]
  <2>1. c[k] = i
    BY <1>5, <1>6
  <2>2. i \in 0 .. k - 1 /\ k <= i + n
    BY <1>1, <1>6
  <2>3. \A j \in i + 1 .. i + n : j \in 1 .. Len(t) /\ c[j] = i
    BY <1>1, <1>5
  <2>4. \A j \in 1 .. Len(t) : c[j] = i <=> j \in i + 1 .. i + n
    BY <1>2, <1>3, <1>5
  <2>5. \A j \in 1 .. Len(t) : t[j].proceso = p <=> j \in i + 1 .. i + n
    BY <1>2
  <2> QED BY <1>1, <1>2, <1>6, <2>1, <2>2, <2>3, <2>4, <2>5
<1>7. ASSUME NEW k \in 1 .. Len(t), k \notin i + 1 .. i + n
      PROVE  /\ c[k] \in 0 .. k - 1 /\ k <= c[k] + n /\ c[k] + n <= Len(t)
             /\ \A j \in c[k] + 1 .. c[k] + n : c[j] = c[k]
             /\ \A j \in 1 .. Len(t) : c[j] = c[k] => t[j].proceso = t[k].proceso
             /\ t[k].proceso # Libre =>
                   \A j \in 1 .. Len(t) : t[j].proceso = t[k].proceso => c[j] = c[k]
  <2>1. k \in 1 .. Len(s) /\ t[k] = s[k] /\ c[k] = b[k] /\ b[k] # i /\ s[k].proceso # p
    BY <1>2, <1>3, <1>5, <1>7
  <2>2. b[k] \in 0 .. k - 1 /\ k <= b[k] + n /\ b[k] + n <= Len(t)
    BY <1>1, <1>4, <2>1
  <2>3. ASSUME NEW j \in b[k] + 1 .. b[k] + n PROVE c[j] = b[k]
    <3>1. j \in 1 .. Len(s) /\ j \in 1 .. Len(t) /\ b[j] = b[k]
      BY SMTT(30), <1>1, <1>4, <2>1
    <3> QED BY <1>3, <1>5, <2>1, <3>1
  <2>4. ASSUME NEW j \in 1 .. Len(t), c[j] = b[k] PROVE t[j].proceso = t[k].proceso
    <3>1. j \notin i + 1 .. i + n /\ j \in 1 .. Len(s) /\ t[j] = s[j] /\ b[j] = b[k]
      BY <1>2, <1>5, <2>1, <2>4
    <3> QED BY <1>4, <2>1, <3>1
  <2>5. ASSUME t[k].proceso # Libre, NEW j \in 1 .. Len(t), t[j].proceso = t[k].proceso
        PROVE  c[j] = b[k]
    <3>1. j \notin i + 1 .. i + n /\ j \in 1 .. Len(s) /\ t[j] = s[j]
      BY <1>2, <2>1, <2>5
    <3> QED BY <1>4, <1>5, <2>1, <2>5, <3>1
  <2> QED BY <2>1, <2>2, <2>3, <2>4, <2>5
<1>8. PorBloques(t, c)
  BY <1>6, <1>7 DEF PorBloques, n
<1> QED BY <1>8

\* Page g of p is put in the first row that file f has reserved for p, row i + 1, or
\* nowhere when there is none.
OcupaReservada(p, g, x, f, i, t) ==
    LET s == tabla_paginas[f]
    IN  /\ swap_dict[p] = f /\ swap_dict' = swap_dict
        /\ tabla_paginas' = [tabla_paginas EXCEPT ![f] = t]
        /\ EscribeFrame(f, i, x) /\ Guardada(p, g, x)
        /\ Fila(p, g) \notin Range(s)
        /\ i \in 0 .. Len(s) /\ i # tabla_paginas_size(f)
        /\ i < Len(s) => s[i + 1] = Fila(p, Libre)
        /\ \A k \in 1 .. i : s[k] # Fila(p, Libre)
        /\ t \in Seq(Filas) /\ Len(t) = Len(s)
        /\ \A k \in 1 .. Len(t) : t[k] = IF k = i + 1 THEN Fila(p, g) ELSE s[k]

\* OtraFija puts the page in a row reserved for its process.
LEMMA OtraFijaEs ==
    ASSUME ConstantesValidas, Inductivo, NEW p \in Procesos, NEW g \in Paginas,
           NEW x \in Contenidos, OtraFija(p, g, x), ~SinEspacio(p, g, x)
    PROVE  \E f \in Archivos : \E i, t : OcupaReservada(p, g, x, f, i, t)
<1> DEFINE i == get_frame_number(swap_dict[p], p, Libre)
<1>1. PICK f \in Archivos : f = swap_dict[p]
  BY DEF OtraFija, Inductivo, TypeOK
<1> DEFINE s == tabla_paginas[f]
           t == Reemplaza(s, i, <<Fila(p, g)>>)
<1>2. /\ swap_dict' = swap_dict /\ i # tabla_paginas_size(f)
      /\ tabla_paginas' = [tabla_paginas EXCEPT ![f] = t]
      /\ EscribeFrame(f, i, x) /\ Guardada(p, g, x)
      /\ Fila(p, g) \notin Range(s)
  BY <1>1 DEF OtraFija, CambiaTabla, pagina_esta_en_swap
<1>3. /\ i \in 0 .. Len(s)
      /\ i < Len(s) => s[i + 1] = Fila(p, Libre)
      /\ \A k \in 1 .. i : s[k] # Fila(p, Libre)
  BY <1>1, PosicionEs DEF Inductivo, get_frame_number
<1>4. s \in Seq(Filas) /\ Len(s) \in Nat
  BY TablaEs DEF Inductivo
<1> HIDE DEF i, s
<1>5. /\ t \in Seq(Filas) /\ Len(t) = Len(s)
      /\ \A k \in 1 .. Len(s) : t[k] = IF k = i + 1 THEN Fila(p, g) ELSE s[k]
  <2> DEFINE filas == <<Fila(p, g)>>
  <2>1. filas \in Seq(Filas) /\ Len(filas) = 1 /\ filas[1] = Fila(p, g)
    BY DEF Fila, Filas
  <2>2. s \in Seq(Filas) /\ i \in Nat
    BY <1>3, <1>4
  <2> HIDE DEF filas
  <2>3. /\ Reemplaza(s, i, filas) \in Seq(Filas) /\ Len(Reemplaza(s, i, filas)) = Len(s)
        /\ \A k \in 1 .. Len(s) :
              Reemplaza(s, i, filas)[k] =
                  IF k \in i + 1 .. i + Len(filas) THEN filas[k - i] ELSE s[k]
    BY ONLY <2>1, <2>2, ReemplazaEs
  <2>4. t = Reemplaza(s, i, filas)
    BY DEF filas
  <2> HIDE DEF t
  <2>5. ASSUME NEW k \in 1 .. Len(s) PROVE t[k] = IF k = i + 1 THEN Fila(p, g) ELSE s[k]
    <3>1. k \in i + 1 .. i + Len(filas) <=> k = i + 1
      BY <1>4, <2>1, <2>2
    <3>2. k = i + 1 => k - i = 1
      BY <2>2
    <3> QED BY <2>1, <2>3, <2>4, <3>1, <3>2
  <2> QED BY <2>3, <2>4, <2>5
<1> HIDE DEF t
<1>6. \A k \in 1 .. Len(t) : t[k] = IF k = i + 1 THEN Fila(p, g) ELSE s[k]
  BY <1>5
<1>7. OcupaReservada(p, g, x, f, i, t)
  BY <1>1, <1>2, <1>3, <1>5, <1>6 DEF OcupaReservada, s
<1> QED BY <1>7

\* While no process ends, the dynamic assignment adds the row at the end, and the page
\* is in the frame that the row stands for.
LEMMA DinamicaEs ==
    ASSUME ConstantesValidas, Inductivo, Ordenado, tipo_asignacion = "dinamica", Terminan = {},
           NEW p \in Procesos, NEW g \in Paginas, NEW x \in Contenidos,
           PrimeraDinamica(p, g, x) \/ (OtraDinamica(p, g, x) /\ ~SinEspacio(p, g, x))
    PROVE  \E f \in Archivos :
              /\ swap_dict[p] \in {Libre, f} /\ swap_dict' = [swap_dict EXCEPT ![p] = f]
              /\ tabla_paginas' = [tabla_paginas EXCEPT ![f] = Append(@, Fila(p, g))]
              /\ EscribeFrame(f, Len(tabla_paginas[f]), x) /\ Guardada(p, g, x)
              /\ Fila(p, g) \notin Range(tabla_paginas[f])
              /\ Len(tabla_paginas[f]) < FramesPorArchivo
<1>1. ASSUME NEW f \in Archivos
      PROVE  /\ tabla_paginas_size(f) = Len(tabla_paginas[f])
             /\ get_first_free_frame_number(f, p) = Len(tabla_paginas[f])
             /\ Len(tabla_paginas[f]) \in Nat
  <2>1. /\ tabla_paginas[f] \in Seq(Filas) /\ Len(tabla_paginas[f]) \in Nat
        /\ \A k \in 1 .. Len(tabla_paginas[f]) :
              /\ tabla_paginas[f][k].proceso # Libre
              /\ tabla_paginas[f][k].pagina # Libre
    BY TablaEs DEF Inductivo, Ordenado, FilasLibresEnteras, EnDinamica, TablaDinamica
  <2>2. tabla_paginas_size(f) = Len(tabla_paginas[f])
    <3>1. tabla_paginas_size(f) = Cardinality(Usadas(tabla_paginas[f]))
      BY TamanioEs DEF Inductivo
    <3> QED BY <2>1, <3>1, UsadasTodas
  <2> DEFINE i == get_first_free_frame_number(f, p)
  <2>3. /\ i \in 0 .. Len(tabla_paginas[f])
        /\ i < Len(tabla_paginas[f]) => tabla_paginas[f][i + 1] \in {FilaLibre, Fila(p, Libre)}
    BY PosicionEs DEF Inductivo, get_first_free_frame_number
  <2> HIDE DEF i
  <2>4. ~(i < Len(tabla_paginas[f]))
    <3> SUFFICES ASSUME i < Len(tabla_paginas[f]) PROVE FALSE
      OBVIOUS
    <3>1. i + 1 \in 1 .. Len(tabla_paginas[f])
      BY <2>1, <2>3
    <3>2. tabla_paginas[f][i + 1].pagina = Libre
      BY <2>3 DEF FilaLibre, Fila
    <3> QED BY <2>1, <3>1, <3>2
  <2>5. i = Len(tabla_paginas[f])
    BY <2>1, <2>3, <2>4
  <2> QED BY <2>1, <2>2, <2>5 DEF i
<1>2. CASE PrimeraDinamica(p, g, x)
  <2>1. PICK f \in swap_file_menos_ocupado :
          LET i == get_first_free_frame_number(f, p)
              tabla == tabla_paginas[f]
          IN  /\ Asigna(p, f)
              /\ EscribeFrame(f, i, x)
              /\ CambiaTabla(f, IF tabla_paginas_size(f) - 1 > i
                                THEN Reemplaza(tabla, i, <<Fila(p, g)>>)
                                ELSE Append(tabla, Fila(p, g)))
              /\ Guardada(p, g, x)
    BY <1>2 DEF PrimeraDinamica
  <2>2. f \in Archivos /\ FramesLibres(f) > 0 /\ swap_dict[p] = Libre
    BY <1>2 DEF swap_file_menos_ocupado, PrimeraDinamica
  <2>3. Len(tabla_paginas[f]) < FramesPorArchivo
    BY <1>1, <2>2 DEF FramesLibres, ConstantesValidas
  <2>4. ~(tabla_paginas_size(f) - 1 > get_first_free_frame_number(f, p))
    BY <1>1, <2>2
  <2>5. /\ swap_dict' = [swap_dict EXCEPT ![p] = f]
        /\ tabla_paginas' = [tabla_paginas EXCEPT ![f] = Append(tabla_paginas[f], Fila(p, g))]
        /\ EscribeFrame(f, Len(tabla_paginas[f]), x) /\ Guardada(p, g, x)
    BY <1>1, <2>1, <2>2, <2>4 DEF Asigna, CambiaTabla
  <2>6. Fila(p, g) \notin Range(tabla_paginas[f])
    <3>1. \A k \in 1 .. Len(tabla_paginas[f]) : tabla_paginas[f][k].proceso # p
      BY <2>2, SinArchivoSinFilas DEF Inductivo
    <3>2. DOMAIN tabla_paginas[f] = 1 .. Len(tabla_paginas[f])
      BY <2>2, TablaEs DEF Inductivo
    <3> QED BY <3>1, <3>2 DEF Range, Fila
  <2> QED BY <2>2, <2>3, <2>5, <2>6
<1>3. CASE OtraDinamica(p, g, x) /\ ~SinEspacio(p, g, x)
  <2>1. PICK f \in Archivos : f = swap_dict[p]
    BY <1>3 DEF OtraDinamica, Inductivo, TypeOK
  <2>2. /\ ~ArchivoLleno(f) /\ Fila(p, g) \notin Range(tabla_paginas[f])
        /\ EscribeFrame(f, Len(tabla_paginas[f]), x)
        /\ tabla_paginas' = [tabla_paginas EXCEPT ![f] = Append(tabla_paginas[f], Fila(p, g))]
        /\ Guardada(p, g, x) /\ swap_dict' = swap_dict
    BY <1>1, <1>3, <2>1 DEF OtraDinamica, CambiaTabla, pagina_esta_en_swap
  <2>3. swap_dict' = [swap_dict EXCEPT ![p] = f]
    BY <2>1, <2>2 DEF Inductivo, TypeOK
  <2>4. Len(tabla_paginas[f]) < FramesPorArchivo
    BY <1>1, <2>2 DEF ArchivoLleno, ConstantesValidas
  <2> QED BY <2>1, <2>2, <2>3, <2>4
<1> QED BY <1>2, <1>3

\* A message that saves a page keeps the order of the rows.
LEMMA GuardarOrdenado ==
    ASSUME ConstantesValidas, BloquesReusables, Inductivo, Ordenado,
           NEW p \in Procesos, NEW g \in Paginas, NEW x \in Contenidos, guardar_pagina(p, g, x)
    PROVE  Ordenado'
<1>1. /\ respuesta' # SinRespuesta /\ p # Libre /\ Libre \notin Archivos
      /\ UNCHANGED tipo_asignacion
  <2>1. \E r \in {"guardada", "sin_espacio"} : respuesta' = Respuesta(p, g, x, r)
    BY DEF guardar_pagina, guardar_pagina_asignacion_fija, guardar_pagina_asignacion_dinamica,
           PrimeraFija, PrimeraFijaSinEspacio, OtraFija, Sobreescribe, PrimeraDinamica,
           PrimeraDinamicaSinEspacio, OtraDinamica, Guardada, SinEspacio
  <2> QED BY <2>1 DEF SinRespuesta, Respuesta, ConstantesValidas, Archivos, guardar_pagina
<1>2. CASE UNCHANGED <<tabla_paginas, swap_dict>>
  BY <1>1, <1>2
  DEF Ordenado, AntesDelTipo, FilasLibresEnteras, EnFija, TablaFija, TieneFilas, EnDinamica,
      TablaDinamica
<1>3. CASE ~UNCHANGED <<tabla_paginas, swap_dict>>
  <2>1. PICK f, t, d : Ocupa(p, g, f, t, d)
    BY <1>3, GuardarOcupa
  <2>2. /\ f \in Archivos /\ t \in Seq(Filas)
        /\ tabla_paginas'[f] = t
        /\ \A h \in Archivos : h # f => tabla_paginas'[h] = tabla_paginas[h]
        /\ swap_dict'[p] = f
        /\ \A q \in Procesos : q # p => swap_dict'[q] = swap_dict[q]
        /\ \A k \in 1 .. Len(t) :
              \/ k \in 1 .. Len(tabla_paginas[f]) /\ t[k] = tabla_paginas[f][k]
              \/ t[k] \in {Fila(p, Libre), Fila(p, g)}
    BY <2>1 DEF Ocupa, Inductivo, TypeOK
  <2>3. FilasLibresEnteras'
    <3>1. ASSUME NEW h \in Archivos, NEW k \in 1 .. Len(tabla_paginas'[h]),
                 tabla_paginas'[h][k].proceso = Libre
          PROVE  tabla_paginas'[h][k] = FilaLibre /\ Terminan # {}
      <4>1. CASE h # f
        BY <2>2, <3>1, <4>1 DEF Ordenado, FilasLibresEnteras
      <4>2. CASE h = f
        <5>1. t[k].proceso = Libre /\ k \in 1 .. Len(t)
          BY <2>2, <3>1, <4>2
        <5>2. t[k] \notin {Fila(p, Libre), Fila(p, g)}
          BY <1>1, <5>1 DEF Fila
        <5>3. k \in 1 .. Len(tabla_paginas[f]) /\ t[k] = tabla_paginas[f][k]
          BY <2>2, <5>1, <5>2
        <5> QED BY <2>2, <4>2, <5>1, <5>3 DEF Ordenado, FilasLibresEnteras
      <4> QED BY <4>1, <4>2
    <3> QED BY <3>1 DEF FilasLibresEnteras
  <2>4. EnFija'
    <3> SUFFICES ASSUME tipo_asignacion = "fija"
                 PROVE  /\ \A h \in Archivos : TablaFija(h)'
                        /\ \A q \in Procesos : TieneFilas(q)'
      BY <1>1 DEF EnFija
    <3>1. /\ \A h \in Archivos : TablaFija(h)
          /\ \A q \in Procesos : TieneFilas(q)
      BY DEF Ordenado, EnFija
    <3>2. PrimeraFija(p, g, x) \/ (OtraFija(p, g, x) /\ ~SinEspacio(p, g, x))
      BY <1>3 DEF guardar_pagina, guardar_pagina_asignacion_fija, PrimeraFijaSinEspacio, Sobreescribe,
                  SinEspacio
    <3>3. ASSUME NEW h \in Archivos, NEW s, NEW u, s = tabla_paginas[h], u = tabla_paginas'[h],
                 Len(s) <= Len(u), Len(u) <= FramesPorArchivo,
                 \E b : PorBloques(u, b),
                 \A k \in 1 .. Len(s) : s[k].proceso # Libre => u[k].proceso = s[k].proceso,
                 \A k \in Archivos : k # h => tabla_paginas'[k] = tabla_paginas[k],
                 \A q \in Procesos : q # p => swap_dict'[q] = swap_dict[q],
                 swap_dict'[p] = h, \E k \in 1 .. Len(u) : u[k].proceso = p
          PROVE  /\ \A k \in Archivos : TablaFija(k)'
                 /\ \A q \in Procesos : TieneFilas(q)'
      <4>1. \A k \in Archivos : TablaFija(k)'
        <5> TAKE k \in Archivos
        <5>1. CASE k = h
          BY <3>3, <5>1 DEF TablaFija
        <5>2. CASE k # h
          BY <3>1, <3>3, <5>2 DEF TablaFija
        <5> QED BY <5>1, <5>2
      <4>2. ASSUME NEW q \in Procesos PROVE TieneFilas(q)'
        <5>1. CASE q = p
          BY <3>3, <5>1 DEF TieneFilas
        <5>2. CASE q # p /\ swap_dict[q] # h
          <6>1. swap_dict'[q] = swap_dict[q]
            BY <3>3, <5>2
          <6>2. swap_dict[q] # Libre => tabla_paginas'[swap_dict[q]] = tabla_paginas[swap_dict[q]]
            BY <3>3, <5>2 DEF Inductivo, TypeOK
          <6> QED BY <3>1, <6>1, <6>2 DEF TieneFilas
        <5>3. CASE q # p /\ swap_dict[q] = h
          <6>1. PICK k \in 1 .. Len(s) : s[k].proceso = q
            BY <1>1, <3>1, <3>3, <5>3 DEF TieneFilas
          <6>2. q # Libre
            BY DEF ConstantesValidas
          <6>3. Len(s) \in Nat /\ Len(u) \in Nat
            <7>1. tabla_paginas' \in [Archivos -> Seq(Filas)]
              BY GuardarTipos DEF TypeOK, Filas
            <7> QED BY <3>3, <7>1, TablaEs DEF Inductivo
          <6>4. k \in 1 .. Len(u) /\ u[k].proceso = q
            BY <3>3, <6>1, <6>2, <6>3
          <6>5. swap_dict'[q] = h
            BY <3>3, <5>3
          <6> QED BY <3>3, <6>4, <6>5 DEF TieneFilas
        <5> QED BY <5>1, <5>2, <5>3
      <4> QED BY <4>1, <4>2
    <3>4. CASE PrimeraFija(p, g, x)
      <4>1. PICK h \in Archivos : \E i, u :
              /\ swap_dict[p] = Libre /\ swap_dict' = [swap_dict EXCEPT ![p] = h]
              /\ tabla_paginas' = [tabla_paginas EXCEPT ![h] = u]
              /\ Entra(p, g, tabla_paginas[h], i, u)
        BY <3>4, PrimeraFijaEntra
      <4>2. PICK i, u :
              /\ swap_dict[p] = Libre /\ swap_dict' = [swap_dict EXCEPT ![p] = h]
              /\ tabla_paginas' = [tabla_paginas EXCEPT ![h] = u]
              /\ Entra(p, g, tabla_paginas[h], i, u)
        BY <4>1
      <4> DEFINE s == tabla_paginas[h]
      <4>3. s \in Seq(Filas) /\ Len(s) \in Nat /\ \A k \in 1 .. Len(s) : s[k].proceso # p
        BY <4>2, TablaEs, SinArchivoSinFilas DEF Inductivo
      <4>4. PICK b : PorBloques(s, b)
        BY <3>1 DEF TablaFija
      <4>5. /\ tabla_paginas'[h] = u /\ swap_dict'[p] = h
            /\ \A k \in Archivos : k # h => tabla_paginas'[k] = tabla_paginas[k]
            /\ \A q \in Procesos : q # p => swap_dict'[q] = swap_dict[q]
        BY <4>2 DEF Inductivo, TypeOK
      <4> HIDE DEF s
      <4>6. Entra(p, g, s, i, u)
        BY <4>2 DEF s
      <4>7. \E c : PorBloques(u, c)
        BY <4>3, <4>4, <4>6, EntraPorBloques
      <4>8. /\ Len(s) <= Len(u) /\ Len(u) <= FramesPorArchivo /\ Len(u) \in Nat
            /\ i \in 0 .. Len(s) /\ i + MarcosPorCarpincho <= Len(u)
            /\ \A k \in 1 .. Len(u) :
                  IF k \in i + 1 .. i + MarcosPorCarpincho
                  THEN u[k] = Fila(p, IF k = i + 1 THEN g ELSE Libre)
                  ELSE k \in 1 .. Len(s) /\ u[k] = s[k]
            /\ \A k \in 1 .. Len(s) : k \in i + 1 .. i + MarcosPorCarpincho => s[k] = FilaLibre
        BY <4>6 DEF Entra
      <4>9. \A k \in 1 .. Len(s) : s[k].proceso # Libre => u[k].proceso = s[k].proceso
        <5> TAKE k \in 1 .. Len(s)
        <5>1. k \in i + 1 .. i + MarcosPorCarpincho => s[k].proceso = Libre
          BY <4>8 DEF FilaLibre, Fila
        <5>2. k \in 1 .. Len(u)
          BY <4>3, <4>8
        <5> QED BY <4>8, <5>1, <5>2
      <4>10. i + 1 \in 1 .. Len(u) /\ u[i + 1].proceso = p
        <5>1. i + 1 \in 1 .. Len(u) /\ i + 1 \in i + 1 .. i + MarcosPorCarpincho
          BY <4>3, <4>8 DEF ConstantesValidas
        <5>2. \A y : Fila(p, y).proceso = p
          BY DEF Fila
        <5> QED BY <4>8, <5>1, <5>2
      <4>11. s = tabla_paginas[h]
        BY DEF s
      <4>12. \E k \in 1 .. Len(u) : u[k].proceso = p
        BY <4>10
      <4>13. Len(s) <= Len(u) /\ Len(u) <= FramesPorArchivo
        BY <4>8
      <4> QED BY <3>3, <4>5, <4>7, <4>9, <4>11, <4>12, <4>13
    <3>5. CASE OtraFija(p, g, x) /\ ~SinEspacio(p, g, x)
      <4>1. PICK h \in Archivos : \E i, u : OcupaReservada(p, g, x, h, i, u)
        BY <3>5, OtraFijaEs
      <4>2. PICK i, u : OcupaReservada(p, g, x, h, i, u)
        BY <4>1
      <4> DEFINE s == tabla_paginas[h]
      <4>3. /\ swap_dict[p] = h /\ swap_dict' = swap_dict /\ h # Libre
            /\ tabla_paginas'[h] = u
            /\ \A k \in Archivos : k # h => tabla_paginas'[k] = tabla_paginas[k]
            /\ i < Len(s) => s[i + 1] = Fila(p, Libre)
            /\ i \in 0 .. Len(s) /\ Len(u) = Len(s) /\ Len(s) \in Nat
            /\ \A k \in 1 .. Len(u) : u[k] = IF k = i + 1 THEN Fila(p, g) ELSE s[k]
        BY <1>1, <4>2, TablaEs DEF OcupaReservada, Inductivo, TypeOK
      <4>4. Len(s) <= FramesPorArchivo /\ \E b : PorBloques(s, b)
        BY <3>1 DEF TablaFija
      <4>5. PICK k \in 1 .. Len(s) : s[k].proceso = p
        BY <3>1, <4>3 DEF TieneFilas
      <4>6. s = tabla_paginas[h]
        OBVIOUS
      <4> HIDE DEF s
      <4>7. \A j \in 1 .. Len(s) : u[j].proceso = s[j].proceso
        <5> TAKE j \in 1 .. Len(s)
        <5>1. CASE j = i + 1
          BY <4>3, <5>1 DEF Fila
        <5>2. CASE j # i + 1
          BY <4>3, <5>2
        <5> QED BY <5>1, <5>2
      <4>8. \E b : PorBloques(u, b)
        <5>1. PICK b : PorBloques(s, b)
          BY <4>4
        <5>2. PorBloques(u, b)
          BY SMTT(30), <4>3, <4>7, <5>1 DEF PorBloques
        <5> QED BY <5>2
      <4>9. \E j \in 1 .. Len(u) : u[j].proceso = p
        BY <4>3, <4>5, <4>7
      <4>10. Len(s) <= Len(u) /\ Len(u) <= FramesPorArchivo
        BY <4>3, <4>4
      <4>11. /\ \A q \in Procesos : q # p => swap_dict'[q] = swap_dict[q]
             /\ swap_dict'[p] = h
             /\ u = tabla_paginas'[h]
             /\ \A j \in Archivos : j # h => tabla_paginas'[j] = tabla_paginas[j]
        BY <4>3
      <4> QED BY <3>3, <4>6, <4>7, <4>8, <4>9, <4>10, <4>11
    <3> QED BY <3>2, <3>4, <3>5
  <2>5. EnDinamica'
    <3> SUFFICES ASSUME tipo_asignacion = "dinamica", Terminan = {}
                 PROVE  \A h \in Archivos : TablaDinamica(h)'
      BY <1>1 DEF EnDinamica
    <3>1. \A h \in Archivos : TablaDinamica(h)
      BY DEF Ordenado, EnDinamica
    <3>2. PrimeraDinamica(p, g, x) \/ (OtraDinamica(p, g, x) /\ ~SinEspacio(p, g, x))
      BY <1>3 DEF guardar_pagina, guardar_pagina_asignacion_dinamica, PrimeraDinamicaSinEspacio,
                  Sobreescribe, SinEspacio
    <3>3. PICK h \in Archivos :
            /\ tabla_paginas' = [tabla_paginas EXCEPT ![h] = Append(tabla_paginas[h], Fila(p, g))]
            /\ Len(tabla_paginas[h]) < FramesPorArchivo
      BY <3>2, DinamicaEs
    <3> DEFINE s == tabla_paginas[h]
    <3>4. /\ tabla_paginas'[h] = Append(s, Fila(p, g))
          /\ \A k \in Archivos : k # h => tabla_paginas'[k] = tabla_paginas[k]
      BY <3>3 DEF Inductivo, TypeOK
    <3>5. s \in Seq(Filas) /\ Fila(p, g) \in Filas
      BY TablaEs DEF Inductivo, Fila, Filas
    <3>6. /\ Len(s) < FramesPorArchivo /\ \A k \in 1 .. Len(s) : s[k].pagina # Libre
      BY <3>1, <3>3 DEF TablaDinamica
    <3>7. Fila(p, g).pagina # Libre
      BY DEF Fila, ConstantesValidas
    <3> HIDE DEF s
    <3> DEFINE u == Append(s, Fila(p, g))
    <3>8. /\ Len(u) = Len(s) + 1 /\ Len(s) \in Nat
          /\ \A k \in 1 .. Len(s) : u[k] = s[k]
          /\ u[Len(s) + 1] = Fila(p, g)
      BY <3>5, AppendProperties
    <3> HIDE DEF u
    <3>9. Len(u) <= FramesPorArchivo /\ \A k \in 1 .. Len(u) : u[k].pagina # Libre
      BY <3>6, <3>7, <3>8 DEF ConstantesValidas
    <3>10. tabla_paginas'[h] = u
      BY <3>4 DEF u
    <3>11. ASSUME NEW k \in Archivos PROVE TablaDinamica(k)'
      <4>1. CASE k = h
        BY <3>9, <3>10, <4>1 DEF TablaDinamica
      <4>2. CASE k # h
        BY <3>1, <3>4, <4>2 DEF TablaDinamica
      <4> QED BY <4>1, <4>2
    <3> QED BY <3>11
  <2> QED BY <1>1, <2>3, <2>4, <2>5 DEF Ordenado, AntesDelTipo
<1> QED BY <1>2, <1>3

\* The end of a process frees its block.
LEMMA FinalizarOrdenado ==
    ASSUME ConstantesValidas, Inductivo, Ordenado, NEW p \in Procesos, finalizar_proceso(p)
    PROVE  Ordenado'
<1>1. PICK f : f = swap_dict[p]
  OBVIOUS
<1> DEFINE s == tabla_paginas[f]
           t == tabla_paginas'[f]
<1>2. /\ f \in Archivos /\ Len(t) = Len(s)
      /\ \A k \in 1 .. Len(s) : t[k] = IF s[k].proceso = p THEN FilaLibre ELSE s[k]
      /\ \A h \in Archivos : h # f => tabla_paginas'[h] = tabla_paginas[h]
      /\ swap_dict'[p] = Libre
      /\ \A q \in Procesos : q # p => swap_dict'[q] = swap_dict[q]
  BY <1>1, FinalizarEs DEF Inductivo
<1>3. /\ respuesta' # SinRespuesta /\ UNCHANGED tipo_asignacion
      /\ Terminan # {} /\ p # Libre /\ Libre \notin Archivos
  BY DEF finalizar_proceso, ConstantesValidas, Archivos
<1>4. FilaLibre.proceso = Libre
  BY DEF FilaLibre, Fila
<1>5. \A k \in 1 .. Len(s) : t[k].proceso = IF s[k].proceso = p THEN Libre ELSE s[k].proceso
  BY <1>2, <1>4
<1>6. FilasLibresEnteras'
  <2>1. ASSUME NEW h \in Archivos, NEW k \in 1 .. Len(tabla_paginas'[h]),
               tabla_paginas'[h][k].proceso = Libre
        PROVE  tabla_paginas'[h][k] = FilaLibre
    <3>1. CASE h # f
      BY <1>2, <2>1, <3>1 DEF Ordenado, FilasLibresEnteras
    <3>2. CASE h = f
      BY <1>2, <2>1, <3>2 DEF Ordenado, FilasLibresEnteras
    <3> QED BY <3>1, <3>2
  <2> QED BY <1>3, <2>1 DEF FilasLibresEnteras
<1>7. EnFija'
  <2> SUFFICES ASSUME tipo_asignacion = "fija"
               PROVE  /\ \A h \in Archivos : TablaFija(h)'
                      /\ \A q \in Procesos : TieneFilas(q)'
    BY <1>3 DEF EnFija
  <2>1. (\A h \in Archivos : TablaFija(h)) /\ (\A q \in Procesos : TieneFilas(q))
    BY DEF Ordenado, EnFija
  <2>2. ASSUME NEW h \in Archivos PROVE TablaFija(h)'
    <3>1. CASE h # f
      BY <1>2, <2>1, <3>1 DEF TablaFija
    <3>2. CASE h = f
      <4>1. PICK b : PorBloques(s, b)
        BY <1>2, <2>1 DEF TablaFija
      <4>2. Len(t) <= FramesPorArchivo
        BY <1>2, <2>1 DEF TablaFija
      <4> HIDE DEF s, t
      <4>3. Len(t) = Len(s)
        BY <1>2
      <4>4. ASSUME NEW k \in 1 .. Len(t), NEW j \in 1 .. Len(t)
            PROVE  /\ b[j] = b[k] => t[j].proceso = t[k].proceso
                   /\ t[k].proceso # Libre => (t[j].proceso = t[k].proceso => b[j] = b[k])
        <5>1. k \in 1 .. Len(s) /\ j \in 1 .. Len(s)
          BY <4>3, <4>4
        <5>2. /\ b[j] = b[k] => s[j].proceso = s[k].proceso
              /\ s[k].proceso # Libre => (s[j].proceso = s[k].proceso => b[j] = b[k])
          BY ONLY <4>1, <5>1 DEF PorBloques
        <5>3. /\ t[k].proceso = IF s[k].proceso = p THEN Libre ELSE s[k].proceso
              /\ t[j].proceso = IF s[j].proceso = p THEN Libre ELSE s[j].proceso
          BY ONLY <1>5, <5>1
        <5> QED BY ONLY <5>2, <5>3
      <4>5. PorBloques(t, b)
        BY ONLY <4>1, <4>3, <4>4 DEF PorBloques
      <4> QED BY <3>2, <4>2, <4>5 DEF TablaFija, t
    <3> QED BY <3>1, <3>2
  <2>3. ASSUME NEW q \in Procesos PROVE TieneFilas(q)'
    <3>1. CASE q = p
      BY <1>2, <3>1 DEF TieneFilas
    <3>2. CASE q # p /\ swap_dict[q] # f
      <4>1. swap_dict'[q] = swap_dict[q]
        BY <1>2, <3>2
      <4>2. swap_dict[q] # Libre => tabla_paginas'[swap_dict[q]] = tabla_paginas[swap_dict[q]]
        BY <1>2, <3>2 DEF Inductivo, TypeOK
      <4> QED BY <2>1, <4>1, <4>2 DEF TieneFilas
    <3>3. CASE q # p /\ swap_dict[q] = f
      <4>1. PICK k \in 1 .. Len(s) : s[k].proceso = q
        BY <1>2, <1>3, <2>1, <3>3 DEF TieneFilas
      <4>2. k \in 1 .. Len(t) /\ t[k].proceso = q /\ swap_dict'[q] = f
        BY <1>2, <3>3, <4>1
      <4> QED BY <4>2 DEF TieneFilas
    <3> QED BY <3>1, <3>2, <3>3
  <2> QED BY <2>2, <2>3
<1> QED BY <1>3, <1>6, <1>7 DEF Ordenado, AntesDelTipo, EnDinamica

\* Every message keeps the order of the rows.
LEMMA PasoOrdenado ==
    ASSUME ConstantesValidas, BloquesReusables, Inductivo, Ordenado, [Next]_vars
    PROVE  Ordenado'
<1>1. CASE TipoAsignacion
  <2>1. /\ respuesta = SinRespuesta /\ respuesta' # SinRespuesta
        /\ UNCHANGED <<tabla_paginas, swap_dict>> /\ tipo_asignacion' \in TiposMemoria
    BY <1>1 DEF TipoAsignacion, SinRespuesta, Respuesta
  <2>2. /\ \A f \in Archivos : tabla_paginas[f] = << >>
        /\ \A p \in Procesos : swap_dict[p] = Libre
    BY <2>1 DEF Ordenado, AntesDelTipo
  <2>3. \A f \in Archivos : Len(tabla_paginas[f]) = 0 /\ 1 .. Len(tabla_paginas[f]) = {}
    BY <2>2
  <2>4. \A f \in Archivos : TablaFija(f)' /\ TablaDinamica(f)'
    BY <2>1, <2>3 DEF TablaFija, TablaDinamica, PorBloques, ConstantesValidas
  <2>5. \A p \in Procesos : TieneFilas(p)'
    BY <2>1, <2>2 DEF TieneFilas
  <2>6. FilasLibresEnteras'
    BY <2>1 DEF Ordenado, FilasLibresEnteras
  <2> QED BY <2>1, <2>4, <2>5, <2>6 DEF Ordenado, AntesDelTipo, EnFija, EnDinamica
<1>2. ASSUME NEW p \in Procesos, NEW g \in Paginas, obtener_pagina(p, g) PROVE Ordenado'
  <2>1. /\ UNCHANGED <<tabla_paginas, swap_dict, tipo_asignacion>> /\ respuesta' # SinRespuesta
    BY <1>2 DEF obtener_pagina, SinRespuesta, Respuesta
  <2> QED BY <2>1
          DEF Ordenado, AntesDelTipo, FilasLibresEnteras, EnFija, TablaFija, TieneFilas,
              EnDinamica, TablaDinamica
<1>3. ASSUME NEW p \in Procesos, NEW g \in Paginas, NEW x \in Contenidos, guardar_pagina(p, g, x)
      PROVE  Ordenado'
  BY <1>3, GuardarOrdenado
<1>4. ASSUME NEW p \in Procesos, finalizar_proceso(p) PROVE Ordenado'
  BY <1>4, FinalizarOrdenado
<1>5. CASE UNCHANGED vars
  BY <1>5
  DEF vars, Ordenado, AntesDelTipo, FilasLibresEnteras, EnFija, TablaFija, TieneFilas, EnDinamica,
      TablaDinamica
<1> QED BY <1>1, <1>2, <1>3, <1>4, <1>5 DEF Next, consola

\* The rows of the tables stay in order while blocks can be reused, or need not be.
THEOREM FilasOrdenadas ==
    ASSUME BloquesReusables
    PROVE  Spec => [](Inductivo /\ Ordenado)
<1>1. Init => Inductivo /\ Ordenado
  <2> SUFFICES ASSUME Init PROVE Inductivo /\ Ordenado
    OBVIOUS
  <2>1. /\ \A f \in Archivos : Len(tabla_paginas[f]) = 0 /\ 1 .. Len(tabla_paginas[f]) = {}
        /\ \A p \in Procesos : swap_dict[p] = Libre
        /\ tipo_asignacion = "fija"
    BY DEF Init
  <2>2. \A f \in Archivos : TablaFija(f)
    BY <2>1, ConstantesValidas DEF TablaFija, PorBloques, ConstantesValidas
  <2>3. AntesDelTipo
    BY DEF Init, AntesDelTipo
  <2> QED BY <2>1, <2>2, <2>3, ConstantesValidas, AlEmpezar
          DEF Ordenado, FilasLibresEnteras, EnFija, TieneFilas, EnDinamica
<1>2. (Inductivo /\ Ordenado) /\ [Next]_vars => (Inductivo /\ Ordenado)'
  BY ConstantesValidas, PasoInductivo, PasoOrdenado
<1> QED BY <1>1, <1>2, PTL DEF Spec

\* The rows of a process are those of its block.
LEMMA BloquesContiguos ==
    ASSUME ConstantesValidas, Inductivo, Ordenado
    PROVE  MarcosContiguos
<1> SUFFICES ASSUME tipo_asignacion = "fija", NEW p \in Procesos, swap_dict[p] # Libre
             PROVE  \E i \in Frames :
                        {k \in DOMAIN tabla_paginas[swap_dict[p]] :
                            tabla_paginas[swap_dict[p]][k].proceso = p}
                                = i + 1 .. i + MarcosPorCarpincho
  BY DEF MarcosContiguos
<1> DEFINE f == swap_dict[p]
           s == tabla_paginas[f]
           n == MarcosPorCarpincho
<1>1. f \in Archivos
  BY DEF Inductivo, TypeOK
<1>2. DOMAIN s = 1 .. Len(s) /\ Len(s) \in Nat /\ Len(s) <= FramesPorArchivo
  BY <1>1, TablaEs DEF Inductivo, Ordenado, EnFija, TablaFija
<1>3. PICK b : PorBloques(s, b)
  BY <1>1 DEF Ordenado, EnFija, TablaFija
<1>4. PICK k \in 1 .. Len(s) : s[k].proceso = p
  BY DEF Ordenado, EnFija, TieneFilas
<1>5. n \in Nat /\ p # Libre /\ FramesPorArchivo \in Nat
  BY DEF ConstantesValidas
<1>6. \A j \in 1 .. Len(s) :
        /\ b[j] \in 0 .. j - 1 /\ j <= b[j] + n /\ b[j] + n <= Len(s)
        /\ \A m \in b[j] + 1 .. b[j] + n : b[m] = b[j]
        /\ \A m \in 1 .. Len(s) : b[m] = b[j] => s[m].proceso = s[j].proceso
        /\ s[j].proceso # Libre =>
              \A m \in 1 .. Len(s) : s[m].proceso = s[j].proceso => b[m] = b[j]
  BY <1>3 DEF PorBloques
<1> HIDE DEF s, n
<1>7. b[k] \in Frames
  BY <1>2, <1>4, <1>5, <1>6 DEF Frames
<1>8. ASSUME NEW j \in 1 .. Len(s), s[j].proceso = p PROVE j \in b[k] + 1 .. b[k] + n
  BY SMTT(30), <1>2, <1>4, <1>5, <1>6, <1>8
<1>9. ASSUME NEW j \in b[k] + 1 .. b[k] + n PROVE j \in 1 .. Len(s) /\ s[j].proceso = p
  <2>1. j \in 1 .. Len(s)
    BY <1>2, <1>4, <1>5, <1>6
  <2> QED BY <1>4, <1>6, <2>1
<1>10. {j \in DOMAIN s : s[j].proceso = p} = b[k] + 1 .. b[k] + n
  BY <1>2, <1>8, <1>9
<1> QED BY <1>7, <1>10 DEF s, n

\* Under the fixed assignment the frames of a process are MarcosPorCarpincho, contiguous,
\* although its block may be that of a process that ended.
THEOREM SiempreContiguos ==
    ASSUME BloquesReusables
    PROVE  Spec => []MarcosContiguos
<1>1. Inductivo /\ Ordenado => MarcosContiguos
  BY ConstantesValidas, BloquesContiguos
<1> QED BY <1>1, FilasOrdenadas, PTL
-----------------------------------------------------------------------------
(* Refinement of AlmacenPaginas.  When processes end, only the fixed       *)
(* assignment with a frame for every page of a process is a store: the     *)
(* dynamic one adds the row of a page at the end and writes the page in a  *)
(* free frame before it, and the fixed one takes the position past the     *)
(* last row for a reserved row when there are free rows.                   *)

SeReservanTodas ==
    /\ "dinamica" \notin TiposMemoria
    /\ IsFiniteSet(Paginas) /\ Cardinality(Paginas) <= MarcosPorCarpincho

PaginasAlcanzan == Terminan = {} \/ SeReservanTodas

\* What is read in the frames fr of the file of table s for a page.
LeidaEn(s, fr, fila) ==
    IF fila \in Range(s)
    THEN LET k == Primera(s, {fila})
             i == IF k = 0 THEN Len(s) ELSE k - 1
         IN  IF i \in Frames THEN fr[i] ELSE Basura
    ELSE Libre

LEMMA LeidaEs ==
    ASSUME NEW p \in Procesos, NEW g \in Paginas
    PROVE  /\ Leida(p, g) =
                 IF swap_dict[p] = Libre THEN Libre
                 ELSE LeidaEn(tabla_paginas[swap_dict[p]], swap_file[swap_dict[p]], Fila(p, g))
           /\ Leida(p, g)' =
                 IF swap_dict'[p] = Libre THEN Libre
                 ELSE LeidaEn(tabla_paginas'[swap_dict'[p]], swap_file'[swap_dict'[p]], Fila(p, g))
  BY DEF Leida, LeidaEn, LeeFrame, pagina_esta_en_swap, get_frame_number, Posicion, SelectInSeq,
         Primera

\* A page with one row is read in the frame of that row.
LEMMA LeidaEnFila ==
    ASSUME NEW s \in Seq(Filas), NEW fr, NEW fila, NEW k \in 1 .. Len(s), s[k] = fila,
           \A j \in 1 .. Len(s) : s[j] = fila => j = k, k - 1 \in Frames
    PROVE  LeidaEn(s, fr, fila) = fr[k - 1]
<1>1. DOMAIN s = 1 .. Len(s) /\ Len(s) \in Nat
  OBVIOUS
<1>2. fila \in Range(s)
  BY <1>1 DEF Range
<1>3. PICK m : m = Primera(s, {fila})
  OBVIOUS
<1>4. /\ m \in 0 .. Len(s)
      /\ m # 0 => s[m] \in {fila} /\ \A j \in 1 .. m - 1 : s[j] \notin {fila}
      /\ m = 0 => \A j \in 1 .. Len(s) : s[j] \notin {fila}
  BY <1>3, PrimeraPosicion
<1>5. m = k
  BY <1>1, <1>4
<1> QED BY <1>2, <1>3, <1>5 DEF LeidaEn

\* A page without rows is not stored.
LEMMA LeidaEnLibre ==
    ASSUME NEW s \in Seq(Filas), NEW fr, NEW fila, \A k \in 1 .. Len(s) : s[k] # fila
    PROVE  LeidaEn(s, fr, fila) = Libre
<1>1. fila \notin Range(s)
  BY DEF Range
<1> QED BY <1>1 DEF LeidaEn

\* What is stored and answered, as AlmacenPaginas sees it.
Vistas == [pagina \in Procesos \X Paginas |-> Leida(pagina[1], pagina[2])]
Contestada == IF respuesta.resultado = "tipo" THEN SinRespuesta ELSE respuesta

\* The page is written in the frame of its row, row i + 1 of table t, and no other page
\* changes its row: it is stored.
LEMMA SeGuarda ==
    ASSUME ConstantesValidas, Inductivo, Inductivo', NEW p \in Procesos, NEW g \in Paginas,
           NEW x \in Contenidos, NEW f \in Archivos, NEW s, NEW t, NEW i \in Nat,
           s = tabla_paginas[f], t = tabla_paginas'[f],
           Len(s) <= FramesPorArchivo, Len(t) <= FramesPorArchivo,
           swap_dict[p] \in {Libre, f}, swap_dict' = [swap_dict EXCEPT ![p] = f],
           \A h \in Archivos : h # f => tabla_paginas'[h] = tabla_paginas[h],
           EscribeFrame(f, i, x), Guardada(p, g, x),
           i + 1 \in 1 .. Len(t), t[i + 1] = Fila(p, g),
           \A k \in 1 .. Len(t) : k # i + 1 /\ t[k].pagina # Libre =>
              k \in 1 .. Len(s) /\ t[k] = s[k],
           \A k \in 1 .. Len(s) : k # i + 1 /\ s[k].pagina # Libre =>
              k \in 1 .. Len(t) /\ t[k] = s[k],
           i + 1 \in 1 .. Len(s) => s[i + 1] = Fila(p, g) \/ s[i + 1].pagina = Libre
    PROVE  Almacen!Guardar(p, g, x)
<1>1. /\ s \in Seq(Filas) /\ t \in Seq(Filas) /\ Len(s) \in Nat /\ Len(t) \in Nat
      /\ tabla_paginas' \in [Archivos -> Seq(Filas)]
      /\ FramesPorArchivo \in Nat
      /\ Libre \notin Archivos \cup Procesos \cup Paginas
      /\ \A e \in Archivos : tabla_paginas[e] \in Seq(Filas) /\ tabla_paginas'[e] \in Seq(Filas)
  <2>1. tabla_paginas' \in [Archivos -> Seq(Filas)]
    BY DEF Inductivo, TypeOK, Filas
  <2> QED BY <2>1, TablaEs DEF Inductivo, ConstantesValidas, Archivos
<1>2. /\ swap_dict'[p] = f
      /\ \A q \in Procesos : q # p => swap_dict'[q] = swap_dict[q]
  BY DEF Inductivo, TypeOK
<1>3. /\ i \in Frames /\ swap_file'[f][i] = x
      /\ \A j \in Frames : j # i => swap_file'[f][j] = swap_file[f][j]
      /\ \A e \in Archivos : e # f => swap_file'[e] = swap_file[e]
  <2>1. i \in Frames
    BY <1>1 DEF Frames
  <2>2. swap_file' = [swap_file EXCEPT ![f][i] = x]
    BY <2>1 DEF EscribeFrame
  <2> QED BY <2>1, <2>2 DEF Inductivo, TypeOK
<1>4. \A k \in 1 .. Len(s) : k - 1 \in Frames
  BY <1>1 DEF Frames
<1>5. \A k \in 1 .. Len(t) : k - 1 \in Frames
  BY <1>1 DEF Frames
<1>6. \A q \in Procesos, h \in Paginas :
         /\ Fila(q, h).proceso = q /\ Fila(q, h).pagina = h
         /\ Fila(q, h).proceso # Libre /\ Fila(q, h).pagina # Libre
         /\ Fila(q, h) = Fila(p, g) => q = p /\ h = g
  BY <1>1 DEF Fila
<1>7. ASSUME NEW q \in Procesos, NEW h \in Paginas, NEW k \in 1 .. Len(s), s[k] = Fila(q, h)
      PROVE  /\ swap_dict[q] = f
             /\ \A j \in 1 .. Len(s) : s[j] = Fila(q, h) => j = k
  BY <1>1, <1>6, <1>7 DEF Inductivo, CadaPaginaEnSuArchivo
<1>8. ASSUME NEW q \in Procesos, NEW h \in Paginas, NEW k \in 1 .. Len(t), t[k] = Fila(q, h)
      PROVE  \A j \in 1 .. Len(t) : t[j] = Fila(q, h) => j = k
  <2>1. DOMAIN t = 1 .. Len(t) /\ t[k].proceso # Libre /\ t[k].pagina # Libre
    BY <1>1, <1>6, <1>8
  <2> QED BY <1>8, <2>1 DEF Inductivo, CadaPaginaEnSuArchivo
<1>9. Leida(p, g)' = x
  <2>1. Leida(p, g)' = LeidaEn(t, swap_file'[f], Fila(p, g))
    BY <1>1, <1>2, LeidaEs
  <2>2. LeidaEn(t, swap_file'[f], Fila(p, g)) = swap_file'[f][(i + 1) - 1]
    <3> DEFINE fr == swap_file'[f]
               fila == Fila(p, g)
               k == i + 1
    <3>1. k \in 1 .. Len(t) /\ t[k] = fila /\ k - 1 \in Frames
      BY <1>5
    <3>2. \A j \in 1 .. Len(t) : t[j] = fila => j = k
      BY <1>8, <3>1
    <3> HIDE DEF fr, fila, k
    <3>3. LeidaEn(t, fr, fila) = fr[k - 1]
      BY ONLY <1>1, <3>1, <3>2, LeidaEnFila
    <3> QED BY <3>3 DEF fr, fila, k
  <2>3. (i + 1) - 1 = i
    OBVIOUS
  <2> QED BY <1>3, <2>1, <2>2, <2>3
<1>10. ASSUME NEW q \in Procesos, NEW h \in Paginas, q # p \/ h # g
       PROVE  Leida(q, h)' = Leida(q, h)
  <2> DEFINE fila == Fila(q, h)
  <2>1. fila # Fila(p, g) /\ fila.pagina # Libre /\ fila.proceso = q
    BY <1>6, <1>10
  <2>2. CASE swap_dict'[q] # f
    <3>1. q # p /\ swap_dict'[q] = swap_dict[q]
      BY <1>2, <2>2
    <3>2. CASE swap_dict[q] = Libre
      BY <3>1, <3>2, LeidaEs
    <3>3. CASE swap_dict[q] # Libre
      <4>1. swap_dict[q] \in Archivos
        BY <3>3 DEF Inductivo, TypeOK
      <4>2. /\ tabla_paginas'[swap_dict[q]] = tabla_paginas[swap_dict[q]]
            /\ swap_file'[swap_dict[q]] = swap_file[swap_dict[q]]
        BY <1>3, <2>2, <3>1, <4>1
      <4> QED BY <3>1, <3>3, <4>2, LeidaEs
    <3> QED BY <3>2, <3>3
  <2>3. CASE swap_dict'[q] = f
    <3>1. Leida(q, h)' = LeidaEn(t, swap_file'[f], fila)
      BY <1>1, <2>3, LeidaEs
    <3>2. \A k \in 1 .. Len(t) : t[k] = fila => k \in 1 .. Len(s) /\ s[k] = fila
      BY <2>1
    <3>3. \A k \in 1 .. Len(s) : s[k] = fila => k \in 1 .. Len(t) /\ t[k] = fila /\ k # i + 1
      BY <2>1
    <3>4. CASE \E k \in 1 .. Len(s) : s[k] = fila
      <4>1. PICK k \in 1 .. Len(s) : s[k] = fila
        BY <3>4
      <4>2. swap_dict[q] = f /\ \A j \in 1 .. Len(s) : s[j] = fila => j = k
        BY <1>7, <4>1
      <4>3. k \in 1 .. Len(t) /\ t[k] = fila /\ \A j \in 1 .. Len(t) : t[j] = fila => j = k
        BY <3>2, <3>3, <4>1, <4>2
      <4>4. Leida(q, h) = LeidaEn(s, swap_file[f], fila)
        BY <1>1, <4>2, LeidaEs
      <4> DEFINE fr == swap_file[f]
                 gr == swap_file'[f]
      <4>8. k - 1 \in Frames /\ k \in 1 .. Len(s) /\ k \in 1 .. Len(t)
        BY <1>4, <4>1, <4>3
      <4> HIDE DEF fila, fr, gr
      <4>5. LeidaEn(s, fr, fila) = fr[k - 1]
        <5>1. /\ s \in Seq(Filas) /\ k \in 1 .. Len(s) /\ s[k] = fila /\ k - 1 \in Frames
              /\ \A j \in 1 .. Len(s) : s[j] = fila => j = k
          BY <1>1, <4>8, <4>1, <4>2
        <5> QED BY ONLY <5>1, LeidaEnFila
      <4>6. LeidaEn(t, gr, fila) = gr[k - 1]
        <5>1. /\ t \in Seq(Filas) /\ k \in 1 .. Len(t) /\ t[k] = fila /\ k - 1 \in Frames
              /\ \A j \in 1 .. Len(t) : t[j] = fila => j = k
          BY <1>1, <4>8, <4>3
        <5> QED BY ONLY <5>1, LeidaEnFila
      <4>7. k - 1 \in Frames /\ k - 1 # i
        BY <1>1, <1>4, <3>3, <4>1
      <4> QED BY <1>3, <3>1, <4>4, <4>5, <4>6, <4>7 DEF fr, gr, fila
    <3>5. CASE ~ \E k \in 1 .. Len(s) : s[k] = fila
      <4>1. LeidaEn(t, swap_file'[f], fila) = Libre
        BY <1>1, <3>2, <3>5, LeidaEnLibre
      <4>2. Leida(q, h) = Libre
        <5>1. LeidaEn(s, swap_file[f], fila) = Libre
          <6> DEFINE fr == swap_file[f]
          <6>1. s \in Seq(Filas) /\ \A k \in 1 .. Len(s) : s[k] # fila
            BY <1>1, <3>5
          <6> HIDE DEF fila, fr
          <6>2. LeidaEn(s, fr, fila) = Libre
            BY ONLY <6>1, LeidaEnLibre
          <6> QED BY <6>2 DEF fila, fr
        <5>2. swap_dict[q] \in {Libre, f}
          BY <1>2, <2>3
        <5> QED BY <1>1, <5>1, <5>2, LeidaEs
      <4> QED BY <3>1, <4>1, <4>2
    <3> QED BY <3>4, <3>5
  <2> QED BY <2>2, <2>3
<1>11. Vistas' = [Vistas EXCEPT ![<<p, g>>] = x]
  <2>1. \A pagina \in Procesos \X Paginas :
           Leida(pagina[1], pagina[2])' = IF pagina = <<p, g>> THEN x ELSE Leida(pagina[1], pagina[2])
    <3> TAKE pagina \in Procesos \X Paginas
    <3>1. PICK q \in Procesos : \E h \in Paginas : pagina = <<q, h>>
      OBVIOUS
    <3>2. PICK h \in Paginas : pagina = <<q, h>>
      BY <3>1
    <3>3. Leida(q, h)' = IF <<q, h>> = <<p, g>> THEN x ELSE Leida(q, h)
      BY <1>9, <1>10
    <3> QED BY <3>2, <3>3
  <2> QED BY <2>1 DEF Vistas
<1> QED BY <1>11 DEF Almacen!Guardar, Almacen!Respuesta, Guardada, Respuesta, Vistas

\* Rows have a frame, and no table has more rows than frames.
LEMMA TablaCabe ==
    ASSUME ConstantesValidas, PaginasAlcanzan, Inductivo, Ordenado, NEW f \in Archivos
    PROVE  Len(tabla_paginas[f]) <= FramesPorArchivo
<1>1. tipo_asignacion \in {"fija", "dinamica"}
  BY DEF Inductivo, TypeOK
<1>2. CASE tipo_asignacion = "fija"
  BY <1>2 DEF Ordenado, EnFija, TablaFija
<1>3. CASE tipo_asignacion = "dinamica"
  <2>1. "dinamica" \in TiposMemoria
    BY <1>3 DEF Ordenado
  <2>2. Terminan = {}
    BY <2>1 DEF PaginasAlcanzan, SeReservanTodas
  <2> QED BY <1>3, <2>2 DEF Ordenado, EnDinamica, TablaDinamica
<1> QED BY <1>1, <1>2, <1>3

\* The page that overwrites its frame is stored.
LEMMA SobreescribeImplementa ==
    ASSUME ConstantesValidas, PaginasAlcanzan, Inductivo, Inductivo', Ordenado,
           NEW p \in Procesos, NEW g \in Paginas, NEW x \in Contenidos, Sobreescribe(p, g, x)
    PROVE  Almacen!Guardar(p, g, x)
<1>1. PICK f \in Archivos : f = swap_dict[p]
  BY DEF Sobreescribe, Inductivo, TypeOK
<1>2. PICK i : i = get_frame_number(f, p, g)
  OBVIOUS
<1>3. PICK s : s = tabla_paginas[f]
  OBVIOUS
<1>4. /\ tabla_paginas' = tabla_paginas /\ swap_dict' = swap_dict
      /\ Fila(p, g) \in Range(s) /\ EscribeFrame(f, i, x) /\ Guardada(p, g, x)
  BY <1>1, <1>2, <1>3 DEF Sobreescribe, pagina_esta_en_swap
<1>5. s \in Seq(Filas) /\ Len(s) \in Nat /\ DOMAIN s = 1 .. Len(s) /\ Len(s) <= FramesPorArchivo
  BY <1>3, TablaEs, TablaCabe DEF Inductivo
<1>6. /\ i \in 0 .. Len(s)
      /\ i < Len(s) => s[i + 1] = Fila(p, g)
      /\ \A k \in 1 .. i : s[k] # Fila(p, g)
  BY <1>2, <1>3, PosicionEs DEF Inductivo, get_frame_number
<1>7. PICK k \in 1 .. Len(s) : s[k] = Fila(p, g)
  BY <1>4, <1>5 DEF Range
<1>8. i \in Nat /\ i + 1 \in 1 .. Len(s) /\ s[i + 1] = Fila(p, g)
  BY <1>5, <1>6, <1>7
<1>9. swap_dict' = [swap_dict EXCEPT ![p] = f]
  BY <1>1, <1>4 DEF Inductivo, TypeOK
<1>10. s = tabla_paginas'[f] /\ \A h \in Archivos : h # f => tabla_paginas'[h] = tabla_paginas[h]
  BY <1>3, <1>4
<1> QED BY <1>1, <1>3, <1>4, <1>5, <1>8, <1>9, <1>10, SeGuarda

\* The first page of a process under the fixed assignment is stored.
LEMMA PrimeraFijaImplementa ==
    ASSUME ConstantesValidas, BloquesReusables, PaginasAlcanzan, Inductivo, Inductivo', Ordenado,
           tipo_asignacion = "fija",
           NEW p \in Procesos, NEW g \in Paginas, NEW x \in Contenidos, PrimeraFija(p, g, x)
    PROVE  Almacen!Guardar(p, g, x)
<1>1. PICK f \in Archivos : \E i, t :
        /\ swap_dict[p] = Libre /\ swap_dict' = [swap_dict EXCEPT ![p] = f]
        /\ tabla_paginas' = [tabla_paginas EXCEPT ![f] = t]
        /\ EscribeFrame(f, i, x) /\ Guardada(p, g, x)
        /\ Entra(p, g, tabla_paginas[f], i, t)
  BY PrimeraFijaEntra
<1>2. PICK i, t :
        /\ swap_dict[p] = Libre /\ swap_dict' = [swap_dict EXCEPT ![p] = f]
        /\ tabla_paginas' = [tabla_paginas EXCEPT ![f] = t]
        /\ EscribeFrame(f, i, x) /\ Guardada(p, g, x)
        /\ Entra(p, g, tabla_paginas[f], i, t)
  BY <1>1
<1>3. PICK s : s = tabla_paginas[f]
  OBVIOUS
<1>4. PICK n : n = MarcosPorCarpincho
  OBVIOUS
<1>5. /\ t = tabla_paginas'[f] /\ \A h \in Archivos : h # f => tabla_paginas'[h] = tabla_paginas[h]
      /\ s \in Seq(Filas) /\ Len(s) \in Nat /\ Len(s) <= FramesPorArchivo /\ n \in Nat \ {0}
  BY <1>2, <1>3, <1>4, TablaEs, TablaCabe DEF Inductivo, TypeOK, ConstantesValidas
<1>6. /\ t \in Seq(Filas) /\ i \in 0 .. Len(s)
      /\ i + n <= Len(t) /\ Len(s) <= Len(t) /\ Len(t) <= FramesPorArchivo
      /\ \A k \in 1 .. Len(t) :
            IF k \in i + 1 .. i + n THEN t[k] = Fila(p, IF k = i + 1 THEN g ELSE Libre)
                                    ELSE k \in 1 .. Len(s) /\ t[k] = s[k]
      /\ \A k \in 1 .. Len(s) : k \in i + 1 .. i + n => s[k] = FilaLibre
  BY <1>2, <1>3, <1>4 DEF Entra
<1>7. Len(t) \in Nat /\ i \in Nat /\ i + 1 \in i + 1 .. i + n /\ i + 1 \in 1 .. Len(t)
  BY <1>5, <1>6
<1>8. t[i + 1] = Fila(p, g)
  BY <1>6, <1>7
<1>9. \A k \in 1 .. Len(t) : k # i + 1 /\ t[k].pagina # Libre => k \in 1 .. Len(s) /\ t[k] = s[k]
  <2> SUFFICES ASSUME NEW k \in 1 .. Len(t), k # i + 1, t[k].pagina # Libre
               PROVE  k \in 1 .. Len(s) /\ t[k] = s[k]
    OBVIOUS
  <2>1. k \notin i + 1 .. i + n
    <3>1. k \in i + 1 .. i + n => t[k] = Fila(p, Libre)
      BY <1>6
    <3> QED BY <3>1 DEF Fila
  <2> QED BY <1>6, <2>1
<1>10. \A k \in 1 .. Len(s) : k # i + 1 /\ s[k].pagina # Libre => k \in 1 .. Len(t) /\ t[k] = s[k]
  <2> SUFFICES ASSUME NEW k \in 1 .. Len(s), s[k].pagina # Libre
               PROVE  k \in 1 .. Len(t) /\ t[k] = s[k]
    OBVIOUS
  <2>1. k \notin i + 1 .. i + n
    BY <1>6 DEF FilaLibre, Fila
  <2>2. k \in 1 .. Len(t)
    BY <1>5, <1>6, <1>7
  <2> QED BY <1>6, <2>1, <2>2
<1>11. i + 1 \in 1 .. Len(s) => s[i + 1] = Fila(p, g) \/ s[i + 1].pagina = Libre
  BY <1>6, <1>7 DEF FilaLibre, Fila
<1>12. /\ swap_dict[p] \in {Libre, f} /\ swap_dict' = [swap_dict EXCEPT ![p] = f]
       /\ EscribeFrame(f, i, x) /\ Guardada(p, g, x)
       /\ i \in Nat /\ i + 1 \in 1 .. Len(t) /\ Len(t) <= FramesPorArchivo
  BY <1>2, <1>6, <1>7
<1> QED BY ONLY ZenonT(30), ConstantesValidas, Inductivo, Inductivo', p \in Procesos, g \in Paginas,
                x \in Contenidos, f \in Archivos,
                <1>3, <1>5, <1>8, <1>9, <1>10, <1>11, <1>12, SeGuarda

\* With a frame for every page, or no free rows, a page that is not refused has a
\* reserved row: otherwise the rows of p hold all the pages but g.
LEMMA HayReservada ==
    ASSUME ConstantesValidas, PaginasAlcanzan, Inductivo, Ordenado, tipo_asignacion = "fija",
           NEW p \in Procesos, NEW g \in Paginas, NEW x, NEW f \in Archivos, NEW i, NEW t,
           OcupaReservada(p, g, x, f, i, t)
    PROVE  i < Len(tabla_paginas[f])
<1>1. PICK s : s = tabla_paginas[f]
  OBVIOUS
<1>2. /\ s \in Seq(Filas) /\ Len(s) \in Nat /\ DOMAIN s = 1 .. Len(s)
      /\ \A k \in 1 .. Len(s) : /\ s[k].proceso \in Procesos \cup {Libre}
                                /\ s[k].pagina \in Paginas \cup {Libre}
                                /\ s[k] = Fila(s[k].proceso, s[k].pagina)
  BY <1>1, TablaEs DEF Inductivo
<1>3. /\ swap_dict[p] = f /\ Fila(p, g) \notin Range(s)
      /\ i \in 0 .. Len(s) /\ i # tabla_paginas_size(f)
      /\ \A k \in 1 .. i : s[k] # Fila(p, Libre)
  BY <1>1 DEF OcupaReservada
<1>4. CASE Terminan = {}
  <2>1. \A k \in 1 .. Len(s) : s[k].proceso # Libre
    BY <1>1, <1>4 DEF Ordenado, FilasLibresEnteras
  <2>2. tabla_paginas_size(f) = Cardinality(Usadas(s))
    BY <1>1, TamanioEs DEF Inductivo
  <2>3. Cardinality(Usadas(s)) = Len(s)
    BY <1>2, <2>1, UsadasTodas
  <2> QED BY <1>1, <1>2, <1>3, <2>2, <2>3
<1>5. CASE SeReservanTodas
  <2> SUFFICES ASSUME i = Len(s) PROVE FALSE
    BY <1>1, <1>2, <1>3
  <2>1. p # Libre /\ f # Libre /\ MarcosPorCarpincho \in Nat \ {0}
    BY DEF ConstantesValidas, Archivos
  <2>2. PICK j \in Frames : {k \in DOMAIN s : s[k].proceso = p} = j + 1 .. j + MarcosPorCarpincho
    BY <1>1, <1>3, <2>1, BloquesContiguos DEF MarcosContiguos
  <2> DEFINE n == MarcosPorCarpincho
             resto == Paginas \ {g}
             paginas == [m \in 1 .. n |-> s[j + m].pagina]
  <2>3. ASSUME NEW m \in 1 .. n
        PROVE  /\ j + m \in 1 .. Len(s) /\ s[j + m] = Fila(p, s[j + m].pagina)
               /\ s[j + m].proceso = p /\ s[j + m].pagina \in resto
    <3>1. j \in Int /\ m \in Int /\ j + m \in j + 1 .. j + n
      BY <2>1 DEF Frames
    <3>2. j + m \in 1 .. Len(s) /\ s[j + m].proceso = p
      BY <1>2, <2>2, <3>1
    <3>3. s[j + m] # Fila(p, Libre) /\ s[j + m] # Fila(p, g)
      BY <1>2, <1>3, <3>2 DEF Range
    <3> QED BY <1>2, <3>2, <3>3
  <2>4. paginas \in [1 .. n -> resto]
    BY <2>3
  <2>5. IsFiniteSet(1 .. n) /\ Cardinality(1 .. n) = n
    <3>1. 1 \in Int /\ n \in Int /\ (IF 1 > n THEN 0 ELSE n - 1 + 1) = n
      BY <2>1
    <3> QED BY <3>1, FS_Interval
  <2>6. IsFiniteSet(resto) /\ Cardinality(resto) < n
    <3>1. /\ IsFiniteSet(Paginas) /\ Cardinality(Paginas) <= n /\ Cardinality(Paginas) \in Nat
      BY <1>5, FS_CardinalityType DEF SeReservanTodas
    <3>2. IsFiniteSet(resto) /\ Cardinality(resto) = Cardinality(Paginas) - 1
      BY <3>1, FS_RemoveElement
    <3> QED BY <2>1, <3>1, <3>2
  <2> HIDE DEF resto, paginas, n
  <2>7. \E k, m \in 1 .. n : k # m /\ paginas[k] = paginas[m]
    <3>1. PICK D : D = 1 .. n
      OBVIOUS
    <3>2. /\ IsFiniteSet(D) /\ IsFiniteSet(resto) /\ Cardinality(resto) < Cardinality(D)
          /\ paginas \in [D -> resto]
      BY <2>4, <2>5, <2>6, <3>1
    <3>3. \E k, m \in D : k # m /\ paginas[k] = paginas[m]
      BY ONLY <3>2, FS_PigeonHole
    <3> QED BY <3>1, <3>3
  <2>8. PICK k \in 1 .. n, m \in 1 .. n : k # m /\ paginas[k] = paginas[m]
    BY <2>7
  <2>9. s[j + k].pagina = s[j + m].pagina
    BY <2>8 DEF paginas, n
  <2>10. s[j + k] = s[j + m] /\ s[j + k].proceso # Libre /\ s[j + k].pagina # Libre
    <3>1. Libre \notin resto
      BY DEF resto, ConstantesValidas
    <3> QED BY <2>1, <2>3, <2>8, <2>9, <3>1
  <2>11. j + m = j + k
    BY <1>1, <1>2, <2>3, <2>8, <2>10 DEF Inductivo, CadaPaginaEnSuArchivo
  <2> QED BY <2>1, <2>8, <2>11 DEF Frames, n
<1> QED BY <1>4, <1>5 DEF PaginasAlcanzan

\* Another page under the fixed assignment is stored in the row reserved for it.
LEMMA OtraFijaImplementa ==
    ASSUME ConstantesValidas, PaginasAlcanzan, Inductivo, Inductivo', Ordenado,
           tipo_asignacion = "fija", NEW p \in Procesos, NEW g \in Paginas, NEW x \in Contenidos,
           OtraFija(p, g, x), ~SinEspacio(p, g, x)
    PROVE  Almacen!Guardar(p, g, x)
<1>1. PICK f \in Archivos : \E i, t : OcupaReservada(p, g, x, f, i, t)
  BY OtraFijaEs
<1>2. PICK i, t : OcupaReservada(p, g, x, f, i, t)
  BY <1>1
<1>3. PICK s : s = tabla_paginas[f]
  OBVIOUS
<1>4. i < Len(s)
  BY <1>2, <1>3, HayReservada
<1>5. /\ s \in Seq(Filas) /\ Len(s) \in Nat /\ Len(s) <= FramesPorArchivo
  BY <1>3, TablaEs, TablaCabe DEF Inductivo
<1>6. /\ swap_dict[p] = f /\ swap_dict' = swap_dict
      /\ tabla_paginas' = [tabla_paginas EXCEPT ![f] = t]
      /\ EscribeFrame(f, i, x) /\ Guardada(p, g, x)
      /\ i \in 0 .. Len(s) /\ s[i + 1] = Fila(p, Libre) /\ Len(t) = Len(s)
      /\ \A k \in 1 .. Len(t) : t[k] = IF k = i + 1 THEN Fila(p, g) ELSE s[k]
  BY <1>2, <1>3, <1>4 DEF OcupaReservada
<1>7. /\ t = tabla_paginas'[f] /\ \A h \in Archivos : h # f => tabla_paginas'[h] = tabla_paginas[h]
      /\ swap_dict[p] \in {Libre, f} /\ swap_dict' = [swap_dict EXCEPT ![p] = f]
  BY <1>6 DEF Inductivo, TypeOK
<1>8. i \in Nat /\ i + 1 \in 1 .. Len(t) /\ Len(t) <= FramesPorArchivo
  BY <1>4, <1>5, <1>6
<1>9. t[i + 1] = Fila(p, g) /\ EscribeFrame(f, i, x) /\ Guardada(p, g, x)
  BY <1>6, <1>8
<1>10. \A k \in 1 .. Len(t) : k # i + 1 /\ t[k].pagina # Libre => k \in 1 .. Len(s) /\ t[k] = s[k]
  BY <1>6
<1>11. \A k \in 1 .. Len(s) : k # i + 1 /\ s[k].pagina # Libre => k \in 1 .. Len(t) /\ t[k] = s[k]
  BY <1>6
<1>12. i + 1 \in 1 .. Len(s) => s[i + 1] = Fila(p, g) \/ s[i + 1].pagina = Libre
  BY <1>6 DEF Fila
<1> QED BY ONLY ZenonT(30), ConstantesValidas, Inductivo, Inductivo', p \in Procesos, g \in Paginas,
                x \in Contenidos, f \in Archivos,
                <1>3, <1>5, <1>7, <1>8, <1>9, <1>10, <1>11, <1>12, SeGuarda

\* A page under the dynamic assignment is stored, while no process ends.
LEMMA DinamicaImplementa ==
    ASSUME ConstantesValidas, PaginasAlcanzan, Inductivo, Inductivo', Ordenado,
           tipo_asignacion = "dinamica",
           NEW p \in Procesos, NEW g \in Paginas, NEW x \in Contenidos,
           PrimeraDinamica(p, g, x) \/ (OtraDinamica(p, g, x) /\ ~SinEspacio(p, g, x))
    PROVE  Almacen!Guardar(p, g, x)
<1>1. Terminan = {}
  <2>1. "dinamica" \in TiposMemoria
    BY DEF Ordenado
  <2> QED BY <2>1 DEF PaginasAlcanzan, SeReservanTodas
<1>2. PICK f \in Archivos :
        /\ swap_dict[p] \in {Libre, f} /\ swap_dict' = [swap_dict EXCEPT ![p] = f]
        /\ tabla_paginas' = [tabla_paginas EXCEPT ![f] = Append(@, Fila(p, g))]
        /\ EscribeFrame(f, Len(tabla_paginas[f]), x) /\ Guardada(p, g, x)
        /\ Fila(p, g) \notin Range(tabla_paginas[f])
        /\ Len(tabla_paginas[f]) < FramesPorArchivo
  BY <1>1, DinamicaEs
<1>3. PICK s : s = tabla_paginas[f]
  OBVIOUS
<1>4. PICK t : t = Append(s, Fila(p, g))
  OBVIOUS
<1>5. PICK i : i = Len(s)
  OBVIOUS
<1>6. s \in Seq(Filas) /\ Len(s) \in Nat /\ i \in Nat /\ Fila(p, g) \in Filas
  BY <1>3, <1>5, TablaEs DEF Inductivo, Fila, Filas
<1>7. /\ Len(t) = i + 1 /\ t[i + 1] = Fila(p, g)
      /\ \A k \in 1 .. Len(s) : k \in 1 .. Len(t) /\ t[k] = s[k]
  BY <1>4, <1>5, <1>6
<1>8. /\ t = tabla_paginas'[f] /\ \A h \in Archivos : h # f => tabla_paginas'[h] = tabla_paginas[h]
      /\ EscribeFrame(f, i, x) /\ Guardada(p, g, x)
  BY <1>2, <1>3, <1>4, <1>5 DEF Inductivo, TypeOK
<1>9. /\ Len(s) <= FramesPorArchivo /\ Len(t) <= FramesPorArchivo /\ i + 1 \in 1 .. Len(t)
      /\ swap_dict[p] \in {Libre, f} /\ swap_dict' = [swap_dict EXCEPT ![p] = f]
      /\ t[i + 1] = Fila(p, g) /\ i \in Nat
  BY <1>2, <1>3, <1>5, <1>6, <1>7 DEF ConstantesValidas
<1>10. \A k \in 1 .. Len(t) : k # i + 1 /\ t[k].pagina # Libre => k \in 1 .. Len(s) /\ t[k] = s[k]
  BY <1>5, <1>6, <1>7
<1>11. \A k \in 1 .. Len(s) : k # i + 1 /\ s[k].pagina # Libre => k \in 1 .. Len(t) /\ t[k] = s[k]
  BY <1>7
<1>12. i + 1 \in 1 .. Len(s) => s[i + 1] = Fila(p, g) \/ s[i + 1].pagina = Libre
  BY <1>5, <1>6
<1> QED BY ONLY ZenonT(30), ConstantesValidas, Inductivo, Inductivo', p \in Procesos, g \in Paginas,
                x \in Contenidos, f \in Archivos,
                <1>3, <1>8, <1>9, <1>10, <1>11, <1>12, SeGuarda

\* What is stored depends on the tables, the files and the dictionary only.
LEMMA NadaCambia ==
    ASSUME UNCHANGED <<tabla_paginas, swap_file, swap_dict>>
    PROVE  Vistas' = Vistas
<1>1. \A p \in Procesos, g \in Paginas : Leida(p, g)' = Leida(p, g)
  BY LeidaEs
<1> QED BY <1>1 DEF Vistas

\* Only a page that is not stored is refused.
LEMMA SinEspacioImplementa ==
    ASSUME ConstantesValidas, NEW p \in Procesos, NEW g \in Paginas, NEW x \in Contenidos,
           SinEspacio(p, g, x),
           swap_dict[p] = Libre \/ ~pagina_esta_en_swap(swap_dict[p], p, g)
    PROVE  Almacen!Rechazar(p, g, x)
<1>1. Vistas' = Vistas
  BY NadaCambia DEF SinEspacio
<1>2. Vistas[<<p, g>>] = Libre
  BY DEF Vistas, Leida
<1> QED BY <1>1, <1>2 DEF Almacen!Rechazar, Almacen!Respuesta, SinEspacio, Respuesta, Vistas

\* A message that saves a page stores it, or the page was not stored and is refused.
LEMMA GuardarImplementa ==
    ASSUME ConstantesValidas, BloquesReusables, PaginasAlcanzan, Inductivo, Inductivo', Ordenado,
           NEW p \in Procesos, NEW g \in Paginas, NEW x \in Contenidos, guardar_pagina(p, g, x)
    PROVE  Almacen!Guardar(p, g, x) \/ Almacen!Rechazar(p, g, x)
<1>1. CASE Sobreescribe(p, g, x)
  BY <1>1, SobreescribeImplementa
<1>2. CASE tipo_asignacion = "fija" /\ ~Sobreescribe(p, g, x)
  <2>1. PrimeraFija(p, g, x) \/ PrimeraFijaSinEspacio(p, g, x) \/ OtraFija(p, g, x)
    BY <1>2 DEF guardar_pagina, guardar_pagina_asignacion_fija
  <2>2. CASE PrimeraFija(p, g, x)
    BY <1>2, <2>2, PrimeraFijaImplementa
  <2>3. CASE PrimeraFijaSinEspacio(p, g, x)
    BY <2>3, SinEspacioImplementa DEF PrimeraFijaSinEspacio
  <2>4. CASE OtraFija(p, g, x) /\ SinEspacio(p, g, x)
    BY <2>4, SinEspacioImplementa DEF OtraFija
  <2>5. CASE OtraFija(p, g, x) /\ ~SinEspacio(p, g, x)
    BY <1>2, <2>5, OtraFijaImplementa
  <2> QED BY <2>1, <2>2, <2>3, <2>4, <2>5
<1>3. CASE tipo_asignacion = "dinamica" /\ ~Sobreescribe(p, g, x)
  <2>1. PrimeraDinamica(p, g, x) \/ PrimeraDinamicaSinEspacio(p, g, x) \/ OtraDinamica(p, g, x)
    BY <1>3 DEF guardar_pagina, guardar_pagina_asignacion_dinamica
  <2>2. CASE PrimeraDinamicaSinEspacio(p, g, x)
    BY <2>2, SinEspacioImplementa DEF PrimeraDinamicaSinEspacio
  <2>3. CASE OtraDinamica(p, g, x) /\ SinEspacio(p, g, x)
    BY <2>3, SinEspacioImplementa DEF OtraDinamica
  <2>4. CASE PrimeraDinamica(p, g, x) \/ (OtraDinamica(p, g, x) /\ ~SinEspacio(p, g, x))
    BY <1>3, <2>4, DinamicaImplementa
  <2> QED BY <2>1, <2>2, <2>3, <2>4
<1> QED BY <1>1, <1>2, <1>3 DEF Inductivo, TypeOK

\* What is read for a page is what is stored, or anything.
LEMMA ObtenerImplementa ==
    ASSUME Inductivo, NEW p \in Procesos, NEW g \in Paginas, obtener_pagina(p, g)
    PROVE  Almacen!Obtener(p, g)
<1> DEFINE f == swap_dict[p]
           i == get_frame_number(f, p, g)
<1>1. PICK x : x = IF f = Libre THEN Basura ELSE LeeFrame(f, i)
  OBVIOUS
<1>2. respuesta' = Respuesta(p, g, x, "leida") /\ UNCHANGED <<tabla_paginas, swap_file, swap_dict>>
  BY <1>1 DEF obtener_pagina
<1>3. x \in Contenidos \cup {Vacio, Basura}
  BY <1>1 DEF LeeFrame, Inductivo, TypeOK
<1>4. Vistas[<<p, g>>] \in {Libre, x}
  BY <1>1 DEF Vistas, Leida
<1>5. Vistas' = Vistas
  BY <1>2, NadaCambia
<1> HIDE DEF f, i
<1> QED BY <1>2, <1>3, <1>4, <1>5 DEF Almacen!Obtener, Almacen!Respuesta, Respuesta, Vistas

\* The process that ends takes its pages with it, and no others.
LEMMA FinalizarImplementa ==
    ASSUME ConstantesValidas, PaginasAlcanzan, Inductivo, Ordenado, NEW p \in Procesos,
           finalizar_proceso(p)
    PROVE  Almacen!Finalizar(p)
<1>1. PICK f \in Archivos : f = swap_dict[p]
  BY DEF finalizar_proceso, Inductivo, TypeOK
<1>2. PICK s : s = tabla_paginas[f]
  OBVIOUS
<1>3. PICK t : t = tabla_paginas'[f]
  OBVIOUS
<1>4. PICK fr : fr = swap_file[f]
  OBVIOUS
<1>5. PICK gr : gr = swap_file'[f]
  OBVIOUS
<1>6. /\ t \in Seq(Filas) /\ Len(t) = Len(s)
      /\ \A k \in 1 .. Len(s) : t[k] = IF s[k].proceso = p THEN FilaLibre ELSE s[k]
      /\ \A h \in Archivos : h # f => tabla_paginas'[h] = tabla_paginas[h]
      /\ swap_dict'[p] = Libre /\ \A q \in Procesos : q # p => swap_dict'[q] = swap_dict[q]
  BY <1>1, <1>2, <1>3, FinalizarEs DEF Inductivo
<1>7. /\ s \in Seq(Filas) /\ Len(s) \in Nat /\ DOMAIN s = 1 .. Len(s) /\ Len(s) <= FramesPorArchivo
      /\ FramesPorArchivo \in Nat /\ Libre \notin Procesos \cup Paginas
  BY <1>2, TablaEs, TablaCabe DEF Inductivo, ConstantesValidas
<1>8. /\ \A i \in Frames : i + 1 \notin FilasDe(f, p) => gr[i] = fr[i]
      /\ \A h \in Archivos : h # f => swap_file'[h] = swap_file[h]
  BY <1>1, <1>4, <1>5 DEF finalizar_proceso, Inductivo, TypeOK
<1>9. ASSUME NEW q \in Procesos, NEW g \in Paginas, q # p
      PROVE  Leida(q, g)' = Leida(q, g)
  <2>1. swap_dict'[q] = swap_dict[q]
    BY <1>6, <1>9
  <2>2. CASE swap_dict[q] = Libre
    BY <2>1, <2>2, LeidaEs
  <2>3. CASE swap_dict[q] # Libre /\ swap_dict[q] # f
    <3>1. swap_dict[q] \in Archivos
      BY <2>3 DEF Inductivo, TypeOK
    <3>2. /\ tabla_paginas'[swap_dict[q]] = tabla_paginas[swap_dict[q]]
          /\ swap_file'[swap_dict[q]] = swap_file[swap_dict[q]]
      BY <1>6, <1>8, <2>3, <3>1
    <3> QED BY <2>1, <3>2, LeidaEs
  <2>4. CASE swap_dict[q] # Libre /\ swap_dict[q] = f
    <3>1. PICK fila : fila = Fila(q, g)
      OBVIOUS
    <3>2. fila.proceso = q /\ fila.pagina = g /\ fila # FilaLibre /\ fila.proceso # Libre /\ fila.pagina # Libre
      BY <1>7, <3>1 DEF FilaLibre, Fila
    <3>3. Leida(q, g) = LeidaEn(s, fr, fila) /\ Leida(q, g)' = LeidaEn(t, gr, fila)
      BY <1>2, <1>3, <1>4, <1>5, <2>1, <2>4, <3>1, LeidaEs
    <3>4. \A k \in 1 .. Len(s) : t[k] = fila <=> s[k] = fila
      BY <1>6, <1>9, <3>2
    <3>5. CASE \A k \in 1 .. Len(s) : s[k] # fila
      <4>1. \A k \in 1 .. Len(t) : t[k] # fila
        BY <1>6, <3>4, <3>5
      <4>2. LeidaEn(s, fr, fila) = Libre
        BY ONLY <1>7, <3>5, LeidaEnLibre
      <4>3. LeidaEn(t, gr, fila) = Libre
        BY ONLY <1>6, <4>1, LeidaEnLibre
      <4> QED BY <3>3, <4>2, <4>3
    <3>6. CASE \E k \in 1 .. Len(s) : s[k] = fila
      <4>1. PICK k \in 1 .. Len(s) : s[k] = fila
        BY <3>6
      <4>2. \A j \in 1 .. Len(s) : s[j] = fila => j = k
        BY <1>2, <1>7, <3>2, <4>1 DEF Inductivo, CadaPaginaEnSuArchivo
      <4>3. k \in 1 .. Len(t) /\ t[k] = fila /\ \A j \in 1 .. Len(t) : t[j] = fila => j = k
        BY <1>6, <3>4, <4>1, <4>2
      <4>4. k - 1 \in Frames /\ (k - 1) + 1 = k /\ k \notin FilasDe(f, p)
        BY <1>2, <1>7, <1>9, <3>2, <4>1 DEF Frames, FilasDe
      <4>5. s \in Seq(Filas) /\ t \in Seq(Filas) /\ k - 1 \in Frames
        BY <1>6, <1>7, <4>4
      <4>6. LeidaEn(s, fr, fila) = fr[k - 1]
        BY ONLY <4>5, <4>1, <4>2, LeidaEnFila
      <4>7. LeidaEn(t, gr, fila) = gr[k - 1]
        BY ONLY <4>5, <4>3, LeidaEnFila
      <4>8. gr[k - 1] = fr[k - 1]
        BY <1>8, <4>4
      <4> QED BY <3>3, <4>6, <4>7, <4>8
    <3> QED BY <3>5, <3>6
  <2> QED BY <2>2, <2>3, <2>4
<1>10. \A g \in Paginas : Leida(p, g)' = Libre
  BY <1>6, LeidaEs
<1>11. Vistas' = [pagina \in Procesos \X Paginas |-> IF pagina[1] = p THEN Libre ELSE Vistas[pagina]]
  <2>1. \A pagina \in Procesos \X Paginas :
           Leida(pagina[1], pagina[2])' =
               IF pagina[1] = p THEN Libre ELSE Leida(pagina[1], pagina[2])
    <3> TAKE pagina \in Procesos \X Paginas
    <3>1. PICK q \in Procesos : \E g \in Paginas : pagina = <<q, g>>
      OBVIOUS
    <3>2. PICK g \in Paginas : pagina = <<q, g>>
      BY <3>1
    <3>3. Leida(q, g)' = IF q = p THEN Libre ELSE Leida(q, g)
      BY <1>9, <1>10
    <3> QED BY <3>2, <3>3
  <2> QED BY <2>1 DEF Vistas
<1>12. UNCHANGED respuesta
  BY DEF finalizar_proceso
<1> QED BY <1>11, <1>12 DEF Almacen!Finalizar, Vistas

\* A step of swamp is a step of the store, or nothing that the store knows of.
LEMMA PasoImplementa ==
    ASSUME ConstantesValidas, BloquesReusables, PaginasAlcanzan, Inductivo, Inductivo', Ordenado,
           [Next]_vars
    PROVE  Almacen!Next \/ UNCHANGED <<Vistas, Contestada>>
<1>1. CASE TipoAsignacion
  <2>1. Vistas' = Vistas
    BY <1>1, NadaCambia DEF TipoAsignacion
  <2>2. /\ respuesta = SinRespuesta /\ respuesta.resultado = "ninguna"
        /\ respuesta'.resultado = "tipo"
    BY <1>1 DEF TipoAsignacion, SinRespuesta, Respuesta
  <2>3. Contestada = SinRespuesta /\ Contestada' = SinRespuesta
    BY <2>2 DEF Contestada, SinRespuesta, Respuesta
  <2> QED BY <2>1, <2>3
<1>2. ASSUME NEW p \in Procesos, NEW g \in Paginas, obtener_pagina(p, g) PROVE Almacen!Next
  BY <1>2, ObtenerImplementa DEF Almacen!Next
<1>3. ASSUME NEW p \in Procesos, NEW g \in Paginas, NEW x \in Contenidos, guardar_pagina(p, g, x)
      PROVE  Almacen!Next
  BY <1>3, GuardarImplementa DEF Almacen!Next
<1>4. ASSUME NEW p \in Procesos, finalizar_proceso(p) PROVE Almacen!Next
  BY <1>4, FinalizarImplementa DEF Almacen!Next
<1>5. CASE UNCHANGED vars
  <2>1. Vistas' = Vistas
    BY <1>5, NadaCambia DEF vars
  <2>2. Contestada' = Contestada
    BY <1>5 DEF vars, Contestada
  <2> QED BY <2>1, <2>2
<1> QED BY <1>1, <1>2, <1>3, <1>4, <1>5 DEF Next, consola

\* Swamp is a store of pages: while no process ends, or under the fixed assignment with
\* a frame for every page of a process, a page that was saved is read back.
THEOREM SwampImplementaAlmacen ==
    ASSUME BloquesReusables, PaginasAlcanzan
    PROVE  Spec => ImplementaAlmacen
<1>1. Init => Almacen!Init
  BY DEF Init, Almacen!Init, Almacen!Respuesta, Leida, SinRespuesta, Respuesta
<1>2. Inductivo /\ Ordenado /\ Inductivo' /\ [Next]_vars
         => [Almacen!Next]_<<[pagina \in Procesos \X Paginas |-> Leida(pagina[1], pagina[2])],
                             IF respuesta.resultado = "tipo" THEN SinRespuesta ELSE respuesta>>
  BY ConstantesValidas, PasoImplementa DEF Vistas, Contestada
<1> QED BY <1>1, <1>2, FilasOrdenadas, PTL DEF Spec, ImplementaAlmacen, Almacen!Spec
=============================================================================
