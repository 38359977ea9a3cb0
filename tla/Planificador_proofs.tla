------------------------ MODULE Planificador_proofs ------------------------
(***************************************************************************)
(* Proofs about the scheduler, for every number of carpinchos, CPUs, slots,*)
(* semaphores, devices and calls.                                          *)
(***************************************************************************)
EXTENDS Planificador, Secuencias_proofs

-----------------------------------------------------------------------------
(* Lemmas about counting.                                                  *)

\* Two subsets that agree but for x have cardinalities that differ by x.
LEMMA CuentaSalvoUno ==
    ASSUME NEW S, IsFiniteSet(S), NEW x, NEW A \in SUBSET S, NEW B \in SUBSET S,
           A \ {x} = B \ {x}
    PROVE  /\ Cardinality(A) \in Nat /\ Cardinality(B) \in Nat
           /\ Cardinality(B) = Cardinality(A) - Uno(x \in A) + Uno(x \in B)
<1>1. /\ IsFiniteSet(A) /\ Cardinality(A) \in Nat
      /\ IsFiniteSet(B) /\ Cardinality(B) \in Nat
  BY FS_Subset, FS_CardinalityType
<1>2. /\ Cardinality(A \ {x}) = IF x \in A THEN Cardinality(A) - 1 ELSE Cardinality(A)
      /\ Cardinality(B \ {x}) = IF x \in B THEN Cardinality(B) - 1 ELSE Cardinality(B)
  BY <1>1, FS_RemoveElement
<1>3. Cardinality(A \ {x}) = Cardinality(B \ {x})
  OBVIOUS
<1> QED BY <1>1, <1>2, <1>3 DEF Uno

\* There are finitely many server threads.
LEMMA HilosFinitos == IsFiniteSet(Hilos)
<1>1. IsFiniteSet(1 .. MaxLlamadas) /\ IsFiniteSet(-MaxLlamadas .. -1)
  BY ConstantesValidas, FS_Interval DEF ConstantesValidas
<1>2. IsFiniteSet(HilosServidor) /\ IsFiniteSet(HilosDetector)
  BY <1>1, ConstantesValidas, FS_Product DEF ConstantesValidas, HilosServidor, HilosDetector
<1> QED BY <1>2, FS_Union DEF Hilos

\* A step that touches the thread h alone changes by one at most how many threads
\* are at the given steps.
LEMMA HilosEnCambia ==
    ASSUME NEW P, NEW h \in Hilos, \A k \in Hilos \ {h} : hilo'[k].pc = hilo[k].pc
    PROVE  /\ Cardinality(HilosEn(P)) \in Nat /\ Cardinality(HilosEn(P)') \in Nat
           /\ Cardinality(HilosEn(P)') =
                Cardinality(HilosEn(P)) - Uno(hilo[h].pc \in P) + Uno(hilo'[h].pc \in P)
<1> DEFINE A == HilosEn(P)
           B == HilosEn(P)'
<1>1. A \in SUBSET Hilos /\ B \in SUBSET Hilos /\ A \ {h} = B \ {h}
  BY DEF HilosEn
<1>2. (h \in A <=> hilo[h].pc \in P) /\ (h \in B <=> hilo'[h].pc \in P)
  BY DEF HilosEn
<1> HIDE DEF A, B
<1>3. /\ Cardinality(A) \in Nat /\ Cardinality(B) \in Nat
      /\ Cardinality(B) = Cardinality(A) - Uno(h \in A) + Uno(h \in B)
  BY <1>1, HilosFinitos, CuentaSalvoUno
<1>4. Uno(h \in A) = Uno(hilo[h].pc \in P) /\ Uno(h \in B) = Uno(hilo'[h].pc \in P)
  BY <1>2 DEF Uno
<1> QED BY <1>3, <1>4 DEF A, B

-----------------------------------------------------------------------------
(* The inductive invariant.                                                *)

\* The suspender holds the index of somebody, and later that carpincho.
SuspensorTieneIndice ==
    /\ suspensor.pc = "mueve" => suspensor.long_blocked > 0
    /\ suspensor.pc \in {"estado", "libera"} => suspensor.carpincho \in Carpinchos

\* A thread that will move a carpincho to ready or suspended_ready knows whom.
HilosConObjetivo ==
    \A h \in Hilos :
        \/ hilo[h].recurso \in Dispositivos
        \/ hilo[h].pc \in {"io_pide", "io_usa", "despierta", "ready_mueve", "ready_publica",
                          "suspended_mueve", "suspended_publica"}
        => hilo[h].objetivo \in Carpinchos

\* The threads of the calls a carpincho has not made yet have not started.
HilosFuturosLibres ==
    \A c \in Carpinchos :
        /\ cliente[c].pc = "fuera" => cliente[c].llamada = 0
        /\ \A k \in 1 .. MaxLlamadas :
              k > cliente[c].llamada => hilo[<<c, k>>].pc = "libre"

Auxiliar == SuspensorTieneIndice /\ HilosConObjetivo /\ HilosFuturosLibres

IInv ==
    /\ TypeOK /\ Auxiliar
    /\ CuentaEntrantes /\ LargoPlazoEncuentra
    /\ CuentaReady /\ CortoPlazoEncuentra
    /\ CuentaCPUs /\ CPUExclusiva

-----------------------------------------------------------------------------
(* The types that the helpers preserve.                                    *)

LEMMA TipoSemWait ==
    ASSUME TipoSem, NEW s \in Contadores, SemWait(s) PROVE TipoSem'
BY DEF TipoSem, SemWait

LEMMA TipoSemPost ==
    ASSUME TipoSem, NEW s \in Contadores, SemPost(s) PROVE TipoSem'
BY DEF TipoSem, SemPost

LEMMA TipoPonEstado ==
    ASSUME TipoCarpincho, NEW c, NEW e \in Estados, PonEstado(c, e) PROVE TipoCarpincho'
BY DEF TipoCarpincho, PonEstado

LEMMA TipoMueve ==
    ASSUME TipoCola, NEW c \in Carpinchos, NEW desde \in Colas, NEW hacia \in Colas,
           desde # hacia, Mueve(c, desde, hacia)
    PROVE  TipoCola'
<1>1. RemoveFirst(cola[desde], c) \in Seq(Carpinchos)
  BY RemoveFirstEs DEF TipoCola
<1>2. Append(cola[hacia], c) \in Seq(Carpinchos)
  BY DEF TipoCola
<1> QED BY <1>1, <1>2 DEF TipoCola, Mueve

LEMMA TipoAdmiteDe ==
    ASSUME TipoCola, NEW q \in Colas \ {"ready"}, cola[q] # << >>, AdmiteDe(q)
    PROVE  TipoCola' /\ Head(cola[q]) \in Carpinchos
<1>1. cola[q] \in Seq(Carpinchos) /\ cola["ready"] \in Seq(Carpinchos)
  BY DEF TipoCola, Colas
<1>2. Head(cola[q]) \in Carpinchos /\ Tail(cola[q]) \in Seq(Carpinchos)
  BY <1>1
<1>3. Append(cola["ready"], Head(cola[q])) \in Seq(Carpinchos)
  BY <1>1, <1>2
<1> QED BY <1>2, <1>3 DEF TipoCola, AdmiteDe

\* What a move does to the lengths of the queues.
LEMMA MueveCuenta ==
    ASSUME TipoCola, NEW c \in Carpinchos, NEW desde \in Colas, NEW hacia \in Colas,
           desde # hacia, Mueve(c, desde, hacia)
    PROVE  /\ Cuantos(hacia)' = Cuantos(hacia) + 1
           /\ c \in Range(cola[desde]) => Cuantos(desde)' = Cuantos(desde) - 1
           /\ c \notin Range(cola[desde]) => Cuantos(desde)' = Cuantos(desde)
           /\ \A q \in Colas \ {desde, hacia} : cola'[q] = cola[q]
           /\ cola'[hacia] = Append(cola[hacia], c)
<1>1. /\ cola'[hacia] = Append(cola[hacia], c)
      /\ cola'[desde] = RemoveFirst(cola[desde], c)
      /\ \A q \in Colas \ {desde, hacia} : cola'[q] = cola[q]
  BY DEF TipoCola, Mueve
<1>2. Len(Append(cola[hacia], c)) = Len(cola[hacia]) + 1
  BY AppendEs DEF TipoCola
<1>3. /\ c \in Range(cola[desde]) => Len(RemoveFirst(cola[desde], c)) = Len(cola[desde]) - 1
      /\ c \notin Range(cola[desde]) => RemoveFirst(cola[desde], c) = cola[desde]
  BY RemoveFirstEs DEF TipoCola
<1> QED BY <1>1, <1>2, <1>3 DEF Cuantos

LEMMA AdmiteCuenta ==
    ASSUME TipoCola, NEW q \in Colas \ {"ready"}, cola[q] # << >>, AdmiteDe(q)
    PROVE  /\ Cuantos("ready")' = Cuantos("ready") + 1
           /\ Cuantos(q)' = Cuantos(q) - 1
           /\ \A p \in Colas \ {q, "ready"} : cola'[p] = cola[p]
           /\ cola'["ready"] = Append(cola["ready"], Head(cola[q]))
<1>1. /\ cola'["ready"] = Append(cola["ready"], Head(cola[q]))
      /\ cola'[q] = Tail(cola[q])
      /\ \A p \in Colas \ {q, "ready"} : cola'[p] = cola[p]
  BY DEF TipoCola, AdmiteDe, Colas
<1>2. cola[q] \in Seq(Carpinchos) /\ cola["ready"] \in Seq(Carpinchos)
  BY DEF TipoCola, Colas
<1>3. Head(cola[q]) \in Carpinchos /\ Len(Tail(cola[q])) = Len(cola[q]) - 1
  BY <1>2, TailEs
<1>4. Len(Append(cola["ready"], Head(cola[q]))) = Len(cola["ready"]) + 1
  BY <1>2, <1>3, AppendEs
<1> QED BY <1>1, <1>3, <1>4 DEF Cuantos

LEMMA TipoPostLiberar ==
    ASSUME NEW i \in CPUs \cup {SinCPU}, PostLiberar(i), TipoCPU,
           UNCHANGED <<CPU_libres, mutex_para_CPU>>
    PROVE  /\ TipoCPU'
           /\ \A j \in CPUs : /\ hilo_CPU'[j].pc = hilo_CPU[j].pc
                              /\ hilo_CPU'[j].usar = hilo_CPU[j].usar
<1>1. CASE i \in CPUs
  <2>1. hilo_CPU[i].liberar + 1 \in Nat
    BY <1>1 DEF TipoCPU
  <2>2. hilo_CPU' = [hilo_CPU EXCEPT ![i] = [@ EXCEPT !.liberar = hilo_CPU[i].liberar + 1]]
    BY <1>1 DEF PostLiberar, TipoCPU
  <2> QED BY <1>1, <2>1, <2>2 DEF TipoCPU
<1>2. CASE i \notin CPUs
  BY <1>2 DEF TipoCPU, PostLiberar
<1> QED BY <1>1, <1>2

LEMMA TipoSigue ==
    ASSUME TipoHilo, NEW h, NEW paso \in PasosHilo, Sigue(h, paso) PROVE TipoHilo'
BY DEF TipoHilo, Sigue

LEMMA TipoTermina ==
    ASSUME TipoHilo, NEW h, Termina(h) PROVE TipoHilo'
BY DEF TipoHilo, Termina, HiloLibre, PasosHilo

LEMMA TipoContesta ==
    ASSUME TipoCliente, NEW c, NEW k, Contesta(c, k) PROVE TipoCliente'
BY DEF TipoCliente, Contesta

-----------------------------------------------------------------------------
(* The initial states.                                                     *)

LEMMA InicioTipos == Init => TypeOK
<1> SUFFICES ASSUME Init PROVE TypeOK
  OBVIOUS
<1> USE ConstantesValidas DEF ConstantesValidas
<1>1. TipoCola
  BY DEF Init, TipoCola
<1>2. TipoSem
  BY DEF Init, TipoSem
<1>3. TipoCarpincho
  BY DEF Init, TipoCarpincho, Estados
<1>4. TipoCPU
  <2>1. \A i \in 1 .. GradoMultiprocesamiento : i - 1 \in CPUs
    BY DEF CPUs
  <2>2. CPU_libres \in Seq(CPUs)
    <3>1. CPU_libres = [i \in 1 .. GradoMultiprocesamiento |-> i - 1]
      BY DEF Init
    <3>2. CPU_libres \in [1 .. GradoMultiprocesamiento -> CPUs]
      BY <2>1, <3>1
    <3> QED BY <3>2
  <2>3. hilo_CPU \in [CPUs -> [pc : PasosCPU, usar : Nat, libre : Nat, liberar : Nat]]
    BY DEF Init, PasosCPU
  <2> QED BY <2>2, <2>3 DEF TipoCPU, Init
<1>5. TipoPlanificadores
  BY DEF Init, TipoPlanificadores, PasosLargo, PasosCorto, PasosSuspensor
<1>6. TipoRecursos
  BY DEF Init, TipoRecursos, Creado, Inexistente
<1>7. TipoHilo
  BY DEF Init, TipoHilo, HiloLibre, PasosHilo
<1>8. TipoCliente
  BY DEF Init, TipoCliente
<1> QED BY <1>1, <1>2, <1>3, <1>4, <1>5, <1>6, <1>7, <1>8 DEF TypeOK, Init

LEMMA InicioIInv == Init => IInv
<1> SUFFICES ASSUME Init PROVE IInv
  OBVIOUS
<1> USE ConstantesValidas DEF ConstantesValidas
<1>1. TypeOK
  BY InicioTipos
<1>2. Auxiliar
  <2>1. SuspensorTieneIndice
    BY DEF Init, SuspensorTieneIndice
  <2>2. HilosConObjetivo
    BY DEF Init, HilosConObjetivo, HiloLibre
  <2>3. HilosFuturosLibres
    BY DEF Init, HilosFuturosLibres, HiloLibre, Hilos, HilosServidor
  <2> QED BY <2>1, <2>2, <2>3 DEF Auxiliar
<1>3. ASSUME NEW P, "libre" \notin P PROVE Cardinality(HilosEn(P)) = 0
  <2>1. HilosEn(P) = {}
    BY <1>3 DEF HilosEn, Init, HiloLibre
  <2> QED BY <2>1, FS_EmptySet
<1>4. CuentaEntrantes /\ LargoPlazoEncuentra
  BY SMTT(30), <1>3 DEF CuentaEntrantes, Cuantos, EntranteDeLargo, EntrantesPorPublicar, LargoPlazoEncuentra, Init, Colas, Contadores, Uno
<1>5. CuentaReady /\ CortoPlazoEncuentra
  BY <1>3 DEF CuentaReady, Cuantos, ReadyDeLargo, ReadyDeCorto, ReadyPorPublicar, CortoPlazoEncuentra, Init, Colas, Contadores, Uno
<1>6. CuentaCPUs
  <2>1. CPUsPorAnunciar = 0
    <3>1. CPUsEn({"espera_mutex"}) = {}
      BY DEF Init, CPUsEn
    <3> QED BY <3>1, FS_EmptySet DEF CPUsPorAnunciar
  <2>2. CuantasCPUs = GradoMultiprocesamiento
    BY DEF Init, CuantasCPUs
  <2>3. /\ sem["grado_multiprocesamiento_libre"] = GradoMultiprocesamiento
        /\ corto.pc # "elige"
    BY DEF Init, Contadores
  <2> QED BY <2>1, <2>2, <2>3 DEF CuentaCPUs, CPUDeCorto, Uno
<1>7. CPUExclusiva
  <2>1. IsInjective(CPU_libres)
    BY DEF Init, IsInjective
  <2>2. ASSUME NEW i \in CPUs PROVE i \in Range(CPU_libres)
    <3>1. i + 1 \in 1 .. GradoMultiprocesamiento /\ CPU_libres[i + 1] = i
      BY DEF Init, CPUs
    <3> QED BY <3>1 DEF Range, Init
  <2>3. \A i \in CPUs : hilo_CPU[i].usar = 0 /\ hilo_CPU[i].pc = "espera_usar"
    BY DEF Init
  <2> QED BY <2>1, <2>2, <2>3 DEF CPUExclusiva, Uno
<1> QED BY <1>1, <1>2, <1>4, <1>5, <1>6, <1>7 DEF IInv

-----------------------------------------------------------------------------
(* The terms of the accounts.                                              *)

Numeros ==
    /\ Cuantos("new") \in Nat /\ Cuantos("suspended_ready") \in Nat
    /\ Cuantos("ready") \in Nat /\ CuantasCPUs \in Nat
    /\ sem["hay_estructura_creada"] \in Nat /\ sem["cola_ready_con_elementos"] \in Nat
    /\ sem["grado_multiprocesamiento_libre"] \in Nat
    /\ EntrantesPorPublicar \in Nat /\ ReadyPorPublicar \in Nat /\ CPUsPorAnunciar \in Nat

LEMMA NumerosBien == TypeOK => Numeros
<1> SUFFICES ASSUME TypeOK PROVE Numeros
  OBVIOUS
<1>1. \A q \in Colas : Cuantos(q) \in Nat
  BY DEF TypeOK, TipoCola, Cuantos
<1>2. \A s \in Contadores : sem[s] \in Nat
  BY DEF TypeOK, TipoSem
<1>3. CuantasCPUs \in Nat
  BY DEF TypeOK, TipoCPU, CuantasCPUs
<1>4. ASSUME NEW P PROVE Cardinality(HilosEn(P)) \in Nat
  <2>1. HilosEn(P) \in SUBSET Hilos
    BY DEF HilosEn
  <2> QED BY <2>1, HilosFinitos, FS_Subset, FS_CardinalityType
<1>5. CPUsPorAnunciar \in Nat
  <2>1. CPUsEn({"espera_mutex"}) \in SUBSET CPUs
    BY DEF CPUsEn
  <2>2. IsFiniteSet(CPUs)
    BY ConstantesValidas, FS_Interval DEF ConstantesValidas, CPUs
  <2> QED BY <2>1, <2>2, FS_Subset, FS_CardinalityType DEF CPUsPorAnunciar
<1> QED BY <1>1, <1>2, <1>3, <1>4, <1>5 DEF Numeros, Colas, Contadores, EntrantesPorPublicar, ReadyPorPublicar

\* The terms that depend on where the planners are.
LEMMA EnManos ==
    /\ EntranteDeLargo \in {0, 1} /\ ReadyDeLargo \in {0, 1}
    /\ ReadyDeCorto \in {0, 1} /\ CPUDeCorto \in {0, 1}
    /\ UNCHANGED largo => UNCHANGED <<EntranteDeLargo, ReadyDeLargo>>
    /\ UNCHANGED corto => UNCHANGED <<ReadyDeCorto, CPUDeCorto>>
BY DEF EntranteDeLargo, ReadyDeLargo, ReadyDeCorto, CPUDeCorto, Uno

LEMMA CuantosIguales ==
    /\ \A q \in Colas : cola'[q] = cola[q] => Cuantos(q)' = Cuantos(q)
    /\ UNCHANGED CPU_libres => UNCHANGED CuantasCPUs
BY DEF Cuantos, CuantasCPUs

\* What a step of the thread h does to the two accounts of server threads.
LEMMA PorPublicarCambia ==
    ASSUME NEW h \in Hilos, \A k \in Hilos \ {h} : hilo'[k].pc = hilo[k].pc
    PROVE  /\ EntrantesPorPublicar' =
                 EntrantesPorPublicar
                 - Uno(hilo[h].pc \in {"init_publica", "suspended_publica"})
                 + Uno(hilo'[h].pc \in {"init_publica", "suspended_publica"})
           /\ ReadyPorPublicar' = ReadyPorPublicar - Uno(hilo[h].pc = "ready_publica")
                                                   + Uno(hilo'[h].pc = "ready_publica")
<1>1. EntrantesPorPublicar' =
         EntrantesPorPublicar - Uno(hilo[h].pc \in {"init_publica", "suspended_publica"})
                              + Uno(hilo'[h].pc \in {"init_publica", "suspended_publica"})
  BY HilosEnCambia DEF EntrantesPorPublicar
<1>2. ReadyPorPublicar' = ReadyPorPublicar - Uno(hilo[h].pc \in {"ready_publica"})
                                           + Uno(hilo'[h].pc \in {"ready_publica"})
  BY HilosEnCambia DEF ReadyPorPublicar
<1> QED BY <1>1, <1>2 DEF Uno

\* A step that changes no server thread changes neither account.
LEMMA PorPublicarIgual ==
    UNCHANGED hilo => UNCHANGED <<EntrantesPorPublicar, ReadyPorPublicar>>
BY DEF EntrantesPorPublicar, ReadyPorPublicar, HilosEn

LEMMA PorAnunciarIgual ==
    (\A i \in CPUs : hilo_CPU'[i].pc = hilo_CPU[i].pc) => UNCHANGED CPUsPorAnunciar
BY DEF CPUsPorAnunciar, CPUsEn

-----------------------------------------------------------------------------
(* What a step leaves alone.                                               *)

\* The account of hay_estructura_creada does not notice the other queues.
LEMMA EntrantesEstables ==
    ASSUME CuentaEntrantes, LargoPlazoEncuentra, UNCHANGED largo,
           cola'["new"] = cola["new"], cola'["suspended_ready"] = cola["suspended_ready"],
           sem'["hay_estructura_creada"] = sem["hay_estructura_creada"],
           EntrantesPorPublicar' = EntrantesPorPublicar
    PROVE  CuentaEntrantes' /\ LargoPlazoEncuentra'
BY EnManos DEF CuentaEntrantes, LargoPlazoEncuentra, Cuantos

LEMMA ReadyEstable ==
    ASSUME CuentaReady, CortoPlazoEncuentra, UNCHANGED <<largo, corto, CPU_libres>>,
           cola'["ready"] = cola["ready"],
           sem'["cola_ready_con_elementos"] = sem["cola_ready_con_elementos"],
           ReadyPorPublicar' = ReadyPorPublicar
    PROVE  CuentaReady' /\ CortoPlazoEncuentra'
BY EnManos DEF CuentaReady, CortoPlazoEncuentra, Cuantos

LEMMA CPUsEstables ==
    ASSUME CuentaCPUs, CPUExclusiva, UNCHANGED <<corto, CPU_libres>>,
           sem'["grado_multiprocesamiento_libre"] = sem["grado_multiprocesamiento_libre"],
           \A i \in CPUs : /\ hilo_CPU'[i].pc = hilo_CPU[i].pc
                           /\ hilo_CPU'[i].usar = hilo_CPU[i].usar
    PROVE  CuentaCPUs' /\ CPUExclusiva'
<1>1. CuentaCPUs'
  BY EnManos, PorAnunciarIgual, CuantosIguales DEF CuentaCPUs
<1>2. CPUExclusiva'
  BY DEF CPUExclusiva
<1> QED BY <1>1, <1>2

\* What Sigue and Termina do to the table of server threads.
LEMMA SigueCambia ==
    ASSUME TipoHilo, NEW h \in Hilos, NEW paso, Sigue(h, paso)
    PROVE  /\ \A k \in Hilos \ {h} : hilo'[k] = hilo[k]
           /\ hilo'[h].pc = paso /\ hilo'[h].recurso = hilo[h].recurso
           /\ hilo'[h].objetivo = hilo[h].objetivo
BY DEF TipoHilo, Sigue

LEMMA TerminaCambia ==
    ASSUME TipoHilo, NEW h \in Hilos, Termina(h)
    PROVE  (\A k \in Hilos \ {h} : hilo'[k] = hilo[k]) /\ hilo'[h] = HiloLibre
BY DEF TipoHilo, Termina

\* The auxiliary invariants survive a step of a server thread that is running.
LEMMA AuxiliarDeHilo ==
    ASSUME Auxiliar, NEW h \in Hilos, hilo[h].pc # "libre", UNCHANGED suspensor,
           \A k \in Hilos \ {h} : hilo'[k] = hilo[k],
           \/ hilo'[h] = HiloLibre
           \/ /\ hilo'[h].recurso = hilo[h].recurso /\ hilo'[h].objetivo = hilo[h].objetivo
              /\ \/ hilo[h].objetivo \in Carpinchos
                 \/ hilo'[h].pc \in {"bloquea_estado", "bloquea_libera", "cierra_grado"},
           \A c \in Carpinchos : /\ cliente'[c].llamada = cliente[c].llamada
                                 /\ cliente'[c].pc = "fuera" => cliente[c].pc = "fuera"
    PROVE  Auxiliar'
<1> USE DEF Auxiliar
<1>1. SuspensorTieneIndice'
  BY DEF SuspensorTieneIndice
<1>2. HilosConObjetivo'
  <2>1. ASSUME NEW k \in Hilos
        PROVE  \/ hilo'[k].recurso \in Dispositivos
               \/ hilo'[k].pc \in {"io_pide", "io_usa", "despierta", "ready_mueve",
                                   "ready_publica", "suspended_mueve", "suspended_publica"}
               => hilo'[k].objetivo \in Carpinchos
    <3>1. CASE k # h
      BY <3>1 DEF HilosConObjetivo
    <3>2. CASE k = h /\ hilo'[h] = HiloLibre
      BY <3>2, ConstantesValidas DEF HiloLibre, ConstantesValidas
    <3>3. CASE k = h /\ hilo'[h] # HiloLibre
      BY <3>3 DEF HilosConObjetivo
    <3> QED BY <3>1, <3>2, <3>3
  <2> QED BY <2>1 DEF HilosConObjetivo
<1>3. HilosFuturosLibres'
  <2>1. ASSUME NEW c \in Carpinchos, NEW k \in 1 .. MaxLlamadas, k > cliente[c].llamada
        PROVE  hilo'[<<c, k>>].pc = "libre"
    <3>1. hilo[<<c, k>>].pc = "libre"
      BY <2>1 DEF HilosFuturosLibres
    <3>2. <<c, k>> \in Hilos \ {h}
      BY <3>1 DEF Hilos, HilosServidor
    <3> QED BY <3>1, <3>2
  <2> QED BY <2>1 DEF HilosFuturosLibres
<1> QED BY <1>1, <1>2, <1>3
-----------------------------------------------------------------------------
(* The long-term planner.                                                  *)

LEMMA PasoLargo == IInv /\ entrantes_a_ready => IInv'
<1> SUFFICES ASSUME IInv, entrantes_a_ready PROVE IInv'
  OBVIOUS
<1> USE DEF IInv, TypeOK, Auxiliar, cpus, planificadores, recursos, llamadas
<1>a. Numeros
  BY NumerosBien
<1>1. CASE LargoEsperaEstructura
  <2> USE <1>1 DEF LargoEsperaEstructura
  <2>1. TypeOK'
    <3>1. TipoSem'
      BY TipoSemWait DEF Contadores, Colas
    <3>2. TipoPlanificadores'
      BY DEF TipoPlanificadores, PasosLargo
    <3> QED BY <3>1, <3>2 DEF TipoCola, TipoCarpincho, TipoCPU, TipoRecursos, TipoHilo, TipoCliente
  <2>2. Auxiliar'
    BY DEF SuspensorTieneIndice, HilosConObjetivo, HilosFuturosLibres
  <2>3. CuentaEntrantes' /\ LargoPlazoEncuentra'
    <3>1. EntranteDeLargo = 0 /\ EntranteDeLargo' = 1 /\ largo'.pc = "espera_grado"
      BY DEF EntranteDeLargo, Uno, TipoPlanificadores
    <3> QED BY <1>a, <3>1, PorPublicarIgual, CuantosIguales
            DEF Numeros, CuentaEntrantes, LargoPlazoEncuentra, SemWait, TipoSem, Contadores, Colas
  <2>4. CuentaReady' /\ CortoPlazoEncuentra'
    <3>1. ReadyDeLargo' = ReadyDeLargo
      BY DEF ReadyDeLargo, Uno, TipoPlanificadores
    <3> QED BY <3>1, EnManos, PorPublicarIgual, CuantosIguales
            DEF CuentaReady, CortoPlazoEncuentra, SemWait, TipoSem, Contadores, Colas
  <2>5. CuentaCPUs' /\ CPUExclusiva'
    BY EnManos, PorAnunciarIgual, CuantosIguales DEF CuentaCPUs, CPUExclusiva, SemWait, TipoSem, Contadores, Colas
  <2> QED BY <2>1, <2>2, <2>3, <2>4, <2>5
<1>2. CASE LargoEsperaGrado
  <2> USE <1>2 DEF LargoEsperaGrado
  <2>1. TypeOK'
    <3>1. TipoSem'
      BY TipoSemWait DEF Contadores, Colas
    <3>2. TipoPlanificadores'
      BY DEF TipoPlanificadores, PasosLargo
    <3> QED BY <3>1, <3>2 DEF TipoCola, TipoCarpincho, TipoCPU, TipoRecursos, TipoHilo, TipoCliente
  <2>2. Auxiliar'
    BY DEF SuspensorTieneIndice, HilosConObjetivo, HilosFuturosLibres
  <2>3. CuentaEntrantes' /\ LargoPlazoEncuentra'
    <3>1. EntranteDeLargo' = EntranteDeLargo /\ largo'.pc = "mira"
      BY DEF EntranteDeLargo, Uno, TipoPlanificadores
    <3> QED BY <3>1, PorPublicarIgual, CuantosIguales
            DEF CuentaEntrantes, LargoPlazoEncuentra, SemWait, TipoSem, Contadores, Colas
  <2>4. CuentaReady' /\ CortoPlazoEncuentra'
    <3>1. ReadyDeLargo' = ReadyDeLargo
      BY DEF ReadyDeLargo, Uno, TipoPlanificadores
    <3> QED BY <3>1, EnManos, PorPublicarIgual, CuantosIguales
            DEF CuentaReady, CortoPlazoEncuentra, SemWait, TipoSem, Contadores, Colas
  <2>5. CuentaCPUs' /\ CPUExclusiva'
    BY EnManos, PorAnunciarIgual, CuantosIguales DEF CuentaCPUs, CPUExclusiva, SemWait, TipoSem, Contadores, Colas
  <2> QED BY <2>1, <2>2, <2>3, <2>4, <2>5
<1>3. CASE LargoMira
  <2> USE <1>3 DEF LargoMira
  <2>1. TypeOK'
    BY DEF TipoSem, TipoPlanificadores, PasosLargo,
           TipoCola, TipoCarpincho, TipoCPU, TipoRecursos, TipoHilo, TipoCliente
  <2>2. Auxiliar'
    BY DEF SuspensorTieneIndice, HilosConObjetivo, HilosFuturosLibres
  <2>3. CuentaEntrantes' /\ LargoPlazoEncuentra'
    <3>1. EntranteDeLargo = 1 /\ EntranteDeLargo' = 1
      BY DEF EntranteDeLargo, Uno, TipoPlanificadores
    <3>2. Cuantos("new") + Cuantos("suspended_ready") > 0
      BY <1>a, <3>1 DEF Numeros, CuentaEntrantes
    <3>3. cola["suspended_ready"] = << >> => cola["new"] # << >>
      BY <3>2 DEF Cuantos
    <3> QED BY <3>1, <3>3, PorPublicarIgual, CuantosIguales
            DEF CuentaEntrantes, LargoPlazoEncuentra, TipoPlanificadores, Colas
  <2>4. CuentaReady' /\ CortoPlazoEncuentra'
    <3>1. ReadyDeLargo' = ReadyDeLargo
      BY DEF ReadyDeLargo, Uno, TipoPlanificadores
    <3> QED BY <3>1, EnManos, PorPublicarIgual, CuantosIguales DEF CuentaReady, CortoPlazoEncuentra, Colas
  <2>5. CuentaCPUs' /\ CPUExclusiva'
    BY EnManos, PorAnunciarIgual, CuantosIguales DEF CuentaCPUs, CPUExclusiva
  <2> QED BY <2>1, <2>2, <2>3, <2>4, <2>5
<1>4. ASSUME NEW paso \in {"de_suspended_ready", "de_new"},
             NEW q \in {"suspended_ready", "new"}, LargoAdmite(paso, q),
             paso = "de_new" <=> q = "new"
      PROVE  IInv'
  <2> USE <1>4 DEF LargoAdmite
  <2>1. cola[q] # << >> /\ q \in Colas \ {"ready"}
    BY DEF LargoPlazoEncuentra, Colas
  <2>2. TipoCola' /\ Head(cola[q]) \in Carpinchos
    BY <2>1, TipoAdmiteDe
  <2>3. /\ Cuantos("ready")' = Cuantos("ready") + 1
        /\ Cuantos(q)' = Cuantos(q) - 1
        /\ \A p \in Colas \ {q, "ready"} : cola'[p] = cola[p]
        /\ cola'["ready"] = Append(cola["ready"], Head(cola[q]))
    BY <2>1, AdmiteCuenta
  <2>4. TypeOK'
    <3>1. TipoPlanificadores'
      BY <2>2 DEF TipoPlanificadores, PasosLargo
    <3> QED BY <2>2, <3>1 DEF TipoSem, TipoCarpincho, TipoCPU, TipoRecursos, TipoHilo, TipoCliente
  <2>5. Auxiliar'
    BY DEF SuspensorTieneIndice, HilosConObjetivo, HilosFuturosLibres
  <2>6. CuentaEntrantes' /\ LargoPlazoEncuentra'
    <3>1. EntranteDeLargo = 1 /\ EntranteDeLargo' = 0 /\ largo'.pc = "publica"
      BY DEF EntranteDeLargo, Uno
    <3>2. Cuantos("new")' + Cuantos("suspended_ready")' =
             Cuantos("new") + Cuantos("suspended_ready") - 1
      <4>1. CASE q = "new"
        <5>1. Cuantos("new")' = Cuantos("new") - 1
          BY <2>3, <4>1
        <5>2. Cuantos("suspended_ready")' = Cuantos("suspended_ready")
          BY <2>3, <4>1, CuantosIguales DEF Colas
        <5> QED BY <1>a, <5>1, <5>2 DEF Numeros
      <4>2. CASE q = "suspended_ready"
        <5>1. Cuantos("suspended_ready")' = Cuantos("suspended_ready") - 1
          BY <2>3, <4>2
        <5>2. Cuantos("new")' = Cuantos("new")
          BY <2>3, <4>2, CuantosIguales DEF Colas
        <5> QED BY <1>a, <5>1, <5>2 DEF Numeros
      <4> QED BY <4>1, <4>2
    <3>3. Numeros'
      BY <2>4, NumerosBien, PTL DEF TypeOK
    <3>4. CuentaEntrantes'
      <4>1. /\ sem'["hay_estructura_creada"] = sem["hay_estructura_creada"]
            /\ EntrantesPorPublicar' = EntrantesPorPublicar
        BY PorPublicarIgual
      <4>2. Cuantos("new") + Cuantos("suspended_ready") =
               sem["hay_estructura_creada"] + 1 + EntrantesPorPublicar
        BY <3>1 DEF CuentaEntrantes
      <4>3. Cuantos("new")' + Cuantos("suspended_ready")' =
               sem["hay_estructura_creada"] + EntrantesPorPublicar
        BY <1>a, <3>2, <4>2 DEF Numeros
      <4> QED BY <1>a, <3>1, <4>1, <4>3 DEF Numeros, CuentaEntrantes
    <3> QED BY <3>1, <3>4 DEF LargoPlazoEncuentra
  <2>7. CuentaReady' /\ CortoPlazoEncuentra'
    <3>1. ReadyDeLargo = 0 /\ ReadyDeLargo' = 1
      BY DEF ReadyDeLargo, Uno
    <3>2. CuentaReady'
      BY <1>a, <2>3, <3>1, EnManos, PorPublicarIgual DEF Numeros, CuentaReady
    <3>3. cola'["ready"] # << >> /\ Range(cola["ready"]) \subseteq Range(cola'["ready"])
      <4>1. cola["ready"] \in Seq(Carpinchos)
        BY DEF TipoCola, Colas
      <4> QED BY <2>2, <2>3, <4>1, AppendEs
    <3> QED BY <3>2, <3>3 DEF CortoPlazoEncuentra
  <2>8. CuentaCPUs' /\ CPUExclusiva'
    BY EnManos, PorAnunciarIgual, CuantosIguales DEF CuentaCPUs, CPUExclusiva
  <2> QED BY <2>4, <2>5, <2>6, <2>7, <2>8
<1>5. CASE LargoPublica
  <2> USE <1>5 DEF LargoPublica
  <2>1. TypeOK'
    <3>1. TipoSem'
      BY TipoSemPost DEF Contadores
    <3>2. TipoCarpincho'
      BY TipoPonEstado DEF Estados
    <3>3. TipoPlanificadores'
      BY DEF TipoPlanificadores, PasosLargo
    <3> QED BY <3>1, <3>2, <3>3 DEF TipoCola, TipoCPU, TipoRecursos, TipoHilo, TipoCliente
  <2>2. Auxiliar'
    BY DEF SuspensorTieneIndice, HilosConObjetivo, HilosFuturosLibres
  <2>3. CuentaEntrantes' /\ LargoPlazoEncuentra'
    <3>1. EntranteDeLargo' = EntranteDeLargo /\ largo'.pc = "espera_estructura"
      BY DEF EntranteDeLargo, Uno
    <3> QED BY <3>1, PorPublicarIgual, CuantosIguales
            DEF CuentaEntrantes, LargoPlazoEncuentra, SemPost, TipoSem, Contadores, Colas
  <2>4. CuentaReady' /\ CortoPlazoEncuentra'
    <3>1. ReadyDeLargo = 1 /\ ReadyDeLargo' = 0
      BY DEF ReadyDeLargo, Uno
    <3>2. sem'["cola_ready_con_elementos"] = sem["cola_ready_con_elementos"] + 1
      BY DEF SemPost, TipoSem, Contadores
    <3> QED BY <1>a, <3>1, <3>2, EnManos, PorPublicarIgual, CuantosIguales
            DEF Numeros, CuentaReady, CortoPlazoEncuentra, Colas
  <2>5. CuentaCPUs' /\ CPUExclusiva'
    BY EnManos, PorAnunciarIgual, CuantosIguales
       DEF CuentaCPUs, CPUExclusiva, SemPost, TipoSem, Contadores
  <2> QED BY <2>1, <2>2, <2>3, <2>4, <2>5
<1> QED
  BY <1>1, <1>2, <1>3, <1>4, <1>5
     DEF entrantes_a_ready, LargoDeSuspendedReady, LargoDeNew

-----------------------------------------------------------------------------
(* The short-term planner.                                                 *)

LEMMA PasoCorto == IInv /\ ready_a_exec => IInv'
<1> SUFFICES ASSUME IInv, ready_a_exec PROVE IInv'
  OBVIOUS
<1> USE DEF IInv, TypeOK, Auxiliar, cpus, planificadores, recursos, llamadas
<1>a. Numeros
  BY NumerosBien
<1>1. CASE CortoEsperaReady
  <2> USE <1>1 DEF CortoEsperaReady
  <2>1. TypeOK'
    <3>1. TipoSem'
      BY TipoSemWait DEF Contadores
    <3>2. TipoPlanificadores'
      BY DEF TipoPlanificadores, PasosCorto
    <3> QED BY <3>1, <3>2 DEF TipoCola, TipoCarpincho, TipoCPU, TipoRecursos, TipoHilo, TipoCliente
  <2>2. Auxiliar'
    BY DEF SuspensorTieneIndice, HilosConObjetivo, HilosFuturosLibres
  <2>3. CuentaEntrantes' /\ LargoPlazoEncuentra'
    BY EnManos, PorPublicarIgual, CuantosIguales
       DEF CuentaEntrantes, LargoPlazoEncuentra, SemWait, TipoSem, Contadores, Colas
  <2>4. CuentaReady' /\ CortoPlazoEncuentra'
    <3>1. ReadyDeCorto = 0 /\ ReadyDeCorto' = 1 /\ corto'.pc = "espera_cpu"
      BY DEF ReadyDeCorto, Uno, TipoPlanificadores
    <3>2. sem'["cola_ready_con_elementos"] = sem["cola_ready_con_elementos"] - 1
      BY DEF SemWait, TipoSem, Contadores
    <3> QED BY <1>a, <3>1, <3>2, EnManos, PorPublicarIgual, CuantosIguales
            DEF Numeros, CuentaReady, CortoPlazoEncuentra, Colas
  <2>5. CuentaCPUs' /\ CPUExclusiva'
    <3>1. CPUDeCorto' = CPUDeCorto
      BY DEF CPUDeCorto, Uno, TipoPlanificadores
    <3> QED BY <3>1, PorAnunciarIgual, CuantosIguales
            DEF CuentaCPUs, CPUExclusiva, SemWait, TipoSem, Contadores
  <2> QED BY <2>1, <2>2, <2>3, <2>4, <2>5
<1>2. CASE CortoEsperaCPU
  <2> USE <1>2 DEF CortoEsperaCPU
  <2>1. TypeOK'
    <3>1. TipoSem'
      BY TipoSemWait DEF Contadores
    <3>2. TipoPlanificadores'
      BY DEF TipoPlanificadores, PasosCorto
    <3> QED BY <3>1, <3>2 DEF TipoCola, TipoCarpincho, TipoCPU, TipoRecursos, TipoHilo, TipoCliente
  <2>2. Auxiliar'
    BY DEF SuspensorTieneIndice, HilosConObjetivo, HilosFuturosLibres
  <2>3. CuentaEntrantes' /\ LargoPlazoEncuentra'
    BY EnManos, PorPublicarIgual, CuantosIguales
       DEF CuentaEntrantes, LargoPlazoEncuentra, SemWait, TipoSem, Contadores, Colas
  <2>4. sem'["grado_multiprocesamiento_libre"] = sem["grado_multiprocesamiento_libre"] - 1
    BY DEF SemWait, TipoSem, Contadores
  <2>5. CuentaCPUs' /\ CPUExclusiva'
    <3>1. CPUDeCorto = 0 /\ CPUDeCorto' = 1
      BY DEF CPUDeCorto, Uno, TipoPlanificadores
    <3> QED BY <1>a, <2>4, <3>1, PorAnunciarIgual, CuantosIguales
            DEF Numeros, CuentaCPUs, CPUExclusiva
  <2>6. CuentaReady' /\ CortoPlazoEncuentra'
    <3>1. ReadyDeCorto = 1 /\ ReadyDeCorto' = 1 /\ corto'.pc = "elige"
      BY DEF ReadyDeCorto, Uno, TipoPlanificadores
    <3>2. CuentaReady'
      BY <3>1, EnManos, PorPublicarIgual, CuantosIguales
         DEF CuentaReady, SemWait, TipoSem, Contadores, Colas
    <3>3. Cuantos("ready") > 0
      BY <1>a, <3>1, EnManos DEF Numeros, CuentaReady
    <3>4. CuantasCPUs > 0
      <4>1. sem["grado_multiprocesamiento_libre"] > 0
        BY DEF SemWait
      <4> QED BY <1>a, <4>1, EnManos DEF Numeros, CuentaCPUs
    <3>5. cola["ready"] # << >> /\ CPU_libres # << >>
      BY <3>3, <3>4 DEF Cuantos, CuantasCPUs
    <3> QED BY <3>1, <3>2, <3>5 DEF CortoPlazoEncuentra
  <2> QED BY <2>1, <2>2, <2>3, <2>5, <2>6
<1>3. ASSUME NEW c \in Carpinchos, CortoElige(c) PROVE IInv'
  <2> USE <1>3 DEF CortoElige
  <2> DEFINE i == Head(CPU_libres)
  <2>1. CPU_libres # << >> /\ CPU_libres \in Seq(CPUs)
    BY DEF CortoPlazoEncuentra, TipoCPU
  <2>2. /\ i \in CPUs /\ Tail(CPU_libres) \in Seq(CPUs)
        /\ Len(Tail(CPU_libres)) = Len(CPU_libres) - 1
        /\ Range(CPU_libres) = Range(Tail(CPU_libres)) \cup {i}
        /\ IsInjective(Tail(CPU_libres)) /\ i \notin Range(Tail(CPU_libres))
    BY <2>1, TailEs DEF CPUExclusiva
  <2>3. /\ CPU_libres' = Tail(CPU_libres)
        /\ carpincho' = [carpincho EXCEPT ![c].CPU_en_uso = i]
        /\ hilo_CPU' = [hilo_CPU EXCEPT ![i].usar = @ + 1]
    BY DEF AsignarHiloCPU
  <2> HIDE DEF i
  <2>4. /\ \A j \in CPUs : hilo_CPU'[j].pc = hilo_CPU[j].pc
        /\ \A j \in CPUs \ {i} : hilo_CPU'[j].usar = hilo_CPU[j].usar
        /\ hilo_CPU'[i].usar = hilo_CPU[i].usar + 1
    BY <2>2, <2>3 DEF TipoCPU
  <2>5. TypeOK'
    <3>1. TipoCarpincho'
      BY <2>2, <2>3 DEF TipoCarpincho
    <3>2. TipoCPU'
      <4>1. hilo_CPU[i].usar + 1 \in Nat
        BY <2>2 DEF TipoCPU
      <4>2. hilo_CPU' = [hilo_CPU EXCEPT ![i] = [@ EXCEPT !.usar = hilo_CPU[i].usar + 1]]
        BY <2>3
      <4> QED BY <2>2, <2>3, <4>1, <4>2 DEF TipoCPU
    <3>3. TipoPlanificadores'
      BY DEF TipoPlanificadores, PasosCorto
    <3> QED BY <3>1, <3>2, <3>3 DEF TipoCola, TipoSem, TipoRecursos, TipoHilo, TipoCliente
  <2>6. Auxiliar'
    BY DEF SuspensorTieneIndice, HilosConObjetivo, HilosFuturosLibres
  <2>7. CuentaEntrantes' /\ LargoPlazoEncuentra'
    BY EnManos, PorPublicarIgual, CuantosIguales DEF CuentaEntrantes, LargoPlazoEncuentra, Colas
  <2>8. CuentaReady' /\ CortoPlazoEncuentra'
    <3>1. ReadyDeCorto = 1 /\ ReadyDeCorto' = 1
      BY DEF ReadyDeCorto, Uno
    <3> QED BY <3>1, EnManos, PorPublicarIgual, CuantosIguales
            DEF CuentaReady, CortoPlazoEncuentra, Colas
  <2>9. CuentaCPUs'
    <3>1. CPUDeCorto = 1 /\ CPUDeCorto' = 0
      BY DEF CPUDeCorto, Uno
    <3>2. CuantasCPUs' = CuantasCPUs - 1
      BY <2>2, <2>3 DEF CuantasCPUs
    <3> QED BY <1>a, <2>4, <3>1, <3>2, PorAnunciarIgual DEF Numeros, CuentaCPUs
  <2>10. CPUExclusiva'
    <3>1. ASSUME NEW j \in CPUs
          PROVE  Uno(j \in Range(CPU_libres))' + hilo_CPU'[j].usar
                     + Uno(hilo_CPU[j].pc \in {"espera_libre", "espera_liberar"})' = 1
      <4>1. /\ Uno(j \in Range(CPU_libres)) + hilo_CPU[j].usar
                   + Uno(hilo_CPU[j].pc \in {"espera_libre", "espera_liberar"}) = 1
            /\ hilo_CPU[j].usar \in Nat
        BY DEF CPUExclusiva, TipoCPU
      <4>2. Uno(hilo_CPU[j].pc \in {"espera_libre", "espera_liberar"})' =
               Uno(hilo_CPU[j].pc \in {"espera_libre", "espera_liberar"})
        BY <2>4
      <4>3. CASE j = i
        <5>1. Uno(j \in Range(CPU_libres)) = 1 /\ Uno(j \in Range(CPU_libres))' = 0
          BY <2>2, <2>3, <4>3 DEF Uno
        <5> QED BY <2>4, <4>1, <4>2, <4>3, <5>1 DEF Uno
      <4>4. CASE j # i
        <5>1. Uno(j \in Range(CPU_libres))' = Uno(j \in Range(CPU_libres))
          BY <2>2, <2>3, <4>4 DEF Uno
        <5> QED BY <2>4, <4>1, <4>2, <4>4, <5>1
      <4> QED BY <4>3, <4>4
    <3> QED BY <2>2, <2>3, <3>1 DEF CPUExclusiva
  <2> QED BY <2>5, <2>6, <2>7, <2>8, <2>9, <2>10
<1>4. CASE CortoMueve
  <2> USE <1>4 DEF CortoMueve
  <2> DEFINE c == corto.carpincho
  <2>1. c \in Carpinchos /\ c \in Range(cola["ready"])
    <3>1. c \in Range(cola["ready"])
      BY DEF CortoPlazoEncuentra
    <3>2. cola["ready"] \in Seq(Carpinchos)
      BY DEF TipoCola, Colas
    <3> QED BY <3>1, <3>2 DEF Range
  <2>2. TipoCola'
    BY <2>1, TipoMueve DEF Colas
  <2>3. /\ Cuantos("ready")' = Cuantos("ready") - 1
        /\ \A q \in Colas \ {"ready", "exec"} : cola'[q] = cola[q]
    BY <2>1, MueveCuenta DEF Colas
  <2>4. TypeOK'
    <3>1. TipoPlanificadores'
      BY DEF TipoPlanificadores, PasosCorto
    <3> QED BY <2>2, <3>1 DEF TipoSem, TipoCarpincho, TipoCPU, TipoRecursos, TipoHilo, TipoCliente
  <2>5. Auxiliar'
    BY DEF SuspensorTieneIndice, HilosConObjetivo, HilosFuturosLibres
  <2>6. CuentaEntrantes' /\ LargoPlazoEncuentra'
    BY <2>3, EnManos, PorPublicarIgual, CuantosIguales
       DEF CuentaEntrantes, LargoPlazoEncuentra, Colas
  <2>7. CuentaReady' /\ CortoPlazoEncuentra'
    <3>1. ReadyDeCorto = 1 /\ ReadyDeCorto' = 0 /\ corto'.pc = "estado"
      BY DEF ReadyDeCorto, Uno, TipoPlanificadores
    <3> QED BY <1>a, <2>3, <3>1, EnManos, PorPublicarIgual
            DEF Numeros, CuentaReady, CortoPlazoEncuentra
  <2>8. CuentaCPUs' /\ CPUExclusiva'
    <3>1. CPUDeCorto' = CPUDeCorto
      BY DEF CPUDeCorto, Uno, TipoPlanificadores
    <3> QED BY <3>1, PorAnunciarIgual, CuantosIguales DEF CuentaCPUs, CPUExclusiva
  <2> QED BY <2>4, <2>5, <2>6, <2>7, <2>8
<1>5. CASE CortoEstado
  <2> USE <1>5 DEF CortoEstado
  <2>1. TypeOK'
    <3>1. TipoCarpincho'
      BY TipoPonEstado DEF Estados
    <3>2. TipoPlanificadores'
      BY DEF TipoPlanificadores, PasosCorto
    <3> QED BY <3>1, <3>2 DEF TipoCola, TipoSem, TipoCPU, TipoRecursos, TipoHilo, TipoCliente
  <2>2. Auxiliar'
    BY DEF SuspensorTieneIndice, HilosConObjetivo, HilosFuturosLibres
  <2>3. CuentaEntrantes' /\ LargoPlazoEncuentra'
    BY EnManos, PorPublicarIgual, CuantosIguales DEF CuentaEntrantes, LargoPlazoEncuentra, Colas
  <2>4. ReadyDeCorto' = ReadyDeCorto /\ CPUDeCorto' = CPUDeCorto /\ corto'.pc = "responde"
    BY DEF ReadyDeCorto, CPUDeCorto, Uno, TipoPlanificadores
  <2>5. CuentaReady' /\ CortoPlazoEncuentra'
    BY <2>4, EnManos, PorPublicarIgual, CuantosIguales
       DEF CuentaReady, CortoPlazoEncuentra, Colas
  <2>6. CuentaCPUs' /\ CPUExclusiva'
    BY <2>4, PorAnunciarIgual, CuantosIguales DEF CuentaCPUs, CPUExclusiva
  <2> QED BY <2>1, <2>2, <2>3, <2>5, <2>6
<1>6. CASE CortoResponde
  <2> USE <1>6 DEF CortoResponde
  <2>1. TipoSem' /\ \A s \in Contadores \ {"procesamiento_lleno"} : sem'[s] = sem[s]
    <3>1. CASE SemPost("procesamiento_lleno")
      BY <3>1, TipoSemPost DEF SemPost, TipoSem, Contadores
    <3>2. CASE UNCHANGED sem
      BY <3>2 DEF TipoSem
    <3> QED BY <3>1, <3>2
  <2>2. TypeOK'
    <3>1. TipoCliente'
      BY TipoContesta
    <3>2. TipoPlanificadores'
      BY DEF TipoPlanificadores, PasosCorto
    <3> QED BY <2>1, <3>1, <3>2 DEF TipoCola, TipoCarpincho, TipoCPU, TipoRecursos, TipoHilo
  <2>3. Auxiliar'
    <3>1. HilosFuturosLibres'
      BY DEF HilosFuturosLibres, Contesta, TipoCliente
    <3> QED BY <3>1 DEF SuspensorTieneIndice, HilosConObjetivo
  <2>4. CuentaEntrantes' /\ LargoPlazoEncuentra'
    BY <2>1, EnManos, PorPublicarIgual, CuantosIguales
       DEF CuentaEntrantes, LargoPlazoEncuentra, Colas, Contadores
  <2>5. ReadyDeCorto' = ReadyDeCorto /\ CPUDeCorto' = CPUDeCorto /\ corto'.pc = "espera_ready"
    BY DEF ReadyDeCorto, CPUDeCorto, Uno
  <2>6. CuentaReady' /\ CortoPlazoEncuentra'
    BY <2>1, <2>5, EnManos, PorPublicarIgual, CuantosIguales
       DEF CuentaReady, CortoPlazoEncuentra, Colas, Contadores
  <2>7. CuentaCPUs' /\ CPUExclusiva'
    BY <2>1, <2>5, PorAnunciarIgual, CuantosIguales DEF CuentaCPUs, CPUExclusiva, Contadores
  <2> QED BY <2>2, <2>3, <2>4, <2>6, <2>7
<1> QED BY <1>1, <1>2, <1>3, <1>4, <1>5, <1>6 DEF ready_a_exec

-----------------------------------------------------------------------------
(* The medium-term planner.                                                *)

LEMMA PasoSuspensor == IInv /\ suspender => IInv'
<1> SUFFICES ASSUME IInv, suspender PROVE IInv'
  OBVIOUS
<1> USE DEF IInv, TypeOK, Auxiliar, cpus, planificadores, recursos, llamadas
<1>1. ASSUME suspensor'.pc = "mueve" => suspensor'.long_blocked > 0,
             suspensor'.pc \notin {"estado", "libera"},
             UNCHANGED <<cola, carpincho, cpus, largo, corto, recursos, llamadas, kernel_vivo>>,
             \A s \in Contadores \ {"procesamiento_lleno", "grado_multiprogramacion_libre"} :
                 sem'[s] = sem[s],
             TipoSem', TipoPlanificadores'
      PROVE  IInv'
  <2> USE <1>1
  <2>1. TypeOK'
    BY DEF TipoCola, TipoCarpincho, TipoCPU, TipoRecursos, TipoHilo, TipoCliente
  <2>2. Auxiliar'
    BY DEF SuspensorTieneIndice, HilosConObjetivo, HilosFuturosLibres
  <2>3. CuentaEntrantes' /\ LargoPlazoEncuentra'
    BY EntrantesEstables, PorPublicarIgual DEF Contadores
  <2>4. CuentaReady' /\ CortoPlazoEncuentra'
    BY ReadyEstable, PorPublicarIgual DEF Contadores
  <2>5. CuentaCPUs' /\ CPUExclusiva'
    BY CPUsEstables DEF Contadores
  <2> QED BY <2>1, <2>2, <2>3, <2>4, <2>5
<1>2. CASE SuspensorEspera
  <2> USE <1>2 DEF SuspensorEspera
  <2>1. TipoSem'
    BY TipoSemWait DEF Contadores
  <2>2. TipoPlanificadores'
    BY DEF TipoPlanificadores, PasosSuspensor
  <2>3. \A s \in Contadores \ {"procesamiento_lleno", "grado_multiprogramacion_libre"} :
           sem'[s] = sem[s]
    BY DEF SemWait, TipoSem
  <2>4. suspensor'.pc = "lee_entrantes"
    BY DEF TipoPlanificadores
  <2> QED BY <1>1, <2>1, <2>2, <2>3, <2>4
<1>3. ASSUME suspensor'.pc \in {"lee_ready", "lee_blocked", "mueve", "espera"},
             suspensor'.pc = "mueve" => suspensor'.long_blocked > 0, TipoPlanificadores',
             UNCHANGED <<cola, sem, carpincho, cpus, largo, corto, recursos, llamadas,
                         kernel_vivo>>
      PROVE  IInv'
  <2>1. TipoSem'
    BY <1>3 DEF TipoSem
  <2> QED BY <1>1, <1>3, <2>1
<1>4. CASE SuspensorLeeEntrantes
  <2> USE <1>4 DEF SuspensorLeeEntrantes, SuspensorLee
  <2>1. TipoPlanificadores' /\ suspensor'.pc \in {"lee_ready", "espera"}
    BY DEF TipoPlanificadores, PasosSuspensor
  <2> QED BY <1>3, <2>1
<1>5. CASE SuspensorLeeReady
  <2> USE <1>5 DEF SuspensorLeeReady, SuspensorLee
  <2>1. TipoPlanificadores' /\ suspensor'.pc \in {"lee_blocked", "espera"}
    BY DEF TipoPlanificadores, PasosSuspensor
  <2> QED BY <1>3, <2>1
<1>6. CASE SuspensorLeeBlocked
  <2> USE <1>6 DEF SuspensorLeeBlocked, SuspensorLee
  <2>1. Len(cola["blocked"]) \in Nat
    BY DEF TipoCola, Colas
  <2>2. TipoPlanificadores' /\ suspensor'.pc \in {"mueve", "espera"}
    BY <2>1 DEF TipoPlanificadores, PasosSuspensor
  <2>3. suspensor'.pc = "mueve" => suspensor'.long_blocked > 0
    BY DEF TipoPlanificadores
  <2> QED BY <1>3, <2>2, <2>3
<1>7. CASE SuspensorMueve
  <2> USE <1>7 DEF SuspensorMueve
  <2> DEFINE n == suspensor.long_blocked
             c == cola["blocked"][n]
  <2>1. CASE n <= Len(cola["blocked"])
    <3> USE <2>1
    <3>1. cola["blocked"] \in Seq(Carpinchos) /\ n \in 1 .. Len(cola["blocked"])
      BY DEF TipoCola, Colas, TipoPlanificadores, SuspensorTieneIndice
    <3>2. c \in Carpinchos /\ RemoveAt(cola["blocked"], n) \in Seq(Carpinchos)
      BY <3>1, RemoveAtEs
    <3>3. Append(cola["suspended_blocked"], c) \in Seq(Carpinchos)
      BY <3>2 DEF TipoCola, Colas
    <3>4. /\ cola' = [cola EXCEPT !["suspended_blocked"] = Append(@, c),
                                  !["blocked"] = RemoveAt(@, n)]
          /\ suspensor' = [suspensor EXCEPT !.pc = "estado", !.carpincho = c]
          /\ UNCHANGED kernel_vivo
      BY <3>1 DEF TipoPlanificadores
    <3> HIDE DEF c, n
    <3>5. TipoCola' /\ cola' \in [Colas -> Seq(Carpinchos)]
      BY <3>2, <3>3, <3>4 DEF TipoCola
    <3>6. \A q \in {"new", "ready", "suspended_ready"} : cola'[q] = cola[q]
      BY <3>4 DEF TipoCola, Colas
    <3>7. TypeOK'
      <4>1. TipoPlanificadores'
        BY <3>2, <3>4 DEF TipoPlanificadores, PasosSuspensor
      <4> QED BY <3>4, <3>5, <4>1 DEF TipoSem, TipoCarpincho, TipoCPU, TipoRecursos, TipoHilo, TipoCliente
    <3>8. Auxiliar'
      <4>1. suspensor'.pc = "estado" /\ suspensor'.carpincho = c
        BY <3>4 DEF TipoPlanificadores
      <4>2. SuspensorTieneIndice'
        BY <3>2, <4>1 DEF SuspensorTieneIndice
      <4> QED BY <4>2 DEF HilosConObjetivo, HilosFuturosLibres
    <3>9. CuentaEntrantes' /\ LargoPlazoEncuentra'
      BY <3>6, EntrantesEstables, PorPublicarIgual
    <3>10. CuentaReady' /\ CortoPlazoEncuentra'
      BY <3>6, ReadyEstable, PorPublicarIgual
    <3>11. CuentaCPUs' /\ CPUExclusiva'
      BY CPUsEstables
    <3> QED BY <3>7, <3>8, <3>9, <3>10, <3>11
  <2>2. CASE ~(n <= Len(cola["blocked"]))
    <3>1. UNCHANGED <<cola, suspensor>> /\ kernel_vivo' = FALSE
      BY <2>2
    <3>2. TypeOK'
      BY <3>1 DEF TipoCola, TipoSem, TipoCarpincho, TipoCPU, TipoPlanificadores, TipoRecursos, TipoHilo, TipoCliente
    <3>3. Auxiliar'
      BY <3>1 DEF SuspensorTieneIndice, HilosConObjetivo, HilosFuturosLibres
    <3>4. CuentaEntrantes' /\ LargoPlazoEncuentra'
      BY <3>1, EntrantesEstables, PorPublicarIgual
    <3>5. CuentaReady' /\ CortoPlazoEncuentra'
      BY <3>1, ReadyEstable, PorPublicarIgual
    <3>6. CuentaCPUs' /\ CPUExclusiva'
      BY CPUsEstables
    <3> QED BY <3>2, <3>3, <3>4, <3>5, <3>6
  <2> QED BY <2>1, <2>2
<1>8. ASSUME suspensor.pc \in {"estado", "libera"}, suspensor'.pc \in {"libera", "devuelve"},
             suspensor'.carpincho = suspensor.carpincho, TipoPlanificadores',
             TipoCarpincho', TipoCPU',
             \A i \in CPUs : /\ hilo_CPU'[i].pc = hilo_CPU[i].pc
                             /\ hilo_CPU'[i].usar = hilo_CPU[i].usar,
             UNCHANGED <<cola, sem, CPU_libres, largo, corto, recursos, llamadas, kernel_vivo>>
      PROVE  IInv'
  <2> USE <1>8
  <2>1. TypeOK'
    BY DEF TipoCola, TipoSem, TipoRecursos, TipoHilo, TipoCliente
  <2>2. Auxiliar'
    BY DEF SuspensorTieneIndice, HilosConObjetivo, HilosFuturosLibres
  <2>3. CuentaEntrantes' /\ LargoPlazoEncuentra'
    BY EntrantesEstables, PorPublicarIgual
  <2>4. CuentaReady' /\ CortoPlazoEncuentra'
    BY ReadyEstable, PorPublicarIgual
  <2>5. CuentaCPUs' /\ CPUExclusiva'
    BY CPUsEstables
  <2> QED BY <2>1, <2>2, <2>3, <2>4, <2>5
<1>9. CASE SuspensorEstado
  <2> USE <1>9 DEF SuspensorEstado
  <2>1. TipoCarpincho'
    BY TipoPonEstado DEF Estados
  <2>2. TipoPlanificadores' /\ suspensor'.pc = "libera" /\ suspensor'.carpincho = suspensor.carpincho
    BY DEF TipoPlanificadores, PasosSuspensor
  <2>3. TipoCPU'
    BY DEF TipoCPU
  <2> QED BY <1>8, <2>1, <2>2, <2>3
<1>10. CASE SuspensorLibera
  <2> USE <1>10 DEF SuspensorLibera
  <2> DEFINE i == carpincho[suspensor.carpincho].CPU_en_uso
  <2>1. TipoCarpincho'
    BY DEF TipoCarpincho
  <2>2. TipoPlanificadores' /\ suspensor'.pc = "devuelve" /\ suspensor'.carpincho = suspensor.carpincho
    BY DEF TipoPlanificadores, PasosSuspensor
  <2>3. i \in CPUs \cup {SinCPU}
    BY DEF TipoCarpincho, SuspensorTieneIndice
  <2> HIDE DEF i
  <2>4. PostLiberar(i)
    BY DEF i
  <2>5. /\ TipoCPU'
        /\ \A j \in CPUs : /\ hilo_CPU'[j].pc = hilo_CPU[j].pc
                           /\ hilo_CPU'[j].usar = hilo_CPU[j].usar
    BY <2>3, <2>4, TipoPostLiberar
  <2> QED BY <1>8, <2>1, <2>2, <2>5
<1>11. CASE SuspensorDevuelve
  <2> USE <1>11 DEF SuspensorDevuelve
  <2>1. TipoSem'
    BY TipoSemPost DEF Contadores
  <2>2. TipoPlanificadores' /\ suspensor'.pc = "espera"
    BY DEF TipoPlanificadores, PasosSuspensor
  <2>3. \A s \in Contadores \ {"procesamiento_lleno", "grado_multiprogramacion_libre"} :
           sem'[s] = sem[s]
    BY DEF SemPost, TipoSem
  <2> QED BY <1>1, <2>1, <2>2, <2>3
<1> QED
  BY <1>2, <1>4, <1>5, <1>6, <1>7, <1>9, <1>10, <1>11 DEF suspender

-----------------------------------------------------------------------------
(* The CPU threads.                                                        *)

\* A step of the thread of CPU i changes its own term of CPUsPorAnunciar.
LEMMA PorAnunciarCambia ==
    ASSUME NEW i \in CPUs, \A j \in CPUs \ {i} : hilo_CPU'[j].pc = hilo_CPU[j].pc
    PROVE  CPUsPorAnunciar' = CPUsPorAnunciar - Uno(hilo_CPU[i].pc = "espera_mutex")
                                              + Uno(hilo_CPU'[i].pc = "espera_mutex")
<1> DEFINE A == CPUsEn({"espera_mutex"})
           B == CPUsEn({"espera_mutex"})'
<1>1. A \in SUBSET CPUs /\ B \in SUBSET CPUs /\ A \ {i} = B \ {i}
  BY DEF CPUsEn
<1>2. (i \in A <=> hilo_CPU[i].pc = "espera_mutex")
      /\ (i \in B <=> hilo_CPU'[i].pc = "espera_mutex")
  BY DEF CPUsEn
<1>3. IsFiniteSet(CPUs)
  BY ConstantesValidas, FS_Interval DEF ConstantesValidas, CPUs
<1> HIDE DEF A, B
<1>4. Cardinality(B) = Cardinality(A) - Uno(i \in A) + Uno(i \in B)
  BY <1>1, <1>3, CuentaSalvoUno
<1>5. Uno(i \in A) = Uno(hilo_CPU[i].pc = "espera_mutex")
      /\ Uno(i \in B) = Uno(hilo_CPU'[i].pc = "espera_mutex")
  BY <1>2 DEF Uno
<1> QED BY <1>4, <1>5 DEF A, B, CPUsPorAnunciar

LEMMA PasoCPU == ASSUME NEW i \in CPUs PROVE IInv /\ ejecuta(i) => IInv'
<1> SUFFICES ASSUME IInv, ejecuta(i) PROVE IInv'
  OBVIOUS
<1> USE DEF IInv, TypeOK, Auxiliar, cpus, planificadores, recursos, llamadas
<1>a. Numeros
  BY NumerosBien
<1>b. /\ Uno(i \in Range(CPU_libres)) + hilo_CPU[i].usar
             + Uno(hilo_CPU[i].pc \in {"espera_libre", "espera_liberar"}) = 1
      /\ hilo_CPU[i].usar \in Nat
  BY DEF CPUExclusiva, TipoCPU
<1>1. ASSUME UNCHANGED <<cola, carpincho, planificadores, recursos, llamadas, kernel_vivo>>,
             TipoSem', TipoCPU',
             \A s \in Contadores \ {"grado_multiprocesamiento_libre"} : sem'[s] = sem[s],
             CPU_libres # << >> => CPU_libres' # << >>,
             \A j \in CPUs \ {i} : hilo_CPU'[j] = hilo_CPU[j],
             CuantasCPUs' - sem'["grado_multiprocesamiento_libre"]
                 - Uno(hilo_CPU'[i].pc = "espera_mutex") =
             CuantasCPUs - sem["grado_multiprocesamiento_libre"]
                 - Uno(hilo_CPU[i].pc = "espera_mutex"),
             IsInjective(CPU_libres'),
             \A j \in CPUs \ {i} : j \in Range(CPU_libres') <=> j \in Range(CPU_libres),
             Uno(i \in Range(CPU_libres')) + hilo_CPU'[i].usar
                 + Uno(hilo_CPU'[i].pc \in {"espera_libre", "espera_liberar"}) = 1
      PROVE  IInv'
  <2> USE <1>1
  <2>1. TypeOK'
    BY DEF TipoCola, TipoCarpincho, TipoPlanificadores, TipoRecursos, TipoHilo, TipoCliente
  <2>2. Auxiliar'
    BY DEF SuspensorTieneIndice, HilosConObjetivo, HilosFuturosLibres
  <2>3. CuentaEntrantes' /\ LargoPlazoEncuentra'
    BY EntrantesEstables, PorPublicarIgual DEF Contadores
  <2>4. CuentaReady' /\ CortoPlazoEncuentra'
    BY EnManos, PorPublicarIgual, CuantosIguales
       DEF CuentaReady, CortoPlazoEncuentra, Contadores, Colas
  <2>5. CuentaCPUs'
    <3>1. CPUsPorAnunciar' = CPUsPorAnunciar - Uno(hilo_CPU[i].pc = "espera_mutex")
                                             + Uno(hilo_CPU'[i].pc = "espera_mutex")
      BY PorAnunciarCambia
    <3>2. Numeros'
      BY <2>1, NumerosBien, PTL DEF TypeOK
    <3>3. /\ Uno(hilo_CPU[i].pc = "espera_mutex") \in {0, 1}
          /\ Uno(hilo_CPU'[i].pc = "espera_mutex") \in {0, 1}
      BY DEF Uno
    <3>4. CPUDeCorto' = CPUDeCorto /\ CPUDeCorto \in {0, 1}
      BY EnManos
    <3>5. CuantasCPUs =
             sem["grado_multiprocesamiento_libre"] + CPUDeCorto + CPUsPorAnunciar
      BY DEF CuentaCPUs
    <3>6. CuantasCPUs' - sem'["grado_multiprocesamiento_libre"]
              - Uno(hilo_CPU'[i].pc = "espera_mutex") =
          CuantasCPUs - sem["grado_multiprocesamiento_libre"]
              - Uno(hilo_CPU[i].pc = "espera_mutex")
      BY <1>1
    <3>7. CuantasCPUs' =
             sem'["grado_multiprocesamiento_libre"] + CPUDeCorto' + CPUsPorAnunciar'
      <4> HIDE <1>1
      <4> QED BY <1>a, <3>1, <3>2, <3>3, <3>4, <3>5, <3>6 DEF Numeros
    <3> QED BY <3>7 DEF CuentaCPUs
  <2>6. CPUExclusiva'
    <3>1. ASSUME NEW j \in CPUs
          PROVE  Uno(j \in Range(CPU_libres))' + hilo_CPU'[j].usar
                     + Uno(hilo_CPU[j].pc \in {"espera_libre", "espera_liberar"})' = 1
      <4>1. CASE j = i
        BY <4>1
      <4>2. CASE j # i
        BY <4>2 DEF CPUExclusiva, Uno
      <4> QED BY <4>1, <4>2
    <3> QED BY <3>1 DEF CPUExclusiva
  <2> QED BY <2>1, <2>2, <2>3, <2>4, <2>5, <2>6
<1>2. CASE CPUToma(i)
  <2> USE <1>2 DEF CPUToma
  <2>1. /\ \A j \in CPUs \ {i} : hilo_CPU'[j] = hilo_CPU[j]
        /\ hilo_CPU'[i].pc = "espera_libre" /\ hilo_CPU'[i].usar = hilo_CPU[i].usar - 1
    BY DEF TipoCPU
  <2>2. TipoCPU'
    <3>1. hilo_CPU[i].usar - 1 \in Nat
      BY <1>b
    <3> QED BY <3>1 DEF TipoCPU, PasosCPU
  <2>3. Uno(i \in Range(CPU_libres)) + hilo_CPU'[i].usar
           + Uno(hilo_CPU'[i].pc \in {"espera_libre", "espera_liberar"}) = 1
    BY <1>b, <2>1 DEF Uno
  <2>4. /\ Uno(hilo_CPU'[i].pc = "espera_mutex") = Uno(hilo_CPU[i].pc = "espera_mutex")
        /\ CuantasCPUs' = CuantasCPUs
    BY <2>1, CuantosIguales DEF Uno
  <2>5. IsInjective(CPU_libres) /\ TipoSem'
    BY DEF CPUExclusiva, TipoSem
  <2> QED BY <1>1, <2>1, <2>2, <2>3, <2>4, <2>5
<1>3. CASE CPUOcupa(i)
  <2> USE <1>3 DEF CPUOcupa
  <2>1. /\ \A j \in CPUs \ {i} : hilo_CPU'[j] = hilo_CPU[j]
        /\ hilo_CPU'[i].pc = "espera_liberar" /\ hilo_CPU'[i].usar = hilo_CPU[i].usar
    BY DEF TipoCPU
  <2>2. TipoCPU'
    <3>1. hilo_CPU[i].libre - 1 \in Nat
      BY DEF TipoCPU
    <3> QED BY <3>1 DEF TipoCPU, PasosCPU
  <2>3. Uno(i \in Range(CPU_libres)) + hilo_CPU'[i].usar
           + Uno(hilo_CPU'[i].pc \in {"espera_libre", "espera_liberar"}) = 1
    BY <1>b, <2>1 DEF Uno
  <2>4. /\ Uno(hilo_CPU'[i].pc = "espera_mutex") = Uno(hilo_CPU[i].pc = "espera_mutex")
        /\ CuantasCPUs' = CuantasCPUs
    BY <2>1, CuantosIguales DEF Uno
  <2>5. IsInjective(CPU_libres) /\ TipoSem'
    BY DEF CPUExclusiva, TipoSem
  <2> QED BY <1>1, <2>1, <2>2, <2>3, <2>4, <2>5
<1>4. CASE CPULibera(i)
  <2> USE <1>4 DEF CPULibera
  <2>1. /\ \A j \in CPUs \ {i} : hilo_CPU'[j] = hilo_CPU[j]
        /\ hilo_CPU'[i].pc = "espera_mutex" /\ hilo_CPU'[i].usar = hilo_CPU[i].usar
    BY DEF TipoCPU
  <2>2. i \notin Range(CPU_libres) /\ hilo_CPU[i].usar = 0
    BY <1>b DEF Uno
  <2>3. /\ CPU_libres \in Seq(CPUs) /\ IsInjective(CPU_libres)
        /\ CPU_libres' \in Seq(CPUs) /\ CPU_libres' # << >>
        /\ Len(CPU_libres') = Len(CPU_libres) + 1
        /\ Range(CPU_libres') = Range(CPU_libres) \cup {i}
    BY AppendEs DEF TipoCPU, CPUExclusiva
  <2>4. TipoCPU'
    <3>1. hilo_CPU[i].liberar - 1 \in Nat
      BY DEF TipoCPU
    <3> QED BY <2>3, <3>1 DEF TipoCPU, PasosCPU, DesbloqueaMutex
  <2>5. Uno(i \in Range(CPU_libres')) + hilo_CPU'[i].usar
           + Uno(hilo_CPU'[i].pc \in {"espera_libre", "espera_liberar"}) = 1
    BY <2>1, <2>2, <2>3 DEF Uno
  <2>6. CuantasCPUs' - sem'["grado_multiprocesamiento_libre"]
            - Uno(hilo_CPU'[i].pc = "espera_mutex") =
        CuantasCPUs - sem["grado_multiprocesamiento_libre"]
            - Uno(hilo_CPU[i].pc = "espera_mutex")
    <3>1. CuantasCPUs' = CuantasCPUs + 1
      BY <2>3 DEF CuantasCPUs
    <3>2. /\ Uno(hilo_CPU'[i].pc = "espera_mutex") = 1
          /\ Uno(hilo_CPU[i].pc = "espera_mutex") = 0
      BY <2>1 DEF Uno
    <3> QED BY SMTT(30), <1>a, <3>1, <3>2 DEF Numeros
  <2>7. IsInjective(CPU_libres')
    BY <2>2, <2>3, AgregaInyectiva
  <2>8. TipoSem'
    BY DEF TipoSem
  <2> QED BY <1>1, <2>1, <2>3, <2>4, <2>5, <2>6, <2>7, <2>8
<1>5. CASE CPUAnuncia(i)
  <2> USE <1>5 DEF CPUAnuncia
  <2>1. /\ \A j \in CPUs \ {i} : hilo_CPU'[j] = hilo_CPU[j]
        /\ hilo_CPU'[i].pc = "espera_usar" /\ hilo_CPU'[i].usar = hilo_CPU[i].usar
    BY DEF TipoCPU
  <2>2. TipoCPU'
    <3>1. hilo_CPU[i].libre + 1 \in Nat
      BY DEF TipoCPU
    <3> QED BY <3>1 DEF TipoCPU, PasosCPU
  <2>3. Uno(i \in Range(CPU_libres)) + hilo_CPU'[i].usar
           + Uno(hilo_CPU'[i].pc \in {"espera_libre", "espera_liberar"}) = 1
    BY <1>b, <2>1 DEF Uno
  <2>4. /\ TipoSem'
        /\ \A s \in Contadores \ {"grado_multiprocesamiento_libre"} : sem'[s] = sem[s]
        /\ sem'["grado_multiprocesamiento_libre"] = sem["grado_multiprocesamiento_libre"] + 1
    BY TipoSemPost DEF SemPost, TipoSem, Contadores
  <2>5. CuantasCPUs' - sem'["grado_multiprocesamiento_libre"]
            - Uno(hilo_CPU'[i].pc = "espera_mutex") =
        CuantasCPUs - sem["grado_multiprocesamiento_libre"]
            - Uno(hilo_CPU[i].pc = "espera_mutex")
    <3>1. CuantasCPUs' = CuantasCPUs
      BY CuantosIguales
    <3>2. /\ Uno(hilo_CPU'[i].pc = "espera_mutex") = 0
          /\ Uno(hilo_CPU[i].pc = "espera_mutex") = 1
      BY <2>1 DEF Uno
    <3> QED BY <1>a, <2>4, <3>1, <3>2 DEF Numeros
  <2>6. IsInjective(CPU_libres)
    BY DEF CPUExclusiva
  <2> QED BY <1>1, <2>1, <2>2, <2>3, <2>4, <2>5, <2>6
<1> QED BY <1>2, <1>3, <1>4, <1>5 DEF ejecuta

-----------------------------------------------------------------------------
(* The calls and the server threads.                                       *)

Publicando == {"init_publica", "suspended_publica", "ready_publica"}

\* A step of a server thread that publishes nothing leaves the accounts alone.
LEMMA HiloEstable ==
    ASSUME IInv, NEW h \in Hilos, TypeOK', Auxiliar', UNCHANGED <<planificadores, CPU_libres>>,
           \A q \in {"new", "suspended_ready", "ready"} : cola'[q] = cola[q],
           \A s \in Contadores \ {"grado_multiprogramacion_libre"} : sem'[s] = sem[s],
           \A k \in Hilos \ {h} : hilo'[k].pc = hilo[k].pc,
           hilo[h].pc \notin Publicando, hilo'[h].pc \notin Publicando,
           \A i \in CPUs : /\ hilo_CPU'[i].pc = hilo_CPU[i].pc
                           /\ hilo_CPU'[i].usar = hilo_CPU[i].usar
    PROVE  IInv'
<1> USE DEF IInv, planificadores
<1>1. EntrantesPorPublicar' = EntrantesPorPublicar /\ ReadyPorPublicar' = ReadyPorPublicar
  <2>1. Numeros
    BY NumerosBien
  <2>2. /\ Uno(hilo[h].pc \in {"init_publica", "suspended_publica"}) = 0
        /\ Uno(hilo'[h].pc \in {"init_publica", "suspended_publica"}) = 0
        /\ Uno(hilo[h].pc = "ready_publica") = 0
        /\ Uno(hilo'[h].pc = "ready_publica") = 0
    BY DEF Uno, Publicando
  <2> QED BY <2>1, <2>2, PorPublicarCambia DEF Numeros
<1>2. CuentaEntrantes' /\ LargoPlazoEncuentra'
  BY <1>1, EntrantesEstables DEF Contadores
<1>3. CuentaReady' /\ CortoPlazoEncuentra'
  BY <1>1, ReadyEstable DEF Contadores
<1>4. CuentaCPUs' /\ CPUExclusiva'
  BY CPUsEstables DEF Contadores
<1> QED BY <1>2, <1>3, <1>4

InicioValido(inicio) ==
    /\ inicio \in [pc : PasosHilo, recurso : Semaforos \cup Dispositivos \cup {Nadie},
                   objetivo : Carpinchos \cup {Nadie}]
    /\ \/ inicio.recurso \in Dispositivos
       \/ inicio.pc \in {"io_pide", "io_usa", "despierta", "ready_mueve", "ready_publica",
                         "suspended_mueve", "suspended_publica"}
       => inicio.objetivo \in Carpinchos

\* A call takes the next server thread of its carpincho, which was free.
LEMMA LlamaCambia ==
    ASSUME TipoHilo, TipoCliente, Auxiliar, UNCHANGED suspensor,
           NEW c \in Carpinchos, NEW espera \in {"espera", "cierra"}, NEW inicio,
           InicioValido(inicio), cliente[c].llamada < MaxLlamadas,
           LlamaYEspera(c, espera, inicio)
    PROVE  /\ TipoHilo' /\ TipoCliente' /\ Auxiliar'
           /\ LET h == <<c, cliente[c].llamada + 1>>
              IN  /\ h \in Hilos /\ hilo[h].pc = "libre" /\ hilo'[h] = inicio
                  /\ \A k \in Hilos \ {h} : hilo'[k] = hilo[k]
<1> USE DEF Auxiliar, InicioValido
<1> DEFINE n == cliente[c].llamada + 1
           h == <<c, n>>
<1>1. cliente[c].llamada \in 0 .. MaxLlamadas /\ MaxLlamadas \in Nat
  BY ConstantesValidas DEF TipoCliente, ConstantesValidas
<1>2. n \in 1 .. MaxLlamadas /\ n = cliente[c].llamada + 1 /\ n > cliente[c].llamada
  BY <1>1
<1>3. /\ cliente' = [cliente EXCEPT ![c] = [pc |-> espera, llamada |-> n]]
      /\ hilo' = [hilo EXCEPT ![h] = inicio]
  BY DEF LlamaYEspera, TipoCliente
<1> HIDE DEF n
<1>4. h \in Hilos /\ hilo[h].pc = "libre"
  BY <1>2 DEF HilosFuturosLibres, Hilos, HilosServidor
<1>5. hilo'[h] = inicio /\ \A k \in Hilos \ {h} : hilo'[k] = hilo[k]
  BY <1>3, <1>4 DEF TipoHilo
<1>6. TipoHilo'
  BY <1>3 DEF TipoHilo
<1>7. TipoCliente'
  BY <1>1, <1>2, <1>3 DEF TipoCliente
<1>8. SuspensorTieneIndice'
  BY DEF SuspensorTieneIndice
<1>9. HilosConObjetivo'
  BY <1>5 DEF HilosConObjetivo
<1>10. HilosFuturosLibres'
  <2>1. /\ cliente'[c] = [pc |-> espera, llamada |-> n]
        /\ \A d \in Carpinchos \ {c} : cliente'[d] = cliente[d]
    BY <1>3 DEF TipoCliente
  <2>2. ASSUME NEW d \in Carpinchos, NEW k \in 1 .. MaxLlamadas, k > cliente'[d].llamada
        PROVE  hilo'[<<d, k>>].pc = "libre"
    <3>1. <<d, k>> \in Hilos
      BY DEF Hilos, HilosServidor
    <3>2. k > cliente[d].llamada /\ <<d, k>> # h
      BY <1>1, <1>2, <2>1, <2>2
    <3> QED BY <1>5, <3>1, <3>2 DEF HilosFuturosLibres
  <2>3. ASSUME NEW d \in Carpinchos, cliente'[d].pc = "fuera"
        PROVE  cliente'[d].llamada = 0
    <3>1. d # c
      BY <2>1, <2>3
    <3> QED BY <2>1, <2>3, <3>1 DEF HilosFuturosLibres
  <2> QED BY <2>2, <2>3 DEF HilosFuturosLibres
<1> QED BY <1>4, <1>5, <1>6, <1>7, <1>8, <1>9, <1>10 DEF n

\* A call that moves nobody.
LEMMA LlamadaEstable ==
    ASSUME IInv, UNCHANGED <<cola, sem, cpus, planificadores>>, TipoCarpincho', TipoRecursos',
           kernel_vivo' \in BOOLEAN,
           NEW c \in Carpinchos, cliente[c].llamada < MaxLlamadas,
           NEW espera \in {"espera", "cierra"}, NEW inicio,
           \/ LlamaYSigue(c) /\ cliente[c].pc # "fuera"
           \/ /\ LlamaYEspera(c, espera, inicio)
              /\ InicioValido(inicio) /\ inicio.pc \notin Publicando
    PROVE  IInv'
<1> USE DEF IInv, TypeOK, cpus, planificadores
<1>a. TipoCola' /\ TipoSem' /\ TipoCPU' /\ TipoPlanificadores'
  BY DEF TipoCola, TipoSem, TipoCPU, TipoPlanificadores
<1>1. CASE LlamaYSigue(c) /\ cliente[c].pc # "fuera"
  <2> USE <1>1 DEF LlamaYSigue
  <2>1. TipoHilo' /\ TipoCliente'
    <3>1. cliente[c].llamada + 1 \in 0 .. MaxLlamadas
      BY ConstantesValidas DEF TipoCliente, ConstantesValidas
    <3> QED BY <3>1 DEF TipoHilo, TipoCliente
  <2>2. Auxiliar'
    <3>1. ASSUME NEW d \in Carpinchos
          PROVE  /\ cliente'[d].llamada >= cliente[d].llamada
                 /\ cliente'[d].llamada \in Nat /\ cliente[d].llamada \in Nat
                 /\ cliente'[d].pc = cliente[d].pc
                 /\ d # c => cliente'[d] = cliente[d]
      BY ConstantesValidas DEF TipoCliente, ConstantesValidas
    <3>2. HilosFuturosLibres'
      BY <3>1 DEF Auxiliar, HilosFuturosLibres
    <3> QED BY <3>2 DEF Auxiliar, SuspensorTieneIndice, HilosConObjetivo
  <2>3. CuentaEntrantes' /\ LargoPlazoEncuentra'
    BY EntrantesEstables, PorPublicarIgual
  <2>4. CuentaReady' /\ CortoPlazoEncuentra'
    BY ReadyEstable, PorPublicarIgual
  <2>5. CuentaCPUs' /\ CPUExclusiva'
    BY CPUsEstables
  <2> QED BY <1>a, <2>1, <2>2, <2>3, <2>4, <2>5
<1>2. CASE LlamaYEspera(c, espera, inicio) /\ InicioValido(inicio) /\ inicio.pc \notin Publicando
  <2> DEFINE h == <<c, cliente[c].llamada + 1>>
  <2>1. /\ TipoHilo' /\ TipoCliente' /\ Auxiliar'
        /\ h \in Hilos /\ hilo[h].pc = "libre" /\ hilo'[h] = inicio
        /\ \A k \in Hilos \ {h} : hilo'[k] = hilo[k]
    BY <1>2, LlamaCambia
  <2> HIDE DEF h
  <2>2. TypeOK'
    BY <1>a, <2>1
  <2> QED BY <1>2, <2>1, <2>2, HiloEstable DEF Publicando
<1> QED BY <1>1, <1>2

LEMMA PasoInit ==
    ASSUME NEW c \in Carpinchos PROVE IInv /\ (MateInit(c) \/ MateInitSinMemoria(c)) => IInv'
<1> SUFFICES ASSUME IInv, MateInit(c) \/ MateInitSinMemoria(c) PROVE IInv'
  OBVIOUS
<1> USE DEF IInv, TypeOK, cpus, planificadores, recursos, llamadas
<1>a. Numeros
  BY NumerosBien
<1>b. cliente[c].llamada < MaxLlamadas /\ cliente[c].llamada = 0
  BY ConstantesValidas DEF MateInit, MateInitSinMemoria, Auxiliar, HilosFuturosLibres, ConstantesValidas
<1>1. CASE MateInitSinMemoria(c)
  <2> USE <1>1 DEF MateInitSinMemoria
  <2>1. InicioValido(HiloLibre) /\ HiloLibre.pc \notin Publicando
    BY ConstantesValidas DEF InicioValido, HiloLibre, PasosHilo, Publicando, ConstantesValidas
  <2>2. TipoCarpincho' /\ TipoRecursos' /\ kernel_vivo' \in BOOLEAN
    BY DEF TipoCarpincho, TipoRecursos
  <2>3. UNCHANGED <<cola, sem, cpus, planificadores>> /\ LlamaYEspera(c, "espera", HiloLibre)
    OBVIOUS
  <2> QED BY <1>b, <2>1, <2>2, <2>3, LlamadaEstable
<1>2. CASE MateInit(c)
  <2> USE <1>2 DEF MateInit
  <2> DEFINE inicio == [pc |-> "init_publica", recurso |-> Nadie, objetivo |-> Nadie]
             h == <<c, cliente[c].llamada + 1>>
  <2>1. InicioValido(inicio)
    BY ConstantesValidas DEF InicioValido, PasosHilo, ConstantesValidas
  <2>2. LlamaYEspera(c, "espera", inicio) /\ inicio.pc = "init_publica"
    OBVIOUS
  <2> HIDE DEF inicio
  <2>3. /\ TipoHilo' /\ TipoCliente' /\ Auxiliar'
        /\ h \in Hilos /\ hilo[h].pc = "libre" /\ hilo'[h] = inicio
        /\ \A k \in Hilos \ {h} : hilo'[k] = hilo[k]
    BY <1>b, <2>1, <2>2, LlamaCambia
  <2> HIDE DEF h
  <2>4. /\ TipoCola' /\ Cuantos("new")' = Cuantos("new") + 1
        /\ cola'["ready"] = cola["ready"] /\ cola'["suspended_ready"] = cola["suspended_ready"]
        /\ cola'["new"] # << >>
    <3>1. cola["new"] \in Seq(Carpinchos)
      BY DEF TipoCola, Colas
    <3>2. /\ Append(cola["new"], c) \in Seq(Carpinchos) /\ Append(cola["new"], c) # << >>
          /\ Len(Append(cola["new"], c)) = Len(cola["new"]) + 1
      BY <3>1, AppendEs
    <3> QED BY <3>2 DEF TipoCola, Colas, Cuantos
  <2>5. TypeOK'
    <3>1. TipoCarpincho'
      BY DEF TipoCarpincho
    <3> QED BY <2>3, <2>4, <3>1 DEF TipoSem, TipoCPU, TipoPlanificadores, TipoRecursos
  <2>6. EntrantesPorPublicar' = EntrantesPorPublicar + 1 /\ ReadyPorPublicar' = ReadyPorPublicar
    <3>1. /\ Uno(hilo[h].pc \in {"init_publica", "suspended_publica"}) = 0
          /\ Uno(hilo'[h].pc \in {"init_publica", "suspended_publica"}) = 1
          /\ Uno(hilo[h].pc = "ready_publica") = 0 /\ Uno(hilo'[h].pc = "ready_publica") = 0
      BY <2>2, <2>3 DEF Uno
    <3> QED BY SMTT(30), <1>a, <2>3, <3>1, PorPublicarCambia DEF Numeros
  <2>7. CuentaEntrantes' /\ LargoPlazoEncuentra'
    <3>1. Cuantos("suspended_ready")' = Cuantos("suspended_ready")
      BY <2>4, CuantosIguales DEF Colas
    <3>2. EntranteDeLargo' = EntranteDeLargo /\ EntranteDeLargo \in {0, 1}
      BY EnManos
    <3>3. CuentaEntrantes'
      <4>1. sem' = sem /\ CuentaEntrantes
        OBVIOUS
      <4>2. Numeros'
        BY <2>3, <2>5, NumerosBien, PTL DEF TypeOK
      <4>3. Cuantos("new")' = Cuantos("new") + 1
        BY <2>4
      <4>4. EntrantesPorPublicar' = EntrantesPorPublicar + 1
        BY <2>6
      <4>5. Cuantos("new")' + Cuantos("suspended_ready")' =
               sem["hay_estructura_creada"] + EntranteDeLargo + EntrantesPorPublicar + 1
        <5> HIDE <1>2
        <5>1. Cuantos("new") + Cuantos("suspended_ready") =
                 sem["hay_estructura_creada"] + EntranteDeLargo + EntrantesPorPublicar
          BY <4>1 DEF CuentaEntrantes
        <5> QED BY <1>a, <3>1, <3>2, <4>3, <5>1 DEF Numeros
      <4>6. sem'["hay_estructura_creada"] + EntranteDeLargo' + EntrantesPorPublicar' =
               sem["hay_estructura_creada"] + EntranteDeLargo + EntrantesPorPublicar + 1
        <5>1. sem'["hay_estructura_creada"] = sem["hay_estructura_creada"]
          BY <4>1
        <5> HIDE <1>2
        <5> QED BY SMTT(30), <1>a, <3>2, <4>4, <5>1 DEF Numeros
      <4> QED BY <4>5, <4>6 DEF CuentaEntrantes
    <3> QED BY <2>4, <3>3 DEF LargoPlazoEncuentra
  <2>8. CuentaReady' /\ CortoPlazoEncuentra'
    BY <2>4, <2>6, ReadyEstable
  <2>9. CuentaCPUs' /\ CPUExclusiva'
    BY CPUsEstables
  <2> QED BY <2>3, <2>5, <2>7, <2>8, <2>9
<1> QED BY <1>1, <1>2

LEMMA PasoInitPublica ==
    ASSUME NEW h \in Hilos PROVE IInv /\ MateInitPublica(h) => IInv'
<1> SUFFICES ASSUME IInv, MateInitPublica(h) PROVE IInv'
  OBVIOUS
<1> USE DEF IInv, TypeOK, cpus, planificadores, recursos, llamadas, MateInitPublica
<1>a. Numeros
  BY NumerosBien
<1>1. (\A k \in Hilos \ {h} : hilo'[k] = hilo[k]) /\ hilo'[h] = HiloLibre
  BY TerminaCambia
<1>2. TypeOK'
  BY TipoSemPost, TipoTermina DEF Contadores,
     TipoCola, TipoCarpincho, TipoCPU, TipoPlanificadores, TipoRecursos, TipoCliente
<1>3. Auxiliar'
  BY <1>1, AuxiliarDeHilo
<1>4. EntrantesPorPublicar' = EntrantesPorPublicar - 1 /\ ReadyPorPublicar' = ReadyPorPublicar
  <2>1. /\ Uno(hilo[h].pc \in {"init_publica", "suspended_publica"}) = 1
        /\ Uno(hilo'[h].pc \in {"init_publica", "suspended_publica"}) = 0
        /\ Uno(hilo[h].pc = "ready_publica") = 0 /\ Uno(hilo'[h].pc = "ready_publica") = 0
    BY <1>1 DEF Uno, HiloLibre
  <2> QED BY <1>a, <1>1, <2>1, PorPublicarCambia DEF Numeros
<1>5. /\ sem'["hay_estructura_creada"] = sem["hay_estructura_creada"] + 1
      /\ \A s \in Contadores \ {"hay_estructura_creada"} : sem'[s] = sem[s]
  BY DEF SemPost, TipoSem, Contadores
<1>6. CuentaEntrantes' /\ LargoPlazoEncuentra'
  <2>1. EntranteDeLargo' = EntranteDeLargo /\ EntranteDeLargo \in {0, 1}
    BY EnManos
  <2>2. /\ Cuantos("new")' = Cuantos("new")
        /\ Cuantos("suspended_ready")' = Cuantos("suspended_ready")
    BY CuantosIguales DEF Colas
  <2>3. CuentaEntrantes'
    BY <1>a, <1>4, <1>5, <2>1, <2>2 DEF CuentaEntrantes, Numeros
  <2> QED BY <2>3 DEF LargoPlazoEncuentra
<1>7. CuentaReady' /\ CortoPlazoEncuentra'
  BY <1>4, <1>5, ReadyEstable DEF Contadores
<1>8. CuentaCPUs' /\ CPUExclusiva'
  BY <1>5, CPUsEstables DEF Contadores
<1> QED BY <1>2, <1>3, <1>6, <1>7, <1>8

\* A carpincho is taken from exec to blocked.
LEMMA PasoBloquea ==
    ASSUME NEW h \in Hilos PROVE IInv /\ exec_a_block(h) => IInv'
<1> SUFFICES ASSUME IInv, exec_a_block(h) PROVE IInv'
  OBVIOUS
<1> USE DEF IInv, TypeOK, cpus, planificadores, recursos, llamadas
<1>a. h[1] \in Carpinchos
  BY DEF Hilos, HilosServidor, HilosDetector
<1>1. CASE BloqueaMueve(h)
  <2> USE <1>1 DEF BloqueaMueve
  <2>1. TipoCola' /\ \A q \in Colas \ {"exec", "blocked"} : cola'[q] = cola[q]
    BY <1>a, TipoMueve, MueveCuenta DEF Colas
  <2>2. /\ \A k \in Hilos \ {h} : hilo'[k] = hilo[k]
        /\ hilo'[h].pc = "bloquea_estado"
        /\ hilo'[h].recurso = hilo[h].recurso /\ hilo'[h].objetivo = hilo[h].objetivo
    BY SigueCambia
  <2>3. TipoHilo'
    BY TipoSigue DEF PasosHilo
  <2>4. TypeOK'
    BY <2>1, <2>3 DEF TipoSem, TipoCarpincho, TipoCPU, TipoPlanificadores, TipoRecursos, TipoCliente
  <2>5. Auxiliar'
    BY <2>2, AuxiliarDeHilo
  <2> QED BY <2>1, <2>2, <2>4, <2>5, HiloEstable DEF Colas, Publicando
<1>2. CASE BloqueaEstado(h)
  <2> USE <1>2 DEF BloqueaEstado
  <2>1. TipoCarpincho'
    BY TipoPonEstado DEF Estados
  <2>2. /\ \A k \in Hilos \ {h} : hilo'[k] = hilo[k]
        /\ hilo'[h].pc = "bloquea_libera"
        /\ hilo'[h].recurso = hilo[h].recurso /\ hilo'[h].objetivo = hilo[h].objetivo
    BY SigueCambia
  <2>3. TipoHilo'
    BY TipoSigue DEF PasosHilo
  <2>4. TypeOK'
    BY <2>1, <2>3 DEF TipoCola, TipoSem, TipoCPU, TipoPlanificadores, TipoRecursos, TipoCliente
  <2>5. Auxiliar'
    BY <2>2, AuxiliarDeHilo
  <2> QED BY <2>2, <2>4, <2>5, HiloEstable DEF Publicando
<1>3. CASE BloqueaLibera(h)
  <2> USE <1>3 DEF BloqueaLibera
  <2> DEFINE i == carpincho[h[1]].CPU_en_uso
  <2>1. i \in CPUs \cup {SinCPU} /\ PostLiberar(i)
    BY <1>a DEF TipoCarpincho
  <2> HIDE DEF i
  <2>2. /\ TipoCPU'
        /\ \A j \in CPUs : /\ hilo_CPU'[j].pc = hilo_CPU[j].pc
                           /\ hilo_CPU'[j].usar = hilo_CPU[j].usar
    BY <2>1, TipoPostLiberar
  <2>3. CASE hilo[h].recurso \in Dispositivos
    <3>1. /\ \A k \in Hilos \ {h} : hilo'[k] = hilo[k]
          /\ hilo'[h].pc = "io_pide"
          /\ hilo'[h].recurso = hilo[h].recurso /\ hilo'[h].objetivo = hilo[h].objetivo
      BY <2>3, SigueCambia
    <3>2. TipoHilo'
      BY <2>3, TipoSigue DEF PasosHilo
    <3>3. TypeOK'
      BY <2>2, <3>2 DEF TipoCola, TipoSem, TipoCarpincho, TipoPlanificadores, TipoRecursos, TipoCliente
    <3>4. hilo[h].objetivo \in Carpinchos
      BY <2>3 DEF Auxiliar, HilosConObjetivo
    <3>5. Auxiliar'
      BY <3>1, <3>4, AuxiliarDeHilo
    <3> QED BY <2>2, <3>1, <3>3, <3>5, HiloEstable DEF Publicando
  <2>4. CASE hilo[h].recurso \notin Dispositivos
    <3>1. (\A k \in Hilos \ {h} : hilo'[k] = hilo[k]) /\ hilo'[h] = HiloLibre
      BY <2>4, TerminaCambia
    <3>2. TipoHilo'
      BY <2>4, TipoTermina
    <3>3. TypeOK'
      BY <2>2, <3>2 DEF TipoCola, TipoSem, TipoCarpincho, TipoPlanificadores, TipoRecursos, TipoCliente
    <3>4. Auxiliar'
      BY <3>1, AuxiliarDeHilo
    <3> QED BY <2>2, <3>1, <3>3, <3>4, HiloEstable DEF Publicando, HiloLibre
  <2> QED BY <2>3, <2>4
<1> QED BY <1>1, <1>2, <1>3 DEF exec_a_block

\* A carpincho is woken: it joins ready or suspended_ready, then its token is posted.
LEMMA PasoDespierta ==
    ASSUME NEW h \in Hilos PROVE IInv /\ despertar(h) => IInv'
<1> SUFFICES ASSUME IInv, despertar(h) PROVE IInv'
  OBVIOUS
<1> USE DEF IInv, TypeOK, cpus, planificadores, recursos, llamadas
<1>a. Numeros
  BY NumerosBien
<1>1. CASE Despierta(h)
  <2> USE <1>1 DEF Despierta
  <2>1. PICK paso \in {"ready_mueve", "suspended_mueve"} : Sigue(h, paso)
    OBVIOUS
  <2>2. /\ \A k \in Hilos \ {h} : hilo'[k] = hilo[k]
        /\ hilo'[h].pc = paso
        /\ hilo'[h].recurso = hilo[h].recurso /\ hilo'[h].objetivo = hilo[h].objetivo
    BY <2>1, SigueCambia
  <2>3. TipoHilo'
    BY <2>1, TipoSigue DEF PasosHilo
  <2>4. TipoCarpincho'
    <3>1. CASE PonEstado(hilo[h].objetivo, "SUSPENDED_READY")
      BY <3>1, TipoPonEstado DEF Estados
    <3>2. CASE UNCHANGED carpincho
      BY <3>2 DEF TipoCarpincho
    <3> QED BY <3>1, <3>2
  <2>5. TypeOK'
    BY <2>3, <2>4 DEF TipoCola, TipoSem, TipoCPU, TipoPlanificadores, TipoRecursos, TipoCliente
  <2>6. hilo[h].objetivo \in Carpinchos
    BY DEF Auxiliar, HilosConObjetivo
  <2>7. Auxiliar'
    BY <2>2, <2>6, AuxiliarDeHilo
  <2> QED BY <2>2, <2>5, <2>7, HiloEstable DEF Publicando
<1>2. CASE ReadyMueve(h)
  <2> USE <1>2 DEF ReadyMueve
  <2> DEFINE c == hilo[h].objetivo
  <2>1. c \in Carpinchos
    BY DEF Auxiliar, HilosConObjetivo
  <2>2. TipoCola'
    BY <2>1, TipoMueve DEF Colas
  <2>3. /\ Cuantos("ready")' = Cuantos("ready") + 1
        /\ \A q \in Colas \ {"blocked", "ready"} : cola'[q] = cola[q]
        /\ cola'["ready"] = Append(cola["ready"], c)
    BY <2>1, MueveCuenta DEF Colas
  <2>4. /\ \A k \in Hilos \ {h} : hilo'[k] = hilo[k]
        /\ hilo'[h].pc = "ready_publica"
        /\ hilo'[h].recurso = hilo[h].recurso /\ hilo'[h].objetivo = hilo[h].objetivo
    BY SigueCambia
  <2>5. TipoHilo'
    BY TipoSigue DEF PasosHilo
  <2>6. TypeOK'
    BY <2>2, <2>5 DEF TipoSem, TipoCarpincho, TipoCPU, TipoPlanificadores, TipoRecursos, TipoCliente
  <2>7. Auxiliar'
    BY <2>1, <2>4, AuxiliarDeHilo
  <2>8. EntrantesPorPublicar' = EntrantesPorPublicar /\ ReadyPorPublicar' = ReadyPorPublicar + 1
    <3>1. /\ Uno(hilo[h].pc \in {"init_publica", "suspended_publica"}) = 0
          /\ Uno(hilo'[h].pc \in {"init_publica", "suspended_publica"}) = 0
          /\ Uno(hilo[h].pc = "ready_publica") = 0 /\ Uno(hilo'[h].pc = "ready_publica") = 1
      BY <2>4 DEF Uno
    <3> QED BY <1>a, <2>4, <3>1, PorPublicarCambia DEF Numeros
  <2>9. CuentaEntrantes' /\ LargoPlazoEncuentra'
    BY <2>3, <2>8, EntrantesEstables DEF Colas
  <2>10. CuentaReady' /\ CortoPlazoEncuentra'
    <3>1. CuentaReady
      OBVIOUS
    <3>2. /\ ReadyDeLargo' = ReadyDeLargo /\ ReadyDeLargo \in {0, 1}
          /\ ReadyDeCorto' = ReadyDeCorto /\ ReadyDeCorto \in {0, 1}
      BY EnManos
    <3>3. CuentaReady'
      <4> HIDE <1>2
      <4>1. sem' = sem
        BY <1>2
      <4>2. Numeros' /\ Cuantos("ready")' = Cuantos("ready") + 1
        BY <2>3, <2>6, NumerosBien, PTL DEF TypeOK
      <4> QED BY <1>a, <2>8, <3>1, <3>2, <4>1, <4>2 DEF Numeros, CuentaReady
    <3>4. /\ cola["ready"] \in Seq(Carpinchos) /\ Append(cola["ready"], c) # << >>
          /\ Range(cola["ready"]) \subseteq Range(Append(cola["ready"], c))
      <4>1. cola["ready"] \in Seq(Carpinchos)
        BY DEF TipoCola, Colas
      <4> QED BY <2>1, <4>1, AppendEs
    <3> QED BY <2>3, <3>3, <3>4 DEF CortoPlazoEncuentra
  <2>11. CuentaCPUs' /\ CPUExclusiva'
    BY CPUsEstables
  <2> QED BY <2>6, <2>7, <2>9, <2>10, <2>11
<1>3. CASE SuspendedMueve(h)
  <2> USE <1>3 DEF SuspendedMueve
  <2> DEFINE c == hilo[h].objetivo
  <2>1. c \in Carpinchos
    BY DEF Auxiliar, HilosConObjetivo
  <2>2. TipoCola'
    BY <2>1, TipoMueve DEF Colas
  <2>3. /\ Cuantos("suspended_ready")' = Cuantos("suspended_ready") + 1
        /\ \A q \in Colas \ {"suspended_blocked", "suspended_ready"} : cola'[q] = cola[q]
        /\ cola'["suspended_ready"] = Append(cola["suspended_ready"], c)
    BY <2>1, MueveCuenta DEF Colas
  <2>4. /\ \A k \in Hilos \ {h} : hilo'[k] = hilo[k]
        /\ hilo'[h].pc = "suspended_publica"
        /\ hilo'[h].recurso = hilo[h].recurso /\ hilo'[h].objetivo = hilo[h].objetivo
    BY SigueCambia
  <2>5. TipoHilo'
    BY TipoSigue DEF PasosHilo
  <2>6. TypeOK'
    BY <2>2, <2>5 DEF TipoSem, TipoCarpincho, TipoCPU, TipoPlanificadores, TipoRecursos, TipoCliente
  <2>7. Auxiliar'
    BY <2>1, <2>4, AuxiliarDeHilo
  <2>8. EntrantesPorPublicar' = EntrantesPorPublicar + 1 /\ ReadyPorPublicar' = ReadyPorPublicar
    <3>1. /\ Uno(hilo[h].pc \in {"init_publica", "suspended_publica"}) = 0
          /\ Uno(hilo'[h].pc \in {"init_publica", "suspended_publica"}) = 1
          /\ Uno(hilo[h].pc = "ready_publica") = 0 /\ Uno(hilo'[h].pc = "ready_publica") = 0
      BY <2>4 DEF Uno
    <3> QED BY <1>a, <2>4, <3>1, PorPublicarCambia DEF Numeros
  <2>9. CuentaEntrantes' /\ LargoPlazoEncuentra'
    <3>1. CuentaEntrantes /\ Cuantos("new")' = Cuantos("new")
      BY <2>3, CuantosIguales DEF Colas
    <3>2. EntranteDeLargo' = EntranteDeLargo /\ EntranteDeLargo \in {0, 1}
      BY EnManos
    <3>3. CuentaEntrantes'
      <4> HIDE <1>3
      <4>1. sem' = sem
        BY <1>3
      <4>2. Numeros'
        BY <2>6, NumerosBien, PTL DEF TypeOK
      <4>3. Cuantos("suspended_ready")' = Cuantos("suspended_ready") + 1
        BY <2>3
      <4> QED BY <1>a, <2>8, <3>1, <3>2, <4>1, <4>2, <4>3 DEF Numeros, CuentaEntrantes
    <3>4. Append(cola["suspended_ready"], c) # << >>
      <4>1. cola["suspended_ready"] \in Seq(Carpinchos)
        BY DEF TipoCola, Colas
      <4> QED BY <2>1, <4>1, AppendEs
    <3>5. cola'["new"] = cola["new"]
      BY <2>3 DEF Colas
    <3> QED BY <2>3, <3>3, <3>4, <3>5 DEF LargoPlazoEncuentra
  <2>10. CuentaReady' /\ CortoPlazoEncuentra'
    BY <2>3, <2>8, ReadyEstable DEF Colas
  <2>11. CuentaCPUs' /\ CPUExclusiva'
    BY CPUsEstables
  <2> QED BY <2>6, <2>7, <2>9, <2>10, <2>11
<1>4. ASSUME NEW paso \in {"ready_publica", "suspended_publica"}, NEW e \in Estados,
             NEW s \in {"cola_ready_con_elementos", "hay_estructura_creada"},
             s = "cola_ready_con_elementos" <=> paso = "ready_publica", Publica(h, paso, e, s)
      PROVE  IInv'
  <2> USE <1>4 DEF Publica
  <2>1. /\ TipoSem' /\ sem'[s] = sem[s] + 1
        /\ \A t \in Contadores \ {s} : sem'[t] = sem[t]
    BY TipoSemPost DEF SemPost, TipoSem, Contadores
  <2>2. TipoCarpincho'
    BY TipoPonEstado
  <2>3. (\A k \in Hilos \ {h} : hilo'[k] = hilo[k]) /\ hilo'[h] = HiloLibre
    BY TerminaCambia
  <2>4. TipoHilo'
    BY TipoTermina
  <2>5. /\ TipoCliente'
        /\ \A c \in Carpinchos : /\ cliente'[c].llamada = cliente[c].llamada
                                 /\ cliente'[c].pc = "fuera" => cliente[c].pc = "fuera"
    <3>1. CASE Contesta(h[1], h[2])
      <4>1. TipoCliente'
        BY <3>1, TipoContesta
      <4> QED BY <3>1, <4>1 DEF Contesta, TipoCliente
    <3>2. CASE UNCHANGED cliente
      BY <3>2 DEF TipoCliente
    <3> QED BY <3>1, <3>2
  <2>6. TypeOK'
    BY <2>1, <2>2, <2>4, <2>5 DEF TipoCola, TipoCPU, TipoPlanificadores, TipoRecursos
  <2>7. Auxiliar'
    BY <2>3, <2>5, AuxiliarDeHilo
  <2>8. /\ EntrantesPorPublicar' = EntrantesPorPublicar - Uno(paso = "suspended_publica")
        /\ ReadyPorPublicar' = ReadyPorPublicar - Uno(paso = "ready_publica")
    <3>1. /\ Uno(hilo[h].pc \in {"init_publica", "suspended_publica"}) =
                Uno(paso = "suspended_publica")
          /\ Uno(hilo'[h].pc \in {"init_publica", "suspended_publica"}) = 0
          /\ Uno(hilo[h].pc = "ready_publica") = Uno(paso = "ready_publica")
          /\ Uno(hilo'[h].pc = "ready_publica") = 0
          /\ Uno(paso = "ready_publica") \in {0, 1}
          /\ Uno(paso = "suspended_publica") \in {0, 1}
      BY <2>3 DEF Uno, HiloLibre
    <3> QED BY <1>a, <2>3, <3>1, PorPublicarCambia DEF Numeros
  <2>9. CuentaEntrantes' /\ LargoPlazoEncuentra'
    <3>1. CASE paso = "ready_publica"
      <4>1. EntrantesPorPublicar' = EntrantesPorPublicar
        BY <1>a, <2>8, <3>1 DEF Uno, Numeros
      <4> QED BY <2>1, <3>1, <4>1, EntrantesEstables DEF Contadores
    <3>2. CASE paso = "suspended_publica"
      <4>1. /\ EntrantesPorPublicar' = EntrantesPorPublicar - 1
            /\ sem'["hay_estructura_creada"] = sem["hay_estructura_creada"] + 1
        BY <2>1, <2>8, <3>2 DEF Uno
      <4>2. EntranteDeLargo' = EntranteDeLargo /\ EntranteDeLargo \in {0, 1}
        BY EnManos
      <4>3. /\ Cuantos("new")' = Cuantos("new")
            /\ Cuantos("suspended_ready")' = Cuantos("suspended_ready")
        BY CuantosIguales DEF Colas
      <4>4. CuentaEntrantes
        OBVIOUS
      <4>5. CuentaEntrantes'
        <5> HIDE <1>4
        <5> QED BY <1>a, <4>1, <4>2, <4>3, <4>4 DEF CuentaEntrantes, Numeros
      <4> QED BY <4>5 DEF LargoPlazoEncuentra
    <3> QED BY <3>1, <3>2
  <2>10. CuentaReady' /\ CortoPlazoEncuentra'
    <3>1. CASE paso = "suspended_publica"
      <4>1. ReadyPorPublicar' = ReadyPorPublicar
        BY <1>a, <2>8, <3>1 DEF Uno, Numeros
      <4> QED BY <2>1, <3>1, <4>1, ReadyEstable DEF Contadores
    <3>2. CASE paso = "ready_publica"
      <4>1. /\ ReadyPorPublicar' = ReadyPorPublicar - 1
            /\ sem'["cola_ready_con_elementos"] = sem["cola_ready_con_elementos"] + 1
        BY <2>1, <2>8, <3>2 DEF Uno
      <4>2. /\ ReadyDeLargo' = ReadyDeLargo /\ ReadyDeLargo \in {0, 1}
            /\ ReadyDeCorto' = ReadyDeCorto /\ ReadyDeCorto \in {0, 1}
        BY EnManos
      <4>3. Cuantos("ready")' = Cuantos("ready")
        BY CuantosIguales DEF Colas
      <4>4. CuentaReady
        OBVIOUS
      <4>5. CuentaReady'
        <5> HIDE <1>4
        <5> QED BY <1>a, <4>1, <4>2, <4>3, <4>4 DEF CuentaReady, Numeros
      <4> QED BY <4>5 DEF CortoPlazoEncuentra
    <3> QED BY <3>1, <3>2
  <2>11. CuentaCPUs' /\ CPUExclusiva'
    BY <2>1, CPUsEstables DEF Contadores
  <2> QED BY <2>6, <2>7, <2>9, <2>10, <2>11
<1>5. CASE ReadyPublica(h)
  BY <1>4, <1>5 DEF ReadyPublica, Estados
<1>6. CASE SuspendedPublica(h)
  BY <1>4, <1>6 DEF SuspendedPublica, Estados
<1> QED BY <1>1, <1>2, <1>3, <1>5, <1>6 DEF despertar

\* The calls that only touch the semaphores of the carpinchos, or start a thread
\* that is to move somebody or to ask memoria.
LEMMA PasoLlamada ==
    ASSUME NEW c \in Carpinchos,
           \/ \E s \in Semaforos : \/ MateSemInit(c, s) \/ MateSemWait(c, s)
                                   \/ MateSemPost(c, s) \/ MateSemDestroy(c, s)
           \/ \E d \in Dispositivos : MateCallIo(c, d)
           \/ ReenviaAMemoria(c) \/ MateClose(c),
           IInv
    PROVE  IInv'
<1> USE DEF IInv, TypeOK, recursos
<1>a. ConstantesValidas /\ cliente[c].llamada \in Nat
  BY ConstantesValidas DEF TipoCliente
<1>b. GuardaFd(c) => TipoCarpincho'
  <2> SUFFICES ASSUME GuardaFd(c) PROVE TipoCarpincho'
    OBVIOUS
  <2>1. cliente[c].llamada + 1 \in Nat
    BY <1>a
  <2> QED BY <2>1 DEF GuardaFd, TipoCarpincho
<1>c. ASSUME NEW s \in Semaforos, NEW v \in Int, NEW q \in Seq(Carpinchos),
             semaforo' = [semaforo EXCEPT ![s] = [@ EXCEPT !.valor = v, !.en_espera = q]],
             UNCHANGED dispositivo_sem
      PROVE  TipoRecursos'
  <2> DEFINE nuevo == [semaforo[s] EXCEPT !.valor = v, !.en_espera = q]
  <2>1. semaforo[s] \in [existe : BOOLEAN, valor : Int, en_espera : Seq(Carpinchos)]
    BY DEF TipoRecursos
  <2>2. nuevo \in [existe : BOOLEAN, valor : Int, en_espera : Seq(Carpinchos)]
    BY <2>1
  <2>3. semaforo' = [semaforo EXCEPT ![s] = nuevo]
    BY <1>c
  <2> HIDE DEF nuevo
  <2> QED BY <1>c, <2>2, <2>3 DEF TipoRecursos
<1>d. \A s \in Semaforos : semaforo[s].en_espera \in Seq(Carpinchos) /\ semaforo[s].valor \in Int
  BY DEF TipoRecursos
<1>e. \A s \in Semaforos : semaforo[s].valor + 1 \in Int
  BY <1>d
<1>1. ASSUME NEW s \in Semaforos, MateSemInit(c, s) PROVE IInv'
  <2> USE <1>1 DEF MateSemInit
  <2>1. TipoRecursos' /\ TipoCarpincho'
    BY <1>a DEF TipoRecursos, TipoCarpincho, Creado, ConstantesValidas
  <2>2. UNCHANGED <<cola, sem, cpus, planificadores>> /\ kernel_vivo' \in BOOLEAN
    OBVIOUS
  <2>3. /\ cliente[c].llamada < MaxLlamadas
        /\ LlamaYSigue(c) /\ cliente[c].pc # "fuera"
    BY DEF PuedeLlamar
  <2> QED BY <2>1, <2>2, <2>3, LlamadaEstable
<1>2. ASSUME NEW s \in Semaforos, MateSemDestroy(c, s) PROVE IInv'
  <2> USE <1>2 DEF MateSemDestroy
  <2>1. TipoRecursos' /\ TipoCarpincho'
    BY DEF TipoRecursos, TipoCarpincho, Inexistente
  <2>2. UNCHANGED <<cola, sem, cpus, planificadores>> /\ kernel_vivo' \in BOOLEAN
    OBVIOUS
  <2>3. /\ cliente[c].llamada < MaxLlamadas
        /\ LlamaYSigue(c) /\ cliente[c].pc # "fuera"
    BY DEF PuedeLlamar
  <2> QED BY <2>1, <2>2, <2>3, LlamadaEstable
<1>3. ASSUME NEW s \in Semaforos, MateSemWait(c, s) PROVE IInv'
  <2> USE <1>3 DEF MateSemWait
  <2> DEFINE inicio == [pc |-> "bloquea_mueve", recurso |-> s, objetivo |-> Nadie]
             espera == IF Bloquea(s) THEN Append(semaforo[s].en_espera, c)
                                     ELSE semaforo[s].en_espera
  <2>1. TipoRecursos'
    <3>1. espera \in Seq(Carpinchos)
      BY <1>d
    <3>2. semaforo' = [semaforo EXCEPT ![s] = [@ EXCEPT !.valor = semaforo[s].valor - 1,
                                                        !.en_espera = espera]]
      BY DEF TipoRecursos
    <3>3. UNCHANGED dispositivo_sem
      OBVIOUS
    <3> HIDE DEF espera
    <3> HIDE <1>3
    <3>4. semaforo[s].valor - 1 \in Int
      BY <1>d
    <3> QED BY <1>c, <3>1, <3>2, <3>3, <3>4
  <2>2. TipoCarpincho'
    BY <1>b
  <2>3. UNCHANGED <<cola, sem, cpus, planificadores>> /\ kernel_vivo' \in BOOLEAN
    OBVIOUS
  <2>4. cliente[c].llamada < MaxLlamadas /\ cliente[c].pc # "fuera"
    BY DEF PuedeLlamar
  <2>5. InicioValido(inicio) /\ inicio.pc \notin Publicando
    <3>1. s \notin Dispositivos
      BY <1>a DEF ConstantesValidas
    <3> QED BY <3>1 DEF InicioValido, PasosHilo, Publicando
  <2>6. LlamaYSigue(c) \/ LlamaYEspera(c, "espera", inicio)
    OBVIOUS
  <2> HIDE DEF inicio, espera
  <2> HIDE <1>3 DEF MateSemWait
  <2> QED BY <2>1, <2>2, <2>3, <2>4, <2>5, <2>6, LlamadaEstable
<1>4. ASSUME NEW s \in Semaforos, MateSemPost(c, s) PROVE IInv'
  <2> USE <1>4 DEF MateSemPost
  <2> DEFINE en_espera == semaforo[s].en_espera
             despacha == en_espera # << >> /\ semaforo[s].valor + 1 > -1
             quedan == IF despacha THEN SinElMuerto(en_espera) ELSE en_espera
             despierta == despacha /\ quedan # << >> /\ carpincho[Head(quedan)].existe
             espera == IF despierta THEN Tail(quedan) ELSE quedan
             inicio == [pc |-> "despierta", recurso |-> s, objetivo |-> Head(quedan)]
  <2>1. quedan \in Seq(Carpinchos)
    <3>1. en_espera \in Seq(Carpinchos)
      BY DEF TipoRecursos
    <3>2. en_espera # << >> => SinElMuerto(en_espera) \in Seq(Carpinchos)
      BY <3>1, TailEs DEF SinElMuerto
    <3> QED BY <3>1, <3>2
  <2>2. espera \in Seq(Carpinchos)
    BY <2>1, TailEs
  <2>3. despierta => Head(quedan) \in Carpinchos
    BY <2>1, TailEs
  <2>4. semaforo' = [semaforo EXCEPT ![s] = [@ EXCEPT !.valor = semaforo[s].valor + 1,
                                                      !.en_espera = espera]]
    BY DEF TipoRecursos
  <2>5. TipoRecursos'
    <3>1. UNCHANGED dispositivo_sem
      OBVIOUS
    <3> HIDE DEF espera
    <3> HIDE <1>4
    <3> QED BY <1>c, <1>e, <2>2, <2>4, <3>1
  <2>6. TipoCarpincho'
    BY DEF TipoCarpincho
  <2>7. UNCHANGED <<cola, sem, cpus, planificadores>> /\ kernel_vivo' \in BOOLEAN
    OBVIOUS
  <2>8. cliente[c].llamada < MaxLlamadas /\ cliente[c].pc # "fuera"
    BY DEF PuedeLlamar
  <2>9. IF despierta THEN LlamaYEspera(c, "espera", inicio) ELSE LlamaYSigue(c)
    OBVIOUS
  <2>10. despierta => InicioValido(inicio) /\ inicio.pc \notin Publicando
    BY <2>3 DEF InicioValido, PasosHilo, Publicando
  <2> HIDE DEF inicio, espera, despierta, quedan
  <2> HIDE <1>4 DEF MateSemPost
  <2>11. CASE despierta
    BY <2>5, <2>6, <2>7, <2>8, <2>9, <2>10, <2>11, LlamadaEstable
  <2>12. CASE ~despierta
    BY <2>5, <2>6, <2>7, <2>8, <2>9, <2>12, LlamadaEstable
  <2> QED BY <2>11, <2>12
<1>5. ASSUME NEW d \in Dispositivos, MateCallIo(c, d) PROVE IInv'
  <2> USE <1>5 DEF MateCallIo
  <2> DEFINE inicio == [pc |-> "bloquea_mueve", recurso |-> d, objetivo |-> c]
  <2>1. TipoRecursos' /\ TipoCarpincho'
    BY <1>b DEF TipoRecursos
  <2>2. UNCHANGED <<cola, sem, cpus, planificadores>> /\ kernel_vivo' \in BOOLEAN
    OBVIOUS
  <2>3. cliente[c].llamada < MaxLlamadas
    BY DEF PuedeLlamar
  <2>4. InicioValido(inicio) /\ inicio.pc \notin Publicando
    BY DEF InicioValido, PasosHilo, Publicando
  <2>5. LlamaYEspera(c, "espera", inicio)
    OBVIOUS
  <2> HIDE DEF inicio
  <2> QED BY <2>1, <2>2, <2>3, <2>4, <2>5, LlamadaEstable
<1>6. CASE MateClose(c)
  <2> USE <1>6 DEF MateClose
  <2>1. TipoRecursos' /\ TipoCarpincho'
    BY <1>b DEF TipoRecursos
  <2>2. UNCHANGED <<cola, sem, cpus, planificadores>> /\ kernel_vivo' \in BOOLEAN
    OBVIOUS
  <2>3. cliente[c].llamada < MaxLlamadas
    BY DEF PuedeLlamar
  <2>4. InicioValido(InicioCierre(c)) /\ InicioCierre(c).pc \notin Publicando
    <3>1. /\ InicioCierre(c).pc \in {"cierra_exec", "cierra_blocked", "cierra_suspended"}
          /\ InicioCierre(c) = [pc |-> InicioCierre(c).pc, recurso |-> Nadie, objetivo |-> Nadie]
      BY DEF InicioCierre
    <3>2. Nadie \notin Dispositivos
      BY <1>a DEF ConstantesValidas
    <3> QED BY <3>1, <3>2 DEF InicioValido, PasosHilo, PasosCierre, Publicando
  <2>5. LlamaYEspera(c, "cierra", InicioCierre(c))
    OBVIOUS
  <2> QED BY <2>1, <2>2, <2>3, <2>4, <2>5, LlamadaEstable
<1>7. CASE ReenviaAMemoria(c)
  <2> USE <1>7 DEF ReenviaAMemoria
  <2> DEFINE inicio == [pc |-> "memoria", recurso |-> Nadie, objetivo |-> Nadie]
  <2>1. TipoRecursos' /\ TipoCarpincho'
    BY <1>b DEF TipoRecursos
  <2>2. UNCHANGED <<cola, sem, cpus, planificadores>> /\ kernel_vivo' \in BOOLEAN
    OBVIOUS
  <2>3. cliente[c].llamada < MaxLlamadas
    BY DEF PuedeLlamar
  <2>4. InicioValido(inicio) /\ inicio.pc \notin Publicando
    <3>1. Nadie \notin Dispositivos
      BY <1>a DEF ConstantesValidas
    <3> QED BY <3>1 DEF InicioValido, PasosHilo, Publicando
  <2>5. LlamaYEspera(c, "espera", inicio)
    OBVIOUS
  <2> HIDE DEF inicio
  <2> QED BY <2>1, <2>2, <2>3, <2>4, <2>5, LlamadaEstable
<1> QED BY <1>1, <1>2, <1>3, <1>4, <1>5, <1>6, <1>7

\* The answer of memoria ends a call.
LEMMA PasoMemoria ==
    ASSUME NEW h \in Hilos PROVE IInv /\ MemoriaContesta(h) => IInv'
<1> SUFFICES ASSUME IInv, MemoriaContesta(h) PROVE IInv'
  OBVIOUS
<1> USE DEF IInv, TypeOK, cpus, planificadores, recursos, MemoriaContesta
<1>1. h[1] \in Carpinchos
  BY DEF Hilos, HilosServidor, HilosDetector
<1>2. (\A k \in Hilos \ {h} : hilo'[k] = hilo[k]) /\ hilo'[h] = HiloLibre
  BY TerminaCambia
<1>3. /\ TipoCliente'
      /\ \A c \in Carpinchos : /\ cliente'[c].llamada = cliente[c].llamada
                               /\ cliente'[c].pc = "fuera" => cliente[c].pc = "fuera"
  BY <1>1, TipoContesta DEF Contesta, TipoCliente
<1>4. TypeOK'
  BY <1>3, TipoTermina
     DEF TipoCola, TipoSem, TipoCarpincho, TipoCPU, TipoPlanificadores, TipoRecursos
<1>5. Auxiliar'
  BY <1>2, <1>3, AuxiliarDeHilo
<1> QED BY <1>2, <1>4, <1>5, HiloEstable DEF Publicando, HiloLibre

LEMMA PasoIo ==
    ASSUME NEW h \in Hilos PROVE IInv /\ mate_call_io(h) => IInv'
<1> SUFFICES ASSUME IInv, mate_call_io(h) PROVE IInv'
  OBVIOUS
<1> USE DEF IInv, TypeOK, cpus, planificadores, recursos, llamadas
<1>1. ASSUME NEW paso \in {"io_usa", "despierta"}, hilo[h].pc \in {"io_pide", "io_usa"},
             Sigue(h, paso), TipoRecursos',
             UNCHANGED <<cola, sem, carpincho, cpus, planificadores, cliente, kernel_vivo>>
      PROVE  IInv'
  <2> USE <1>1
  <2>1. /\ \A k \in Hilos \ {h} : hilo'[k] = hilo[k]
        /\ hilo'[h].pc = paso
        /\ hilo'[h].recurso = hilo[h].recurso /\ hilo'[h].objetivo = hilo[h].objetivo
    BY SigueCambia
  <2>2. TipoHilo'
    BY TipoSigue DEF PasosHilo
  <2>3. TypeOK'
    BY <2>2 DEF TipoCola, TipoSem, TipoCarpincho, TipoCPU, TipoPlanificadores, TipoCliente
  <2>4. hilo[h].objetivo \in Carpinchos
    BY DEF Auxiliar, HilosConObjetivo
  <2>5. Auxiliar'
    BY <2>1, <2>4, AuxiliarDeHilo
  <2> QED BY <2>1, <2>3, <2>5, HiloEstable DEF Publicando
<1>2. CASE IoToma(h)
  <2> DEFINE d == hilo[h].recurso
  <2>1. /\ dispositivo_sem \in [Dispositivos -> Nat] /\ dispositivo_sem[d] > 0
        /\ dispositivo_sem' = [dispositivo_sem EXCEPT ![d] = dispositivo_sem[d] - 1]
        /\ UNCHANGED semaforo
    BY <1>2 DEF IoToma, TomaDispositivo, TipoRecursos
  <2> HIDE DEF d
  <2>2. dispositivo_sem' \in [Dispositivos -> Nat]
    <3>1. CASE d \in Dispositivos
      BY <2>1, <3>1
    <3>2. CASE d \notin Dispositivos
      BY <2>1, <3>2
    <3> QED BY <3>1, <3>2
  <2>3. TipoRecursos'
    BY <2>1, <2>2 DEF TipoRecursos
  <2> QED BY <1>1, <1>2, <2>3 DEF IoToma
<1>3. CASE IoDevuelve(h)
  <2> DEFINE d == hilo[h].recurso
  <2>1. /\ dispositivo_sem \in [Dispositivos -> Nat]
        /\ dispositivo_sem' = [dispositivo_sem EXCEPT ![d] = dispositivo_sem[d] + 1]
        /\ UNCHANGED semaforo
    BY <1>3 DEF IoDevuelve, DevuelveDispositivo, TipoRecursos
  <2> HIDE DEF d
  <2>2. dispositivo_sem' \in [Dispositivos -> Nat]
    <3>1. CASE d \in Dispositivos
      BY <2>1, <3>1
    <3>2. CASE d \notin Dispositivos
      BY <2>1, <3>2
    <3> QED BY <3>1, <3>2
  <2>3. TipoRecursos'
    BY <2>1, <2>2 DEF TipoRecursos
  <2> QED BY <1>1, <1>3, <2>3 DEF IoDevuelve
<1> QED BY <1>2, <1>3 DEF mate_call_io

\* A carpincho is closed.
LEMMA PasoCierre ==
    ASSUME NEW h \in Hilos PROVE IInv /\ mate_close(h) => IInv'
<1> SUFFICES ASSUME IInv, mate_close(h) PROVE IInv'
  OBVIOUS
<1> USE DEF IInv, TypeOK, cpus, planificadores, recursos, llamadas
<1>a. h[1] \in Carpinchos
  BY DEF Hilos, HilosServidor, HilosDetector
<1>1. ASSUME NEW paso \in {"cierra_exec", "cierra_blocked", "cierra_suspended"},
             NEW q \in {"exec", "blocked", "suspended_blocked"}, Cierra(h, paso, q), TipoCPU',
             \A j \in CPUs : /\ hilo_CPU'[j].pc = hilo_CPU[j].pc
                             /\ hilo_CPU'[j].usar = hilo_CPU[j].usar
      PROVE  IInv'
  <2> USE <1>1 DEF Cierra
  <2>1. TipoCola' /\ \A p \in Colas \ {q} : cola'[p] = cola[p]
    <3>1. cola[q] \in Seq(Carpinchos)
      BY DEF TipoCola, Colas
    <3>2. RemoveFirst(cola[q], h[1]) \in Seq(Carpinchos)
      BY <3>1, RemoveFirstEs
    <3> QED BY <3>2 DEF TipoCola
  <2>2. TipoCarpincho'
    BY DEF TipoCarpincho
  <2>3. /\ \A k \in Hilos \ {h} : hilo'[k] = hilo[k]
        /\ hilo'[h].pc = "cierra_grado"
        /\ hilo'[h].recurso = hilo[h].recurso /\ hilo'[h].objetivo = hilo[h].objetivo
    BY SigueCambia
  <2>4. TipoHilo'
    BY TipoSigue DEF PasosHilo, PasosCierre
  <2>5. TypeOK'
    BY <2>1, <2>2, <2>4 DEF TipoSem, TipoPlanificadores, TipoRecursos, TipoCliente
  <2>6. Auxiliar'
    BY <2>3, AuxiliarDeHilo
  <2> QED BY <2>1, <2>3, <2>5, <2>6, HiloEstable DEF Colas, Publicando
<1>2. CASE CierraExec(h)
  <2> DEFINE i == carpincho[h[1]].CPU_en_uso
  <2>1. i \in CPUs \cup {SinCPU} /\ PostLiberar(i)
    BY <1>a, <1>2 DEF TipoCarpincho, CierraExec
  <2> HIDE DEF i
  <2>2. /\ TipoCPU'
        /\ \A j \in CPUs : /\ hilo_CPU'[j].pc = hilo_CPU[j].pc
                           /\ hilo_CPU'[j].usar = hilo_CPU[j].usar
    BY <1>2, <2>1, TipoPostLiberar DEF CierraExec, Cierra
  <2> QED BY <1>1, <1>2, <2>2 DEF CierraExec
<1>3. CASE CierraBlocked(h)
  <2>1. TipoCPU'
    BY <1>3 DEF CierraBlocked, Cierra, TipoCPU
  <2> QED BY <1>1, <1>3, <2>1 DEF CierraBlocked
<1>4. CASE CierraSuspended(h)
  <2>1. TipoCPU'
    BY <1>4 DEF CierraSuspended, Cierra, TipoCPU
  <2> QED BY <1>1, <1>4, <2>1 DEF CierraSuspended
<1>5. CASE CierraGrado(h)
  <2> USE <1>5 DEF CierraGrado
  <2>1. /\ TipoSem'
        /\ \A s \in Contadores \ {"grado_multiprogramacion_libre"} : sem'[s] = sem[s]
    BY TipoSemPost DEF Contadores, SemPost, TipoSem
  <2>2. (\A k \in Hilos \ {h} : hilo'[k] = hilo[k]) /\ hilo'[h] = HiloLibre
    BY TerminaCambia
  <2>3. /\ TipoCliente'
        /\ \A c \in Carpinchos : /\ cliente'[c].llamada = cliente[c].llamada
                                 /\ cliente'[c].pc = "fuera" => cliente[c].pc = "fuera"
    BY <1>a DEF TipoCliente
  <2>4. TypeOK'
    BY <2>1, <2>3, TipoTermina
       DEF TipoCola, TipoCarpincho, TipoCPU, TipoPlanificadores, TipoRecursos
  <2>5. Auxiliar'
    BY <2>2, <2>3, AuxiliarDeHilo
  <2> QED BY <2>1, <2>2, <2>4, <2>5, HiloEstable DEF Publicando, HiloLibre
<1> QED BY <1>2, <1>3, <1>4, <1>5 DEF mate_close

-----------------------------------------------------------------------------
(* The permits of the semaphores of the carpinchos.                        *)

\* The semaphores change only with the calls on them.
LEMMA RecursosQuietos ==
    ASSUME \/ entrantes_a_ready \/ ready_a_exec \/ suspender
           \/ \E i \in CPUs : ejecuta(i)
           \/ \E h \in Hilos : Atiende(h)
           \/ \E c \in Carpinchos : \/ MateInit(c) \/ MateInitSinMemoria(c)
                                    \/ ReenviaAMemoria(c) \/ MateClose(c)
                                    \/ \E d \in Dispositivos : MateCallIo(c, d)
    PROVE  semaforo' = semaforo
<1> USE DEF recursos
<1>1. CASE entrantes_a_ready
  BY <1>1 DEF entrantes_a_ready, LargoEsperaEstructura, LargoEsperaGrado, LargoMira,
     LargoDeSuspendedReady, LargoDeNew, LargoAdmite, LargoPublica
<1>2. CASE ready_a_exec
  BY <1>2 DEF ready_a_exec, CortoEsperaReady, CortoEsperaCPU, CortoElige, CortoMueve,
     CortoEstado, CortoResponde
<1>3. CASE suspender
  BY <1>3 DEF suspender, SuspensorEspera, SuspensorLeeEntrantes, SuspensorLeeReady,
     SuspensorLeeBlocked, SuspensorLee, SuspensorMueve, SuspensorEstado, SuspensorLibera,
     SuspensorDevuelve
<1>4. CASE \E i \in CPUs : ejecuta(i)
  BY <1>4 DEF ejecuta, CPUToma, CPUOcupa, CPULibera, CPUAnuncia
<1>5. ASSUME NEW h \in Hilos, Atiende(h) PROVE semaforo' = semaforo
  <2>1. CASE MateInitPublica(h) \/ exec_a_block(h)
    BY <2>1 DEF MateInitPublica, exec_a_block, BloqueaMueve, BloqueaEstado, BloqueaLibera
  <2>2. CASE despertar(h)
    BY <2>2 DEF despertar, Despierta, ReadyMueve, ReadyPublica, SuspendedMueve,
       SuspendedPublica, Publica
  <2>3. CASE mate_call_io(h) \/ MemoriaContesta(h)
    BY <2>3 DEF mate_call_io, IoToma, IoDevuelve, MemoriaContesta
  <2>4. CASE mate_close(h)
    BY <2>4 DEF mate_close, CierraExec, CierraBlocked, CierraSuspended, Cierra, CierraGrado
  <2> QED BY <1>5, <2>1, <2>2, <2>3, <2>4 DEF Atiende
<1>6. CASE \E c \in Carpinchos : \/ MateInit(c) \/ MateInitSinMemoria(c)
                                 \/ ReenviaAMemoria(c) \/ MateClose(c)
                                 \/ \E d \in Dispositivos : MateCallIo(c, d)
  BY <1>6 DEF MateInit, MateInitSinMemoria, ReenviaAMemoria, MateClose, MateCallIo
<1> QED BY <1>1, <1>2, <1>3, <1>4, <1>5, <1>6

\* A call on a semaphore never leaves it owing more permits than carpinchos queue.
LEMMA PasoPermisos ==
    ASSUME TypeOK, PermisosNoNegativos, NEW c \in Carpinchos, NEW s \in Semaforos,
           MateSemInit(c, s) \/ MateSemWait(c, s) \/ MateSemPost(c, s) \/ MateSemDestroy(c, s)
    PROVE  PermisosNoNegativos'
<1> DEFINE v == semaforo[s].valor
           e == semaforo[s].en_espera
<1>1. /\ semaforo \in [Semaforos -> [existe : BOOLEAN, valor : Int,
                                     en_espera : Seq(Carpinchos)]]
      /\ v \in Int /\ e \in Seq(Carpinchos) /\ Len(e) \in Nat /\ v + Len(e) >= 0
  BY DEF TypeOK, TipoRecursos, PermisosNoNegativos
<1>2. SUFFICES /\ semaforo'[s].valor + Len(semaforo'[s].en_espera) >= 0
               /\ \A r \in Semaforos \ {s} : semaforo'[r] = semaforo[r]
  BY DEF PermisosNoNegativos
<1>3. CASE MateSemInit(c, s)
  BY <1>1, <1>3, ConstantesValidas DEF MateSemInit, Creado, ConstantesValidas
<1>4. CASE MateSemWait(c, s)
  <2>1. semaforo'[s].valor = v - 1 /\ \A r \in Semaforos \ {s} : semaforo'[r] = semaforo[r]
    BY <1>1, <1>4 DEF MateSemWait
  <2>2. CASE Bloquea(s)
    <3>1. semaforo'[s].en_espera = Append(e, c)
      BY <1>1, <1>4, <2>2 DEF MateSemWait
    <3> QED BY <1>1, <2>1, <3>1, AppendProperties
  <2>3. CASE ~Bloquea(s)
    <3>1. semaforo'[s].en_espera = e /\ v - 1 >= 0
      BY <1>1, <1>4, <2>3 DEF MateSemWait, Bloquea
    <3> QED BY <1>1, <2>1, <3>1
  <2> QED BY <2>2, <2>3
<1>5. CASE MateSemPost(c, s)
  <2> DEFINE despacha == e # << >> /\ v + 1 > -1
             quedan == IF despacha THEN SinElMuerto(e) ELSE e
             despierta == despacha /\ quedan # << >> /\ carpincho[Head(quedan)].existe
  <2>1. /\ semaforo'[s].valor = v + 1
        /\ semaforo'[s].en_espera = IF despierta THEN Tail(quedan) ELSE quedan
        /\ \A r \in Semaforos \ {s} : semaforo'[r] = semaforo[r]
    BY <1>1, <1>5 DEF MateSemPost
  <2>2. /\ quedan \in Seq(Carpinchos) /\ Len(quedan) \in Nat
        /\ ~despacha => quedan = e
        /\ Len(quedan) >= Len(e) - 1
    BY <1>1 DEF SinElMuerto
  <2> HIDE DEF quedan
  <2>3. CASE despierta
    <3>1. Len(Tail(quedan)) >= 0 /\ v + 1 >= 0
      BY <1>1, <2>2, <2>3
    <3> QED BY <1>1, <2>1, <2>3, <3>1
  <2>4. CASE ~despierta
    <3>1. v + 1 + Len(quedan) >= 0
      BY <1>1, <2>2
    <3> QED BY <2>1, <2>4, <3>1
  <2> QED BY <2>3, <2>4
<1>6. CASE MateSemDestroy(c, s)
  BY <1>1, <1>6 DEF MateSemDestroy, Inexistente
<1> QED BY <1>3, <1>4, <1>5, <1>6

\* No step leaves a semaphore owing more permits than carpinchos queue.
LEMMA SiguenLosPermisos ==
    ASSUME TypeOK, PermisosNoNegativos, [Next]_vars
    PROVE  PermisosNoNegativos'
<1>1. CASE semaforo' = semaforo
  BY <1>1 DEF PermisosNoNegativos
<1>2. CASE UNCHANGED vars
  BY <1>1, <1>2 DEF vars, recursos
<1>3. CASE Next
  BY <1>1, <1>3, RecursosQuietos, PasoPermisos DEF Next, handler
<1> QED BY <1>2, <1>3

-----------------------------------------------------------------------------
(* The invariant and what follows from it.                                 *)

LEMMA PasoIInv == IInv /\ [Next]_vars => IInv'
<1> SUFFICES ASSUME IInv, [Next]_vars PROVE IInv'
  OBVIOUS
<1>1. CASE entrantes_a_ready
  BY <1>1, PasoLargo
<1>2. CASE ready_a_exec
  BY <1>2, PasoCorto
<1>3. CASE suspender
  BY <1>3, PasoSuspensor
<1>4. ASSUME NEW i \in CPUs, ejecuta(i) PROVE IInv'
  BY <1>4, PasoCPU
<1>5. ASSUME NEW h \in Hilos, Atiende(h) PROVE IInv'
  BY <1>5, PasoInitPublica, PasoBloquea, PasoDespierta, PasoIo, PasoMemoria, PasoCierre DEF Atiende
<1>6. ASSUME NEW c \in Carpinchos, handler(c) PROVE IInv'
  <2>1. CASE MateInit(c) \/ MateInitSinMemoria(c)
    BY <2>1, PasoInit
  <2>2. CASE \/ \E s \in Semaforos : \/ MateSemInit(c, s) \/ MateSemWait(c, s)
                                     \/ MateSemPost(c, s) \/ MateSemDestroy(c, s)
             \/ \E d \in Dispositivos : MateCallIo(c, d)
             \/ ReenviaAMemoria(c) \/ MateClose(c)
    BY <2>2, PasoLlamada
  <2> QED BY <1>6, <2>1, <2>2 DEF handler
<1>7. CASE UNCHANGED vars
  <2> USE <1>7 DEF vars, cpus, planificadores, recursos, llamadas, IInv, TypeOK, Auxiliar
  <2>1. TypeOK'
    BY DEF TipoCola, TipoSem, TipoCarpincho, TipoCPU, TipoPlanificadores, TipoRecursos,
           TipoHilo, TipoCliente
  <2>2. Auxiliar'
    BY DEF SuspensorTieneIndice, HilosConObjetivo, HilosFuturosLibres
  <2>3. CuentaEntrantes' /\ LargoPlazoEncuentra'
    BY EntrantesEstables, PorPublicarIgual
  <2>4. CuentaReady' /\ CortoPlazoEncuentra'
    BY ReadyEstable, PorPublicarIgual
  <2>5. CuentaCPUs' /\ CPUExclusiva'
    BY CPUsEstables
  <2> QED BY <2>1, <2>2, <2>3, <2>4, <2>5
<1> QED BY <1>1, <1>2, <1>3, <1>4, <1>5, <1>6, <1>7 DEF Next

\* The inductive invariant holds in every reachable state.
THEOREM Invariante == Spec => []IInv
BY InicioIInv, PasoIInv, PTL DEF Spec

\* Every variable keeps its type: no counting semaphore goes below zero, every
\* thread is at a known step, every queue holds carpinchos.
THEOREM TipoCorrecto == Spec => []TypeOK
<1>1. IInv => TypeOK
  BY DEF IInv
<1> QED BY <1>1, Invariante, PTL

\* The account of hay_estructura_creada is exact whatever the planners, the
\* carpinchos and the deadlock detector interleave: no carpincho enters new or
\* suspended_ready without its token, and no token is posted twice.
THEOREM EntrantesContados == Spec => []CuentaEntrantes
<1>1. IInv => CuentaEntrantes
  BY DEF IInv
<1> QED BY <1>1, Invariante, PTL

\* entrantes_a_ready never pops an empty queue, although it tests
\* suspended_ready before it takes the mutex.
THEOREM LargoEncuentra == Spec => []LargoPlazoEncuentra
<1>1. IInv => LargoPlazoEncuentra
  BY DEF IInv
<1> QED BY <1>1, Invariante, PTL

\* The account of cola_ready_con_elementos is exact.
THEOREM ReadyContados == Spec => []CuentaReady
<1>1. IInv => CuentaReady
  BY DEF IInv
<1> QED BY <1>1, Invariante, PTL

\* ready_a_exec never runs its algorithm on an empty ready queue, never finds
\* CPU_libres empty, and the carpincho it chose is still in ready when it moves it.
THEOREM CortoEncuentra == Spec => []CortoPlazoEncuentra
<1>1. IInv => CortoPlazoEncuentra
  BY DEF IInv
<1> QED BY <1>1, Invariante, PTL

\* The account of sem_grado_multiprocesamiento_libre is exact.
THEOREM CPUsContadas == Spec => []CuentaCPUs
<1>1. IInv => CuentaCPUs
  BY DEF IInv
<1> QED BY <1>1, Invariante, PTL

\* No CPU is handed to two carpinchos by ready_a_exec, even when liberar_CPU is
\* posted twice for the same carpincho.
THEOREM CPUNoSeRepite == Spec => []CPUExclusiva
<1>1. IInv => CPUExclusiva
  BY DEF IInv
<1> QED BY <1>1, Invariante, PTL

\* A semaphore never lets more carpinchos through than its permits, although a
\* dead waiter is dropped with its wakeup: what is owed is queued.
THEOREM PermisosContados == Spec => []PermisosNoNegativos
<1>1. Init => PermisosNoNegativos
  BY ConstantesValidas DEF ConstantesValidas, Init, PermisosNoNegativos, Creado, Inexistente
<1>2. TypeOK /\ PermisosNoNegativos /\ [Next]_vars => PermisosNoNegativos'
  BY SiguenLosPermisos
<1> QED BY <1>1, <1>2, TipoCorrecto, PTL DEF Spec
=============================================================================
