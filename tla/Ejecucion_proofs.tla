-------------------------- MODULE Ejecucion_proofs --------------------------
(***************************************************************************)
(* Proofs about exec and the CPUs, for every number of carpinchos, CPUs,   *)
(* slots, semaphores, devices and calls.                                   *)
(*                                                                         *)
(* A carpincho runs only in exec.  It may be in exec more than once, since *)
(* whoever wakes it may not wait for it to have left: its entries there    *)
(* are counted.                                                            *)
(*                                                                         *)
(* While nobody is suspended exec holds no more carpinchos than there are  *)
(* CPUs, by an account of who has each CPU.  If moreover a post cannot wake*)
(* a carpincho that has not left exec yet, each carpincho is at one place  *)
(* at a time and the CPU of one that is in exec is nobody else's.  With a  *)
(* slot for every call nobody is suspended.                                *)
(***************************************************************************)
EXTENDS Planificador_proofs

Veces(c) == VecesEn(cola["exec"], c)

\* The threads that are about to take c out of exec.
Sacando == {"bloquea_mueve", "cierra_exec"}
Sacan(c) == {h \in Hilos : h[1] = c /\ hilo[h].pc \in Sacando}
Saliendo(c) == Cardinality(Sacan(c))

\* The calls that are answered without leaving exec: those to memoria, and a post while
\* it wakes somebody.
Despertando == {"despierta", "ready_mueve", "ready_publica", "suspended_mueve",
                "suspended_publica"}
Presta(t) ==
    \/ t.pc = "memoria"
    \/ t.pc \in Despertando /\ t.recurso \in Semaforos

\* c is using its CPU, or will be when its call is answered.
Ejecuta(c) ==
    \/ cliente[c].pc = "corre"
    \/ /\ cliente[c].pc = "espera"
       /\ \E h \in Hilos : h = <<c, cliente[c].llamada>> /\ Presta(hilo[h])

\* c was moved to exec and is about to be told.
Llegando(c) == corto.pc \in {"estado", "responde"} /\ corto.carpincho = c

\* c is in exec once for each thread that will take it out, for its being told to run
\* and for its running.
TieneLugar(c) == Veces(c) >= Saliendo(c) + Uno(Ejecuta(c)) + Uno(Llegando(c))
LugarEnExec == \A c \in Carpinchos : TieneLugar(c)

\* Only a call of I/O asks for a device and returns it.
IoConDispositivo ==
    \A h \in Hilos : hilo[h].pc \in {"io_pide", "io_usa"} => hilo[h].recurso \in Dispositivos

EInv == LugarEnExec /\ IoConDispositivo

-----------------------------------------------------------------------------
(* The terms of the account.                                               *)

LEMMA TerminosBien ==
    ASSUME TipoCola, NEW c \in Carpinchos
    PROVE  /\ Veces(c) \in Nat /\ Saliendo(c) \in Nat
           /\ Veces(c) > 0 => c \in Range(cola["exec"])
           /\ Uno(Ejecuta(c)) \in {0, 1} /\ Uno(Llegando(c)) \in {0, 1}
<1>1. cola["exec"] \in Seq(Carpinchos)
  BY DEF TipoCola, Colas
<1>2. Veces(c) \in Nat /\ (Veces(c) > 0 => c \in Range(cola["exec"]))
  BY <1>1, VecesEs DEF Veces
<1>3. Saliendo(c) \in Nat
  <2>1. Sacan(c) \in SUBSET Hilos
    BY DEF Sacan
  <2> QED BY <2>1, HilosFinitos, FS_Subset, FS_CardinalityType DEF Saliendo
<1> QED BY <1>2, <1>3 DEF Uno

\* What a step of the thread h does to the number of threads that take c out of exec.
LEMMA SaliendoCambia ==
    ASSUME NEW h \in Hilos, \A k \in Hilos \ {h} : hilo'[k] = hilo[k], NEW c \in Carpinchos
    PROVE  /\ Saliendo(c) \in Nat /\ Saliendo(c)' \in Nat
           /\ c # h[1] => Saliendo(c)' = Saliendo(c)
           /\ c = h[1] => Saliendo(c)' = Saliendo(c) - Uno(hilo[h].pc \in Sacando)
                                                     + Uno(hilo'[h].pc \in Sacando)
<1> DEFINE A == Sacan(c)
           B == Sacan(c)'
<1>1. A \in SUBSET Hilos /\ B \in SUBSET Hilos /\ A \ {h} = B \ {h}
  BY DEF Sacan
<1>2. /\ h \in A <=> (h[1] = c /\ hilo[h].pc \in Sacando)
      /\ h \in B <=> (h[1] = c /\ hilo'[h].pc \in Sacando)
  BY DEF Sacan
<1> HIDE DEF A, B
<1>3. /\ Cardinality(A) \in Nat /\ Cardinality(B) \in Nat
      /\ Cardinality(B) = Cardinality(A) - Uno(h \in A) + Uno(h \in B)
  BY <1>1, HilosFinitos, CuentaSalvoUno
<1>4. CASE c # h[1]
  BY <1>2, <1>3, <1>4 DEF A, B, Saliendo, Uno
<1>5. CASE c = h[1]
  <2>1. Uno(h \in A) = Uno(hilo[h].pc \in Sacando) /\ Uno(h \in B) = Uno(hilo'[h].pc \in Sacando)
    BY <1>2, <1>5 DEF Uno
  <2> QED BY <1>3, <1>5, <2>1 DEF A, B, Saliendo
<1> QED BY <1>4, <1>5

\* Whether another carpincho runs does not depend on the thread h.
LEMMA EjecutaDeOtro ==
    ASSUME NEW h, \A k \in Hilos \ {h} : hilo'[k] = hilo[k],
           NEW c \in Carpinchos, c # h[1], cliente'[c] = cliente[c]
    PROVE  Ejecuta(c)' = Ejecuta(c)
<1>1. ASSUME NEW k \in Hilos, k = <<c, cliente[c].llamada>> PROVE hilo'[k] = hilo[k]
  BY <1>1
<1> QED BY <1>1 DEF Ejecuta, Presta

\* A step of the thread h gives back the place of its carpincho in exec that it takes.
LEMMA HiloConLugar ==
    ASSUME TypeOK, TypeOK', EInv, NEW h \in Hilos, \A k \in Hilos \ {h} : hilo'[k] = hilo[k],
           UNCHANGED corto,
           \A c \in Carpinchos \ {h[1]} : cliente'[c] = cliente[c] /\ Veces(c)' >= Veces(c),
           Veces(h[1])' - Uno(hilo'[h].pc \in Sacando) - Uno(Ejecuta(h[1])') >=
              Veces(h[1]) - Uno(hilo[h].pc \in Sacando) - Uno(Ejecuta(h[1])),
           hilo'[h].pc \in {"io_pide", "io_usa"} => hilo'[h].recurso \in Dispositivos
    PROVE  EInv'
<1>1. h[1] \in Carpinchos
  BY DEF Hilos, HilosServidor, HilosDetector
<1>2. TipoCola /\ TipoCola'
  BY DEF TypeOK
<1>3. ASSUME NEW c \in Carpinchos PROVE TieneLugar(c)'
  <2>1. TieneLugar(c)
    BY DEF EInv, LugarEnExec
  <2>2. /\ Veces(c) \in Nat /\ Veces(c)' \in Nat
        /\ Saliendo(c) \in Nat /\ Saliendo(c)' \in Nat
        /\ Uno(Ejecuta(c)) \in {0, 1} /\ Uno(Ejecuta(c))' \in {0, 1}
        /\ Uno(Llegando(c)) \in {0, 1} /\ Uno(Llegando(c))' = Uno(Llegando(c))
    <3>1. Veces(c) \in Nat /\ Uno(Ejecuta(c)) \in {0, 1} /\ Uno(Llegando(c)) \in {0, 1}
      BY <1>2, TerminosBien
    <3>2. Veces(c)' \in Nat /\ Uno(Ejecuta(c))' \in {0, 1}
      BY <1>2, VecesEs DEF Veces, TipoCola, Colas, Uno
    <3>3. Uno(Llegando(c))' = Uno(Llegando(c))
      BY DEF Llegando
    <3> QED BY <3>1, <3>2, <3>3, SaliendoCambia
  <2>3. CASE c # h[1]
    <3>1. Saliendo(c)' = Saliendo(c) /\ Veces(c)' >= Veces(c)
      BY <2>3, SaliendoCambia
    <3>2. Ejecuta(c)' = Ejecuta(c)
      BY <2>3, EjecutaDeOtro
    <3>3. Uno(Ejecuta(c))' = Uno(Ejecuta(c))
      BY <3>2
    <3> QED BY <2>1, <2>2, <3>1, <3>3 DEF TieneLugar
  <2>4. CASE c = h[1]
    <3>1. Saliendo(c)' = Saliendo(c) - Uno(hilo[h].pc \in Sacando)
                                     + Uno(hilo'[h].pc \in Sacando)
      BY <2>4, SaliendoCambia
    <3>2. /\ Uno(hilo[h].pc \in Sacando) \in {0, 1}
          /\ Uno(hilo'[h].pc \in Sacando) \in {0, 1}
      BY DEF Uno
    <3>3. Veces(c)' - Uno(hilo'[h].pc \in Sacando) - Uno(Ejecuta(c))' >=
              Veces(c) - Uno(hilo[h].pc \in Sacando) - Uno(Ejecuta(c))
      BY <2>4
    <3> QED BY <2>1, <2>2, <3>1, <3>2, <3>3 DEF TieneLugar
  <2> QED BY <2>3, <2>4
<1>4. IoConDispositivo'
  BY DEF EInv, IoConDispositivo
<1> QED BY <1>3, <1>4 DEF EInv, LugarEnExec

-----------------------------------------------------------------------------
(* The planners.                                                           *)

\* What touches neither exec nor the threads of the calls.
LEMMA LugarEstable ==
    ASSUME EInv, UNCHANGED <<hilo, cliente>>, cola'["exec"] = cola["exec"],
           \A c \in Carpinchos : Llegando(c)' = Llegando(c)
    PROVE  EInv'
<1>1. ASSUME NEW c \in Carpinchos PROVE TieneLugar(c)'
  <2>1. /\ Veces(c)' = Veces(c) /\ Saliendo(c)' = Saliendo(c)
        /\ Uno(Ejecuta(c))' = Uno(Ejecuta(c))
    BY DEF Veces, Saliendo, Sacan, Ejecuta, Presta
  <2>2. Uno(Llegando(c))' = Uno(Llegando(c))
    <3>1. Llegando(c)' = Llegando(c)
      OBVIOUS
    <3> QED BY <3>1
  <2>3. TieneLugar(c)
    BY DEF EInv, LugarEnExec
  <2> QED BY <2>1, <2>2, <2>3 DEF TieneLugar
<1>2. IoConDispositivo'
  BY DEF EInv, IoConDispositivo
<1> QED BY <1>1, <1>2 DEF EInv, LugarEnExec

\* The short-term planner moves a carpincho to exec before it answers it.
LEMMA CortoConLugar == IInv /\ TypeOK' /\ EInv /\ ready_a_exec => EInv'
<1> SUFFICES ASSUME IInv, TypeOK', EInv, ready_a_exec PROVE EInv'
  OBVIOUS
<1>1. CASE CortoEsperaReady \/ CortoEsperaCPU \/ \E c \in Carpinchos : CortoElige(c)
  <2>1. /\ UNCHANGED <<hilo, cliente>> /\ cola'["exec"] = cola["exec"]
        /\ corto.pc \notin {"estado", "responde"} /\ corto'.pc \notin {"estado", "responde"}
    BY <1>1 DEF CortoEsperaReady, CortoEsperaCPU, CortoElige, llamadas, IInv, TypeOK,
       TipoPlanificadores
  <2> QED BY <2>1, LugarEstable DEF Llegando
<1>2. CASE CortoMueve
  <2>1. PICK d \in Carpinchos : d = corto.carpincho
    <3>1. corto.carpincho \in Range(cola["ready"]) /\ cola["ready"] \in Seq(Carpinchos)
      BY <1>2 DEF CortoMueve, IInv, CortoPlazoEncuentra, TypeOK, TipoCola, Colas
    <3> QED BY <3>1 DEF Range
  <2>2. /\ cola["exec"] \in Seq(Carpinchos) /\ cola'["exec"] = Append(cola["exec"], d)
        /\ corto.pc = "mueve" /\ corto'.pc = "estado" /\ corto'.carpincho = d
        /\ UNCHANGED <<hilo, cliente>>
    BY <1>2, <2>1 DEF CortoMueve, Mueve, IInv, TypeOK, TipoCola, Colas, TipoPlanificadores,
       llamadas
  <2>3. ASSUME NEW c \in Carpinchos PROVE TieneLugar(c)'
    <3>1. /\ Saliendo(c)' = Saliendo(c) /\ Uno(Ejecuta(c))' = Uno(Ejecuta(c))
          /\ Veces(c)' = Veces(c) + (IF d = c THEN 1 ELSE 0)
          /\ Uno(Llegando(c)) = 0 /\ Uno(Llegando(c))' = (IF d = c THEN 1 ELSE 0)
      <4>1. Veces(c)' = Veces(c) + (IF d = c THEN 1 ELSE 0)
        BY <2>2, VecesAppend DEF Veces
      <4>2. Saliendo(c)' = Saliendo(c) /\ Uno(Ejecuta(c))' = Uno(Ejecuta(c))
        BY <2>2 DEF Saliendo, Sacan, Ejecuta, Presta
      <4>3. Uno(Llegando(c)) = 0 /\ Uno(Llegando(c))' = (IF d = c THEN 1 ELSE 0)
        BY <2>2 DEF Llegando, Uno
      <4> QED BY <4>1, <4>2, <4>3
    <3>2. TieneLugar(c) /\ Veces(c) \in Nat /\ Saliendo(c) \in Nat /\ Uno(Ejecuta(c)) \in {0, 1}
      BY TerminosBien DEF EInv, LugarEnExec, IInv, TypeOK
    <3> QED BY <3>1, <3>2 DEF TieneLugar
  <2>4. IoConDispositivo'
    BY <2>2 DEF EInv, IoConDispositivo
  <2> QED BY <2>3, <2>4 DEF EInv, LugarEnExec
<1>3. CASE CortoEstado
  <2>1. /\ UNCHANGED <<hilo, cliente>> /\ cola'["exec"] = cola["exec"]
        /\ corto.pc = "estado" /\ corto'.pc = "responde" /\ corto'.carpincho = corto.carpincho
    BY <1>3 DEF CortoEstado, llamadas, IInv, TypeOK, TipoPlanificadores
  <2> QED BY <2>1, LugarEstable DEF Llegando
<1>4. CASE CortoResponde
  <2>1. /\ corto.pc = "responde" /\ corto'.pc = "espera_ready" /\ UNCHANGED <<cola, hilo>>
        /\ \A c \in Carpinchos : c # corto.carpincho => cliente'[c] = cliente[c]
    BY <1>4 DEF CortoResponde, Contesta, IInv, TypeOK, TipoCliente
  <2>2. ASSUME NEW c \in Carpinchos PROVE TieneLugar(c)'
    <3>1. /\ Saliendo(c)' = Saliendo(c) /\ Veces(c)' = Veces(c) /\ Uno(Llegando(c))' = 0
      BY <2>1 DEF Saliendo, Sacan, Veces, Llegando, Uno
    <3>2. Uno(Ejecuta(c))' <= Uno(Ejecuta(c)) + Uno(Llegando(c))
      <4>1. CASE c = corto.carpincho
        BY <2>1, <4>1 DEF Llegando, Uno
      <4>2. CASE c # corto.carpincho
        <5>1. Ejecuta(c)' = Ejecuta(c)
          BY <2>1, <4>2 DEF Ejecuta, Presta
        <5> QED BY <5>1 DEF Uno
      <4> QED BY <4>1, <4>2
    <3>3. /\ TieneLugar(c) /\ Veces(c) \in Nat /\ Saliendo(c) \in Nat
          /\ Uno(Ejecuta(c)) \in {0, 1} /\ Uno(Llegando(c)) \in {0, 1}
          /\ Uno(Ejecuta(c))' \in {0, 1}
      <4>1. Uno(Ejecuta(c))' \in {0, 1}
        BY DEF Uno
      <4> QED BY <4>1, TerminosBien DEF EInv, LugarEnExec, IInv, TypeOK
    <3> QED BY <3>1, <3>2, <3>3 DEF TieneLugar
  <2>3. IoConDispositivo'
    BY <2>1 DEF EInv, IoConDispositivo
  <2> QED BY <2>2, <2>3 DEF EInv, LugarEnExec
<1> QED BY <1>1, <1>2, <1>3, <1>4 DEF ready_a_exec

\* The other planners and the CPUs do not touch exec.
LEMMA OtrosConLugar ==
    ASSUME TypeOK, EInv,
           \/ entrantes_a_ready
           \/ suspender
           \/ \E i \in CPUs : ejecuta(i)
           \/ UNCHANGED vars
    PROVE  EInv'
<1>1. UNCHANGED <<hilo, cliente, corto>> /\ cola'["exec"] = cola["exec"]
  <2> USE DEF llamadas, TypeOK, TipoCola, Colas, planificadores
  <2>1. CASE entrantes_a_ready
    BY <2>1 DEF entrantes_a_ready, LargoEsperaEstructura, LargoEsperaGrado, LargoMira,
       LargoDeSuspendedReady, LargoDeNew, LargoAdmite, LargoPublica, AdmiteDe
  <2>2. CASE suspender
    BY <2>2 DEF suspender, SuspensorEspera, SuspensorLeeEntrantes, SuspensorLeeReady,
       SuspensorLeeBlocked, SuspensorLee, SuspensorMueve, SuspensorEstado, SuspensorLibera,
       SuspensorDevuelve
  <2>3. CASE \E i \in CPUs : ejecuta(i)
    BY <2>3 DEF ejecuta, CPUToma, CPUOcupa, CPULibera, CPUAnuncia
  <2>4. CASE UNCHANGED vars
    BY <2>4 DEF vars
  <2> QED BY <2>1, <2>2, <2>3, <2>4
<1> QED BY <1>1, LugarEstable DEF Llegando

-----------------------------------------------------------------------------
(* The threads of the calls.                                               *)

\* An answer on its connection, and nothing else, lets a carpincho go on.
LEMMA EjecutaBaja ==
    ASSUME TypeOK, NEW h \in Hilos, \A k \in Hilos \ {h} : hilo'[k] = hilo[k],
           \/ UNCHANGED cliente /\ (Presta(hilo'[h]) => Presta(hilo[h]))
           \/ hilo'[h] = HiloLibre /\ Presta(hilo[h]) /\ Contesta(h[1], h[2])
           \/ /\ hilo'[h] = HiloLibre
              /\ \/ cliente'[h[1]] = cliente[h[1]]
                 \/ cliente'[h[1]].pc = "fin"
    PROVE  Ejecuta(h[1])' => Ejecuta(h[1])
<1> DEFINE c == h[1]
<1>1. c \in Carpinchos /\ h = <<c, h[2]>>
  BY DEF Hilos, HilosServidor, HilosDetector
<1> HIDE DEF c
<1>2. c = h[1]
  BY DEF c
<1>3. ~Presta(HiloLibre)
  BY DEF Presta, HiloLibre, Despertando
<1>4. SUFFICES ASSUME Ejecuta(c)' PROVE Ejecuta(c)
  BY <1>2
<1>5. CASE cliente'[c] = cliente[c] /\ (Presta(hilo'[h]) => Presta(hilo[h]))
  <2>1. CASE cliente[c].pc = "corre"
    BY <2>1 DEF Ejecuta
  <2>2. CASE cliente[c].pc # "corre"
    <3>1. /\ cliente[c].pc = "espera"
          /\ \E k \in Hilos : k = <<c, cliente[c].llamada>> /\ Presta(hilo'[k])
      BY <1>4, <1>5, <2>2 DEF Ejecuta, Presta
    <3>2. PICK k \in Hilos : k = <<c, cliente[c].llamada>> /\ Presta(hilo'[k])
      BY <3>1
    <3>3. Presta(hilo[k])
      <4>1. CASE k = h
        BY <1>5, <3>2, <4>1
      <4>2. CASE k # h
        <5>1. hilo'[k] = hilo[k]
          BY <4>2
        <5> QED BY <3>2, <5>1
      <4> QED BY <4>1, <4>2
    <3> QED BY <3>1, <3>2, <3>3 DEF Ejecuta
  <2> QED BY <2>1, <2>2
<1>6. CASE hilo'[h] = HiloLibre /\ Presta(hilo[h]) /\ Contesta(c, h[2])
  <2>1. CASE cliente[c].pc = "espera" /\ h[2] = cliente[c].llamada
    BY <1>1, <1>6, <2>1 DEF Ejecuta
  <2>2. CASE ~(cliente[c].pc = "espera" /\ h[2] = cliente[c].llamada)
    <3>1. cliente'[c] = cliente[c]
      BY <1>1, <1>6, <2>2 DEF Contesta, TypeOK, TipoCliente
    <3> QED BY <1>3, <1>5, <1>6, <3>1
  <2> QED BY <2>1, <2>2
<1>7. CASE cliente'[c].pc = "fin"
  BY <1>4, <1>7 DEF Ejecuta
<1> QED BY <1>2, <1>3, <1>5, <1>6, <1>7

\* A step of a thread that does not touch exec.
LEMMA HiloSinLugar ==
    ASSUME TypeOK, TypeOK', EInv, NEW h \in Hilos, \A k \in Hilos \ {h} : hilo'[k] = hilo[k],
           UNCHANGED corto, cola'["exec"] = cola["exec"],
           \A c \in Carpinchos \ {h[1]} : cliente'[c] = cliente[c],
           hilo'[h].pc \notin Sacando,
           hilo[h].pc \notin Sacando, Ejecuta(h[1])' => Ejecuta(h[1]),
           hilo'[h].pc \in {"io_pide", "io_usa"} => hilo'[h].recurso \in Dispositivos
    PROVE  EInv'
<1>1. h[1] \in Carpinchos
  BY DEF Hilos, HilosServidor, HilosDetector
<1>2. \A c \in Carpinchos : Veces(c)' = Veces(c) /\ Veces(c) \in Nat
  BY TerminosBien DEF Veces, TypeOK
<1>3. Uno(Ejecuta(h[1])') <= Uno(Ejecuta(h[1]))
  BY DEF Uno
<1>4. Uno(hilo[h].pc \in Sacando) = 0 /\ Uno(hilo'[h].pc \in Sacando) = 0
  BY DEF Uno
<1>5. Uno(Ejecuta(h[1])) \in {0, 1} /\ Uno(Ejecuta(h[1])') \in {0, 1}
  BY DEF Uno
<1>6. \A c \in Carpinchos \ {h[1]} : cliente'[c] = cliente[c] /\ Veces(c)' >= Veces(c)
  BY <1>2
<1>7. Veces(h[1])' - Uno(hilo'[h].pc \in Sacando) - Uno(Ejecuta(h[1])') >=
         Veces(h[1]) - Uno(hilo[h].pc \in Sacando) - Uno(Ejecuta(h[1]))
  BY <1>1, <1>2, <1>3, <1>4, <1>5
<1> QED BY <1>6, <1>7, HiloConLugar

\* A step of a thread that takes its carpincho out of exec.
LEMMA HiloSaca ==
    ASSUME TypeOK, TypeOK', EInv, NEW h \in Hilos, NEW paso \in {"bloquea_estado", "cierra_grado"},
           hilo[h].pc \in Sacando, Sigue(h, paso), UNCHANGED <<corto, cliente>>,
           cola'["exec"] = RemoveFirst(cola["exec"], h[1])
    PROVE  EInv'
<1>1. h[1] \in Carpinchos
  BY DEF Hilos, HilosServidor, HilosDetector
<1>2. (\A k \in Hilos \ {h} : hilo'[k] = hilo[k]) /\ hilo'[h].pc = paso
  BY SigueCambia DEF TypeOK
<1>3. cola["exec"] \in Seq(Carpinchos)
  BY DEF TypeOK, TipoCola, Colas
<1>4. \A c \in Carpinchos : /\ Veces(c)' >= Veces(c) - (IF h[1] = c THEN 1 ELSE 0)
                            /\ Veces(c) \in Nat /\ Veces(c)' \in Nat
  <2> SUFFICES ASSUME NEW c \in Carpinchos
               PROVE  /\ Veces(c)' >= Veces(c) - (IF h[1] = c THEN 1 ELSE 0)
                      /\ Veces(c) \in Nat /\ Veces(c)' \in Nat
    OBVIOUS
  <2>1. Veces(c)' >= Veces(c) - (IF h[1] = c THEN 1 ELSE 0)
    <3>1. VecesEn(RemoveFirst(cola["exec"], h[1]), c) >=
             VecesEn(cola["exec"], c) - (IF h[1] = c THEN 1 ELSE 0)
      BY ONLY <1>3, VecesRemoveFirst
    <3> QED BY <3>1 DEF Veces
  <2>2. Veces(c) \in Nat /\ Veces(c)' \in Nat
    BY VecesEs DEF Veces, TypeOK, TipoCola, Colas
  <2> QED BY <2>1, <2>2
<1>5. ~Presta(hilo'[h]) /\ hilo'[h].pc \notin Sacando
  BY <1>2 DEF Presta, Despertando, Sacando
<1>6. Ejecuta(h[1])' => Ejecuta(h[1])
  BY <1>2, <1>5, EjecutaBaja
<1>7. /\ Uno(Ejecuta(h[1])') <= Uno(Ejecuta(h[1]))
      /\ Uno(Ejecuta(h[1])) \in {0, 1} /\ Uno(Ejecuta(h[1])') \in {0, 1}
  BY <1>6 DEF Uno
<1>8. Uno(hilo[h].pc \in Sacando) = 1 /\ Uno(hilo'[h].pc \in Sacando) = 0
  BY <1>5 DEF Uno
<1>9. \A c \in Carpinchos \ {h[1]} : cliente'[c] = cliente[c] /\ Veces(c)' >= Veces(c)
  BY <1>4
<1>10. Veces(h[1])' - Uno(hilo'[h].pc \in Sacando) - Uno(Ejecuta(h[1])') >=
         Veces(h[1]) - Uno(hilo[h].pc \in Sacando) - Uno(Ejecuta(h[1]))
  BY <1>1, <1>4, <1>7, <1>8
<1>11. hilo'[h].pc \notin {"io_pide", "io_usa"}
  BY <1>2
<1> QED BY <1>2, <1>9, <1>10, <1>11, HiloConLugar

\* What a server thread does keeps the account of exec.
LEMMA AtiendeConLugar ==
    ASSUME IInv, TypeOK', EInv, NEW h \in Hilos, Atiende(h) PROVE EInv'
<1>1. TypeOK /\ TipoHilo /\ TipoCliente /\ TipoCola
  BY DEF IInv, TypeOK
<1>2. h[1] \in Carpinchos
  BY DEF Hilos, HilosServidor, HilosDetector
<1>3. ~Presta(HiloLibre) /\ HiloLibre.pc = "libre"
  BY DEF Presta, HiloLibre, Despertando
<1> DEFINE solo == \A k \in Hilos \ {h} : hilo'[k] = hilo[k]
           quieto == UNCHANGED <<corto, cliente>> /\ cola'["exec"] = cola["exec"]
\* The steps that answer nobody.
<1>4. ASSUME solo, quieto, hilo[h].pc \notin Sacando, hilo'[h].pc \notin Sacando,
             Presta(hilo'[h]) => Presta(hilo[h]),
             hilo'[h].pc \in {"io_pide", "io_usa"} => hilo'[h].recurso \in Dispositivos
      PROVE  EInv'
  <2>1. Ejecuta(h[1])' => Ejecuta(h[1])
    BY <1>1, <1>4, EjecutaBaja
  <2> QED BY <1>1, <1>4, <2>1, HiloSinLugar
<1>5. CASE MateInitPublica(h)
  <2>1. Termina(h) /\ quieto /\ hilo[h].pc = "init_publica"
    BY <1>5 DEF MateInitPublica, planificadores
  <2>2. solo /\ hilo'[h] = HiloLibre
    BY <1>1, <2>1, TerminaCambia
  <2> QED BY <1>3, <1>4, <2>1, <2>2 DEF Sacando
<1>6. CASE BloqueaMueve(h)
  <2>1. /\ hilo[h].pc = "bloquea_mueve" /\ Sigue(h, "bloquea_estado") /\ UNCHANGED <<corto, cliente>>
        /\ cola'["exec"] = RemoveFirst(cola["exec"], h[1])
    BY <1>1, <1>6 DEF BloqueaMueve, Mueve, planificadores, TipoCola, Colas
  <2> QED BY <1>1, <2>1, HiloSaca DEF Sacando
<1>7. CASE BloqueaEstado(h)
  <2>1. Sigue(h, "bloquea_libera") /\ quieto /\ hilo[h].pc = "bloquea_estado"
    BY <1>7 DEF BloqueaEstado, planificadores
  <2>2. solo /\ hilo'[h].pc = "bloquea_libera"
    BY <1>1, <2>1, SigueCambia
  <2> QED BY <1>4, <2>1, <2>2 DEF Sacando, Presta, Despertando
<1>8. CASE BloqueaLibera(h)
  <2>1. quieto /\ hilo[h].pc = "bloquea_libera"
    BY <1>8 DEF BloqueaLibera, planificadores
  <2>2. CASE hilo[h].recurso \in Dispositivos
    <3>1. Sigue(h, "io_pide")
      BY <1>8, <2>2 DEF BloqueaLibera
    <3>2. solo /\ hilo'[h].pc = "io_pide" /\ hilo'[h].recurso = hilo[h].recurso
      BY <1>1, <3>1, SigueCambia
    <3> QED BY <1>4, <2>1, <2>2, <3>2 DEF Sacando, Presta, Despertando
  <2>3. CASE hilo[h].recurso \notin Dispositivos
    <3>1. Termina(h)
      BY <1>8, <2>3 DEF BloqueaLibera
    <3>2. solo /\ hilo'[h] = HiloLibre
      BY <1>1, <3>1, TerminaCambia
    <3> QED BY <1>3, <1>4, <2>1, <3>2 DEF Sacando
  <2> QED BY <2>2, <2>3
<1>9. CASE Despierta(h) \/ ReadyMueve(h) \/ SuspendedMueve(h)
  <2>1. /\ quieto /\ hilo[h].pc \in {"despierta", "ready_mueve", "suspended_mueve"}
        /\ \E paso \in {"ready_mueve", "suspended_mueve", "ready_publica", "suspended_publica"} :
              Sigue(h, paso)
    BY <1>1, <1>9 DEF Despierta, ReadyMueve, SuspendedMueve, Mueve, planificadores, TipoCola, Colas
  <2>2. PICK paso \in {"ready_mueve", "suspended_mueve", "ready_publica", "suspended_publica"} :
           Sigue(h, paso)
    BY <2>1
  <2>3. solo /\ hilo'[h].pc = paso /\ hilo'[h].recurso = hilo[h].recurso
    <3>1. paso \in PasosHilo
      BY DEF PasosHilo
    <3> QED BY <1>1, <2>2, <3>1, SigueCambia
  <2> QED BY <1>4, <2>1, <2>3 DEF Sacando, Presta, Despertando
<1>10. CASE ReadyPublica(h) \/ SuspendedPublica(h) \/ MemoriaContesta(h)
  <2>1. /\ Termina(h) /\ UNCHANGED <<cola, corto>>
        /\ hilo[h].pc \in {"ready_publica", "suspended_publica", "memoria"}
        /\ \/ UNCHANGED cliente
           \/ Presta(hilo[h]) /\ Contesta(h[1], h[2])
    BY <1>10 DEF ReadyPublica, SuspendedPublica, Publica, MemoriaContesta, planificadores,
       Presta, Despertando
  <2>2. solo /\ hilo'[h] = HiloLibre
    BY <1>1, <2>1, TerminaCambia
  <2>3. CASE UNCHANGED cliente
    BY <1>3, <1>4, <2>1, <2>2, <2>3 DEF Sacando
  <2>4. CASE Presta(hilo[h]) /\ Contesta(h[1], h[2])
    <3>1. Ejecuta(h[1])' => Ejecuta(h[1])
      BY <1>1, <2>2, <2>4, EjecutaBaja
    <3>2. \A c \in Carpinchos \ {h[1]} : cliente'[c] = cliente[c]
      BY <1>1, <2>4 DEF Contesta, TipoCliente
    <3>3. hilo[h].pc \notin Sacando /\ hilo'[h].pc \notin Sacando \cup {"io_pide", "io_usa"}
      BY <1>3, <2>1, <2>2 DEF Sacando
    <3> QED BY <1>1, <2>1, <2>2, <3>1, <3>2, <3>3, HiloSinLugar
  <2> QED BY <2>1, <2>3, <2>4
<1>11. CASE mate_call_io(h)
  <2>1. /\ quieto /\ hilo[h].pc \in {"io_pide", "io_usa"} /\ hilo[h].recurso \in Dispositivos
        /\ Sigue(h, "io_usa") \/ Sigue(h, "despierta")
    BY <1>11 DEF mate_call_io, IoToma, IoDevuelve, planificadores, EInv, IoConDispositivo
  <2>2. solo /\ hilo'[h].pc \in {"io_usa", "despierta"} /\ hilo'[h].recurso = hilo[h].recurso
    <3>1. {"io_usa", "despierta"} \subseteq PasosHilo
      BY DEF PasosHilo
    <3> QED BY <1>1, <2>1, <3>1, SigueCambia
  <2>3. ~Presta(hilo'[h])
    BY <2>1, <2>2, ConstantesValidas DEF Presta, ConstantesValidas
  <2> QED BY <1>4, <2>1, <2>2, <2>3 DEF Sacando
<1>12. CASE CierraExec(h)
  <2>1. /\ hilo[h].pc = "cierra_exec" /\ Sigue(h, "cierra_grado") /\ UNCHANGED <<corto, cliente>>
        /\ cola'["exec"] = RemoveFirst(cola["exec"], h[1])
    BY <1>1, <1>12 DEF CierraExec, Cierra, planificadores, TipoCola, Colas
  <2> QED BY <1>1, <2>1, HiloSaca DEF Sacando
<1>13. CASE CierraBlocked(h) \/ CierraSuspended(h)
  <2>1. /\ hilo[h].pc \in {"cierra_blocked", "cierra_suspended"} /\ Sigue(h, "cierra_grado")
        /\ quieto
    BY <1>1, <1>13 DEF CierraBlocked, CierraSuspended, Cierra, planificadores, TipoCola, Colas
  <2>2. solo /\ hilo'[h].pc = "cierra_grado"
    BY <1>1, <2>1, SigueCambia
  <2> QED BY <1>4, <2>1, <2>2 DEF Sacando, Presta, Despertando
<1>14. CASE CierraGrado(h)
  <2>1. /\ Termina(h) /\ UNCHANGED <<cola, corto>> /\ hilo[h].pc = "cierra_grado"
        /\ \A c \in Carpinchos \ {h[1]} : cliente'[c] = cliente[c]
        /\ cliente'[h[1]] = cliente[h[1]] \/ cliente'[h[1]].pc = "fin"
    BY <1>1, <1>2, <1>14 DEF CierraGrado, planificadores, TipoCliente
  <2>2. solo /\ hilo'[h] = HiloLibre
    BY <1>1, <2>1, TerminaCambia
  <2>3. Ejecuta(h[1])' => Ejecuta(h[1])
    BY <1>1, <2>1, <2>2, EjecutaBaja
  <2>4. hilo[h].pc \notin Sacando /\ hilo'[h].pc \notin Sacando \cup {"io_pide", "io_usa"}
    BY <1>3, <2>1, <2>2 DEF Sacando
  <2> QED BY <1>1, <2>1, <2>2, <2>3, <2>4, HiloSinLugar
<1> QED BY <1>5, <1>6, <1>7, <1>8, <1>9, <1>10, <1>11, <1>12, <1>13, <1>14
        DEF Atiende, exec_a_block, despertar, mate_close

-----------------------------------------------------------------------------
(* The calls.                                                              *)

\* A call that waits: of one that runs, its thread either takes it out of exec or
\* answers it there.
LEMMA EsperaConLugar ==
    ASSUME IInv, TypeOK', EInv, NEW c \in Carpinchos, NEW espera \in {"espera", "cierra"},
           NEW inicio, InicioValido(inicio), cliente[c].llamada < MaxLlamadas,
           LlamaYEspera(c, espera, inicio), UNCHANGED <<suspensor, corto>>, cola'["exec"] = cola["exec"],
           inicio.pc \notin {"io_pide", "io_usa"},
           cliente[c].pc # "corre" => inicio.pc \notin Sacando /\ ~Presta(inicio)
    PROVE  EInv'
<1>1. TypeOK /\ TipoHilo /\ TipoCliente /\ Auxiliar
  BY DEF IInv, TypeOK
<1>2. PICK h : h = <<c, cliente[c].llamada + 1>>
  OBVIOUS
<1>3. /\ h \in Hilos /\ hilo[h].pc = "libre" /\ hilo'[h] = inicio
      /\ \A k \in Hilos \ {h} : hilo'[k] = hilo[k]
  BY <1>1, <1>2, LlamaCambia
<1>4. h[1] = c
  BY <1>2
<1>5. /\ cliente'[c] = [pc |-> espera, llamada |-> cliente[c].llamada + 1]
      /\ \A d \in Carpinchos \ {c} : cliente'[d] = cliente[d]
  BY <1>1 DEF LlamaYEspera, TipoCliente
<1>6. Ejecuta(c)' => Presta(inicio)
  <2> SUFFICES ASSUME Ejecuta(c)' PROVE Presta(inicio)
    OBVIOUS
  <2>1. \E k \in Hilos : k = <<c, cliente'[c].llamada>> /\ Presta(hilo'[k])
    BY <1>5 DEF Ejecuta, Presta
  <2> QED BY <1>2, <1>3, <1>5, <2>1
<1>7. Presta(inicio) => inicio.pc \notin Sacando
  BY DEF Presta, Despertando, Sacando
<1>8. cliente[c].pc = "corre" => Ejecuta(c)
  BY DEF Ejecuta
<1>9. Uno(inicio.pc \in Sacando) + Uno(Ejecuta(c)') <= Uno(Ejecuta(c))
  BY <1>6, <1>7, <1>8 DEF Uno
<1>10. Uno(hilo[h].pc \in Sacando) = 0 /\ Uno(hilo'[h].pc \in Sacando) = Uno(inicio.pc \in Sacando)
  BY <1>3 DEF Sacando, Uno
<1>11. \A d \in Carpinchos : Veces(d)' = Veces(d) /\ Veces(d) \in Nat
  BY <1>1, TerminosBien DEF Veces, TypeOK
<1>12. /\ Uno(inicio.pc \in Sacando) \in {0, 1}
       /\ Uno(Ejecuta(c)) \in {0, 1} /\ Uno(Ejecuta(c)') \in {0, 1}
  BY DEF Uno
<1>13. Veces(c)' - Uno(hilo'[h].pc \in Sacando) - Uno(Ejecuta(c)') >=
          Veces(c) - Uno(hilo[h].pc \in Sacando) - Uno(Ejecuta(c))
  <2>1. Veces(c)' = Veces(c) /\ Veces(c) \in Nat
    BY <1>11
  <2> QED BY <1>9, <1>10, <1>12, <2>1
<1>14. \A d \in Carpinchos \ {c} : cliente'[d] = cliente[d] /\ Veces(d)' >= Veces(d)
  BY <1>5, <1>11
<1>15. hilo'[h].pc \notin {"io_pide", "io_usa"}
  BY <1>3
<1> QED BY <1>1, <1>3, <1>4, <1>13, <1>14, <1>15, HiloConLugar

\* A call that is answered at once, or that fails.
LEMMA SigueConLugar ==
    ASSUME IInv, EInv, NEW c \in Carpinchos, cliente[c].pc = "corre", LlamaYSigue(c),
           UNCHANGED <<corto, cola>>
    PROVE  EInv'
<1>1. /\ cliente'[c].pc = "corre" /\ UNCHANGED hilo
      /\ \A d \in Carpinchos \ {c} : cliente'[d] = cliente[d]
  BY DEF LlamaYSigue, IInv, TypeOK, TipoCliente
<1>2. ASSUME NEW d \in Carpinchos PROVE TieneLugar(d)'
  <2>1. Veces(d)' = Veces(d) /\ Saliendo(d)' = Saliendo(d) /\ Llegando(d)' = Llegando(d)
    BY <1>1 DEF Veces, Saliendo, Sacan, Llegando
  <2>2. Ejecuta(d)' = Ejecuta(d)
    BY <1>1 DEF Ejecuta, Presta
  <2>3. Uno(Ejecuta(d))' = Uno(Ejecuta(d)) /\ Uno(Llegando(d))' = Uno(Llegando(d))
    BY <2>1, <2>2
  <2>4. TieneLugar(d)
    BY DEF EInv, LugarEnExec
  <2> QED BY <2>1, <2>3, <2>4 DEF TieneLugar
<1>3. IoConDispositivo'
  BY <1>1 DEF EInv, IoConDispositivo
<1> QED BY <1>2, <1>3 DEF EInv, LugarEnExec

\* A call keeps the account of exec.
LEMMA LlamadaConLugar ==
    ASSUME IInv, TypeOK', EInv, NEW c \in Carpinchos, handler(c) PROVE EInv'
<1> USE ConstantesValidas DEF planificadores
<1>1. TypeOK /\ TipoCarpincho /\ TipoRecursos /\ cliente[c].llamada \in Nat
  BY DEF IInv, TypeOK, TipoCliente
<1>2. CASE MateInit(c) \/ MateInitSinMemoria(c)
  <2>1. PICK inicio \in {HiloLibre, [pc |-> "init_publica", recurso |-> Nadie, objetivo |-> Nadie]} :
           LlamaYEspera(c, "espera", inicio)
    BY <1>2 DEF MateInit, MateInitSinMemoria
  <2>2. InicioValido(inicio) /\ inicio.pc \notin Sacando \cup {"io_pide", "io_usa"} /\ ~Presta(inicio)
    BY DEF InicioValido, HiloLibre, PasosHilo, Sacando, Presta, Despertando, ConstantesValidas
  <2>3. /\ UNCHANGED <<suspensor, corto>> /\ cola'["exec"] = cola["exec"]
        /\ cliente[c].llamada < MaxLlamadas
    BY <1>2 DEF MateInit, MateInitSinMemoria, IInv, TypeOK, Auxiliar, HilosFuturosLibres,
       TipoCola, Colas, ConstantesValidas
  <2> QED BY <2>1, <2>2, <2>3, EsperaConLugar
<1>3. CASE ReenviaAMemoria(c)
  <2>1. PICK inicio : inicio = [pc |-> "memoria", recurso |-> Nadie, objetivo |-> Nadie]
    OBVIOUS
  <2>2. InicioValido(inicio) /\ inicio.pc \notin {"io_pide", "io_usa"}
    BY <2>1 DEF InicioValido, PasosHilo, ConstantesValidas
  <2>3. /\ LlamaYEspera(c, "espera", inicio) /\ UNCHANGED <<suspensor, corto, cola>>
        /\ cliente[c].pc = "corre" /\ cliente[c].llamada < MaxLlamadas
    BY <1>3, <2>1 DEF ReenviaAMemoria, PuedeLlamar
  <2> QED BY <2>2, <2>3, EsperaConLugar
<1>4. CASE MateClose(c)
  <2>1. PICK inicio : inicio = InicioCierre(c)
    OBVIOUS
  <2>2. InicioValido(inicio) /\ inicio.pc \notin {"io_pide", "io_usa"}
    BY <2>1 DEF InicioValido, InicioCierre, PasosHilo, PasosCierre, ConstantesValidas
  <2>3. /\ LlamaYEspera(c, "cierra", inicio) /\ UNCHANGED <<suspensor, corto, cola>>
        /\ cliente[c].pc = "corre" /\ cliente[c].llamada < MaxLlamadas
    BY <1>4, <2>1 DEF MateClose, PuedeLlamar
  <2> QED BY <2>2, <2>3, EsperaConLugar
<1>5. ASSUME NEW s \in Semaforos, MateSemInit(c, s) \/ MateSemDestroy(c, s) PROVE EInv'
  <2>1. cliente[c].pc = "corre" /\ LlamaYSigue(c) /\ UNCHANGED <<corto, cola>>
    BY <1>5 DEF MateSemInit, MateSemDestroy, PuedeLlamar
  <2> QED BY <2>1, SigueConLugar
<1>6. ASSUME NEW s \in Semaforos, MateSemWait(c, s) PROVE EInv'
  <2>1. PICK inicio : inicio = [pc |-> "bloquea_mueve", recurso |-> s, objetivo |-> Nadie]
    OBVIOUS
  <2>2. InicioValido(inicio) /\ inicio.pc \notin {"io_pide", "io_usa"}
    BY <2>1 DEF InicioValido, PasosHilo, ConstantesValidas
  <2>3. /\ LlamaYSigue(c) \/ LlamaYEspera(c, "espera", inicio)
        /\ UNCHANGED <<suspensor, corto, cola>>
        /\ cliente[c].pc = "corre" /\ cliente[c].llamada < MaxLlamadas
    BY <1>6, <2>1 DEF MateSemWait, PuedeLlamar
  <2> QED BY <2>2, <2>3, EsperaConLugar, SigueConLugar
<1>7. ASSUME NEW s \in Semaforos, MateSemPost(c, s) PROVE EInv'
  <2> DEFINE en_espera == semaforo[s].en_espera
             despacha == en_espera # << >> /\ semaforo[s].valor + 1 > -1
             quedan == IF despacha THEN SinElMuerto(en_espera) ELSE en_espera
             despierta == despacha /\ quedan # << >> /\ carpincho[Head(quedan)].existe
  <2>1. PICK inicio : inicio = [pc |-> "despierta", recurso |-> s, objetivo |-> Head(quedan)]
    OBVIOUS
  <2>2. /\ IF despierta THEN LlamaYEspera(c, "espera", inicio) ELSE LlamaYSigue(c)
        /\ UNCHANGED <<suspensor, corto, cola>>
        /\ cliente[c].pc = "corre" /\ cliente[c].llamada < MaxLlamadas
    BY <1>7, <2>1 DEF MateSemPost, PuedeLlamar
  <2>3. CASE despierta
    <3>1. quedan \in Seq(Carpinchos) /\ Head(quedan) \in Carpinchos
      <4>1. en_espera \in Seq(Carpinchos)
        BY <1>1 DEF TipoRecursos
      <4> HIDE DEF en_espera
      <4>2. quedan \in Seq(Carpinchos)
        BY <4>1 DEF SinElMuerto
      <4> HIDE DEF quedan
      <4> QED BY <2>3, <4>2
    <3>2. InicioValido(inicio) /\ inicio.pc \notin {"io_pide", "io_usa"}
      BY <2>1, <3>1 DEF InicioValido, PasosHilo
    <3> QED BY <2>2, <2>3, <3>2, EsperaConLugar
  <2>4. CASE ~despierta
    BY <2>2, <2>4, SigueConLugar
  <2> QED BY <2>3, <2>4
<1>8. ASSUME NEW d \in Dispositivos, MateCallIo(c, d) PROVE EInv'
  <2>1. PICK inicio : inicio = [pc |-> "bloquea_mueve", recurso |-> d, objetivo |-> c]
    OBVIOUS
  <2>2. InicioValido(inicio) /\ inicio.pc \notin {"io_pide", "io_usa"}
    BY <2>1 DEF InicioValido, PasosHilo
  <2>3. /\ LlamaYEspera(c, "espera", inicio) /\ UNCHANGED <<suspensor, corto, cola>>
        /\ cliente[c].pc = "corre" /\ cliente[c].llamada < MaxLlamadas
    BY <1>8, <2>1 DEF MateCallIo, PuedeLlamar
  <2> QED BY <2>2, <2>3, EsperaConLugar
<1> QED BY <1>2, <1>3, <1>4, <1>5, <1>6, <1>7, <1>8 DEF handler

-----------------------------------------------------------------------------
(* What follows.                                                           *)

\* The account of exec holds in every reachable state.
THEOREM SiempreConLugar == Spec => [](IInv /\ EInv)
<1>1. Init => EInv
  <2> SUFFICES ASSUME Init PROVE EInv
    OBVIOUS
  <2>1. ASSUME NEW c \in Carpinchos PROVE TieneLugar(c)
    <3>1. Sacan(c) = {} /\ ~Ejecuta(c) /\ ~Llegando(c)
      BY DEF Init, Sacan, Sacando, Ejecuta, Llegando, HiloLibre
    <3>2. TipoCola
      BY InicioTipos DEF TypeOK
    <3>3. Veces(c) \in Nat /\ Saliendo(c) = 0
      BY <3>1, <3>2, TerminosBien, FS_EmptySet DEF Saliendo
    <3> QED BY <3>1, <3>3 DEF TieneLugar, Uno
  <2>2. IoConDispositivo
    BY DEF Init, IoConDispositivo, HiloLibre
  <2> QED BY <2>1, <2>2 DEF EInv, LugarEnExec
<1>2. IInv /\ EInv /\ [Next]_vars => IInv' /\ EInv'
  <2> SUFFICES ASSUME IInv, EInv, [Next]_vars PROVE IInv' /\ EInv'
    OBVIOUS
  <2>1. IInv' /\ TypeOK /\ TypeOK'
    BY PasoIInv DEF IInv
  <2>2. EInv'
    <3>1. CASE ready_a_exec
      BY <2>1, <3>1, CortoConLugar
    <3>2. CASE \/ entrantes_a_ready
               \/ suspender
               \/ \E i \in CPUs : ejecuta(i)
               \/ UNCHANGED vars
      BY <2>1, <3>2, OtrosConLugar
    <3>3. ASSUME NEW h \in Hilos, Atiende(h) PROVE EInv'
      BY <2>1, <3>3, AtiendeConLugar
    <3>4. ASSUME NEW c \in Carpinchos, handler(c) PROVE EInv'
      BY <2>1, <3>4, LlamadaConLugar
    <3> QED BY <3>1, <3>2, <3>3, <3>4 DEF Next
  <2> QED BY <2>1, <2>2
<1> QED BY <1>1, <1>2, InicioIInv, PTL DEF Spec

\* A carpincho that runs is in exec, although whoever wakes it does not wait for it to
\* have left, and although it may be dispatched twice: no answer lets it go on before
\* ready_a_exec gave it a CPU.
THEOREM CorreEnExec == Spec => []SoloCorreEnExec
<1>1. ASSUME IInv, EInv PROVE SoloCorreEnExec
  <2> SUFFICES ASSUME NEW c \in Carpinchos, cliente[c].pc = "corre"
               PROVE  c \in Range(cola["exec"])
    BY DEF SoloCorreEnExec
  <2>1. TieneLugar(c) /\ Uno(Ejecuta(c)) = 1
    BY <1>1 DEF EInv, LugarEnExec, Ejecuta, Uno
  <2>2. /\ Veces(c) \in Nat /\ Saliendo(c) \in Nat /\ Uno(Llegando(c)) \in {0, 1}
        /\ Veces(c) > 0 => c \in Range(cola["exec"])
    BY <1>1, TerminosBien DEF IInv, TypeOK
  <2> QED BY <2>1, <2>2 DEF TieneLugar
<1> QED BY <1>1, SiempreConLugar, PTL

-----------------------------------------------------------------------------
(* Where a carpincho is, while nobody is suspended.                        *)

\* The queues a carpincho goes through from its admission to a CPU.
EnMarcha == {"new", "suspended_ready", "ready", "exec"}
EnCola(c) == {q \in EnMarcha : c \in Range(cola[q])}

\* The threads that have taken c out of exec and keep its CPU, and those that will put
\* c back in a queue.
Soltando == {"bloquea_estado", "bloquea_libera"}
Volviendo == {"io_pide", "io_usa", "despierta", "ready_mueve", "suspended_mueve"}
Lleva(h, c) ==
    \/ hilo[h].pc \in Soltando /\ h[1] = c
    \/ hilo[h].pc \in Volviendo /\ hilo[h].objetivo = c
Llevan(c) == {h \in Hilos : Lleva(h, c)}

\* c is at one place at most: in one of the queues, or in the hands of one thread.
UnSoloLugar(c) ==
    /\ \A q, r \in EnCola(c) : q = r
    /\ \A h, k \in Llevan(c) : h = k
    /\ EnCola(c) = {} \/ Llevan(c) = {}
    /\ cliente[c].pc = "fuera" => EnCola(c) = {} /\ Llevan(c) = {}

\* Who waits for a semaphore waits for one, does not run, and is leaving exec or out of it.
EnEspera(c) == {s \in Semaforos : c \in Range(semaforo[s].en_espera)}
Espera(c) ==
    /\ \A s, t \in EnEspera(c) : s = t
    /\ EnEspera(c) # {} =>
          /\ cliente[c].pc = "espera"
          /\ EnCola(c) \subseteq {"exec"}
          /\ EnCola(c) # {} => Sacan(c) # {}
          /\ \A h \in Llevan(c) : hilo[h].pc \in Soltando
          /\ \A h \in Hilos : h[1] = c /\ hilo[h].pc \in Soltando \cup {"bloquea_mueve"}
                                 => hilo[h].recurso \notin Dispositivos

SinRepetir ==
    /\ \A q \in EnMarcha : IsInjective(cola[q])
    /\ \A s \in Semaforos : IsInjective(semaforo[s].en_espera)

\* A call of I/O wakes its own carpincho; who closes does not run again.
HilosPropios ==
    \A h \in Hilos :
        /\ hilo[h].recurso \in Dispositivos => hilo[h].objetivo = h[1]
        /\ hilo[h].pc \in PasosCierre => cliente[h[1]].pc \in {"cierra", "fin"}

LInv == SinRepetir /\ HilosPropios /\ \A c \in Carpinchos : UnSoloLugar(c) /\ Espera(c)

\* c has the CPU i: it was given to it and nobody has told its thread to free it.
Ocupa(c, i) ==
    /\ carpincho[c].CPU_en_uso = i
    /\ \/ "exec" \in EnCola(c)
       \/ \E h \in Hilos : h[1] = c /\ hilo[h].pc \in Soltando
       \/ corto.pc = "mueve" /\ corto.carpincho = c

\* A CPU is had by one carpincho, is about to be freed once, or is free.
CPUOcupada ==
    \A c \in Carpinchos : \A i \in CPUs \cup {SinCPU} : Ocupa(c, i) =>
        /\ i \in CPUs
        /\ hilo_CPU[i].liberar = 0 /\ i \notin Range(CPU_libres)
        /\ \A d \in Carpinchos : Ocupa(d, i) => d = c
LiberarUnaVez ==
    \A i \in CPUs : /\ i \in Range(CPU_libres) => hilo_CPU[i].liberar = 0
                    /\ hilo_CPU[i].liberar <= 1

CInv == CPUOcupada /\ LiberarUnaVez

\* suspender has not posted liberar_CPU of a CPU that was given back already.
NadieSeSuspende == suspensor.pc # "libera"

\* With more than one CPU, a post may wake a carpincho that has not left exec.
NadieDespiertaAntes == "sem_post" \in Operaciones => GradoMultiprocesamiento <= 1

-----------------------------------------------------------------------------
(* What the account of exec says of a carpincho that is there once.        *)

LEMMA UnaCausa ==
    ASSUME TypeOK, EInv, SinRepetir, NEW c \in Carpinchos
    PROVE  /\ Sacan(c) # {} => "exec" \in EnCola(c) /\ ~Ejecuta(c) /\ ~Llegando(c)
           /\ Ejecuta(c) => "exec" \in EnCola(c) /\ Sacan(c) = {}
           /\ Llegando(c) => "exec" \in EnCola(c) /\ Sacan(c) = {}
<1>1. cola["exec"] \in Seq(Carpinchos) /\ IsInjective(cola["exec"])
  BY DEF TypeOK, TipoCola, Colas, SinRepetir, EnMarcha
<1>2. Veces(c) <= 1
  BY <1>1, VecesInyectiva DEF Veces
<1>3. /\ Veces(c) \in Nat /\ Saliendo(c) \in Nat
      /\ Veces(c) > 0 => "exec" \in EnCola(c)
      /\ Uno(Ejecuta(c)) \in {0, 1} /\ Uno(Llegando(c)) \in {0, 1}
  BY TerminosBien DEF TypeOK, EnCola, EnMarcha
<1>4. Veces(c) >= Saliendo(c) + Uno(Ejecuta(c)) + Uno(Llegando(c))
  BY DEF EInv, LugarEnExec, TieneLugar
<1>5. Saliendo(c) = 0 <=> Sacan(c) = {}
  <2>1. Sacan(c) \in SUBSET Hilos
    BY DEF Sacan
  <2> QED BY <2>1, HilosFinitos, FS_Subset, FS_EmptySet DEF Saliendo
<1>6. /\ Ejecuta(c) => Uno(Ejecuta(c)) = 1
      /\ Llegando(c) => Uno(Llegando(c)) = 1
  BY DEF Uno
<1>7. Sacan(c) # {} => "exec" \in EnCola(c) /\ ~Ejecuta(c) /\ ~Llegando(c)
  BY <1>2, <1>3, <1>4, <1>5, <1>6
<1>8. Ejecuta(c) \/ Llegando(c) => "exec" \in EnCola(c) /\ Saliendo(c) = 0
  BY <1>2, <1>3, <1>4, <1>6
<1> QED BY <1>5, <1>7, <1>8

\* Who runs, or is about to, waits for no semaphore and is in nobody's hands.
LEMMA CorreSinEsperar ==
    ASSUME TypeOK, EInv, LInv, NEW c \in Carpinchos, Ejecuta(c) \/ Llegando(c)
    PROVE  EnEspera(c) = {} /\ EnCola(c) = {"exec"} /\ Llevan(c) = {}
<1>1. "exec" \in EnCola(c) /\ Sacan(c) = {}
  BY UnaCausa DEF LInv
<1> QED BY <1>1 DEF LInv, Espera, UnSoloLugar

-----------------------------------------------------------------------------
(* Steps that move nobody.                                                 *)

\* A step of the thread h that leaves its carpincho where it is.
Tranquilo(h) ==
    /\ hilo[h].pc \notin Sacando
    /\ hilo'[h].recurso \in Dispositivos => hilo'[h].objetivo = h[1]
    /\ hilo'[h].pc \in PasosCierre => cliente'[h[1]].pc \in {"cierra", "fin"}
    /\ hilo'[h].pc = "bloquea_mueve" => EnEspera(h[1]) = {}
    /\ hilo'[h].pc \in Soltando => hilo[h].pc \in Soltando /\ hilo'[h].recurso = hilo[h].recurso
    /\ hilo'[h].pc \in Volviendo => /\ Lleva(h, hilo'[h].objetivo)
                                    /\ hilo[h].pc \in Volviendo \/ hilo[h].recurso \in Dispositivos

\* The clients that are answered wait for no semaphore.
ClientesTranquilos ==
    \A c \in Carpinchos :
        \/ cliente'[c] = cliente[c]
        \/ /\ EnEspera(c) = {} /\ cliente'[c].pc # "fuera"
           /\ cliente[c].pc \in {"cierra", "fin"} => cliente'[c].pc \in {"cierra", "fin"}

LEMMA Conserva ==
    ASSUME LInv, \A h \in Hilos : hilo'[h] = hilo[h] \/ Tranquilo(h), ClientesTranquilos,
           \A q \in EnMarcha : cola'[q] = cola[q],
           \A s \in Semaforos : /\ IsInjective(semaforo'[s].en_espera)
                                /\ Range(semaforo'[s].en_espera) \subseteq Range(semaforo[s].en_espera)
    PROVE  LInv'
<1>1. SinRepetir'
  BY DEF LInv, SinRepetir
<1>2. HilosPropios'
  <2> SUFFICES ASSUME NEW h \in Hilos
               PROVE  /\ hilo'[h].recurso \in Dispositivos => hilo'[h].objetivo = h[1]
                      /\ hilo'[h].pc \in PasosCierre => cliente'[h[1]].pc \in {"cierra", "fin"}
    BY DEF HilosPropios
  <2>1. h[1] \in Carpinchos
    BY DEF Hilos, HilosServidor, HilosDetector
  <2>2. cliente[h[1]].pc \in {"cierra", "fin"} => cliente'[h[1]].pc \in {"cierra", "fin"}
    BY <2>1 DEF ClientesTranquilos
  <2> QED BY <2>2 DEF Tranquilo, LInv, HilosPropios
<1>3. ASSUME NEW c \in Carpinchos PROVE UnSoloLugar(c)' /\ Espera(c)'
  <2>1. UnSoloLugar(c) /\ Espera(c)
    BY DEF LInv
  <2>2. EnCola(c)' = EnCola(c) /\ EnEspera(c)' \subseteq EnEspera(c)
    BY DEF EnCola, EnEspera
  <2>3. ASSUME NEW h \in Hilos, Lleva(h, c)' PROVE Lleva(h, c)
    BY <2>3 DEF Tranquilo, Lleva, Soltando, Volviendo
  <2>4. Llevan(c)' \subseteq Llevan(c)
    BY <2>3 DEF Llevan
  <2>5. Sacan(c) \subseteq Sacan(c)'
    BY DEF Sacan, Tranquilo
  <2>6. UnSoloLugar(c)'
    BY <2>1, <2>2, <2>4 DEF UnSoloLugar, ClientesTranquilos
  <2>7. Espera(c)'
    <3> SUFFICES ASSUME EnEspera(c)' # {}
                 PROVE  /\ cliente'[c].pc = "espera"
                        /\ \A h \in Llevan(c)' : hilo'[h].pc \in Soltando
                        /\ \A h \in Hilos : h[1] = c /\ hilo'[h].pc \in Soltando \cup {"bloquea_mueve"}
                              => hilo'[h].recurso \notin Dispositivos
      BY <2>1, <2>2, <2>5 DEF Espera
    <3>1. EnEspera(c) # {}
      BY <2>2
    <3>2. cliente'[c].pc = "espera"
      BY <2>1, <3>1 DEF Espera, ClientesTranquilos
    <3>3. ASSUME NEW h \in Hilos, h[1] = c, hilo'[h].pc \in Soltando \cup {"bloquea_mueve"}
          PROVE  hilo'[h].recurso \notin Dispositivos
      BY <2>1, <3>1, <3>3 DEF Espera, Tranquilo, Soltando
    <3>4. ASSUME NEW h \in Llevan(c)' PROVE hilo'[h].pc \in Soltando
      <4>1. h \in Llevan(c) /\ hilo[h].pc \in Soltando /\ h \in Hilos /\ Lleva(h, c)'
        BY <2>1, <2>4, <3>1, <3>4 DEF Espera, Llevan
      <4>2. h[1] = c
        BY <4>1 DEF Llevan, Lleva, Soltando, Volviendo
      <4>3. hilo[h].recurso \notin Dispositivos
        BY <2>1, <3>1, <4>1, <4>2 DEF Espera
      <4>4. hilo'[h].pc \notin Volviendo
        BY <4>1, <4>3 DEF Tranquilo, Soltando, Volviendo
      <4> QED BY <4>1, <4>4 DEF Lleva
    <3> QED BY <3>2, <3>3, <3>4
  <2> QED BY <2>6, <2>7
<1> QED BY <1>1, <1>2, <1>3 DEF LInv

\* A step after which nobody has a CPU it did not have.
LEMMA OcupaIgual ==
    ASSUME CInv, UNCHANGED CPU_libres, \A i \in CPUs : hilo_CPU'[i].liberar = hilo_CPU[i].liberar,
           \A c \in Carpinchos : \A i \in CPUs \cup {SinCPU} : Ocupa(c, i)' => Ocupa(c, i)
    PROVE  CInv'
<1>1. CPUOcupada'
  BY DEF CInv, CPUOcupada
<1>2. LiberarUnaVez'
  BY DEF CInv, LiberarUnaVez
<1> QED BY <1>1, <1>2 DEF CInv

\* Steps that move nobody, nor give nor take a CPU.
LEMMA ConservaTodo ==
    ASSUME LInv, CInv, \A h \in Hilos : hilo'[h] = hilo[h] \/ Tranquilo(h), ClientesTranquilos,
           \A q \in EnMarcha : cola'[q] = cola[q],
           \A s \in Semaforos : /\ IsInjective(semaforo'[s].en_espera)
                                /\ Range(semaforo'[s].en_espera) \subseteq Range(semaforo[s].en_espera),
           UNCHANGED CPU_libres, \A i \in CPUs : hilo_CPU'[i].liberar = hilo_CPU[i].liberar,
           \A c \in Carpinchos : carpincho'[c].CPU_en_uso = carpincho[c].CPU_en_uso,
           corto'.pc = "mueve" => corto' = corto
    PROVE  LInv' /\ CInv'
<1>1. LInv'
  BY Conserva
<1>2. ASSUME NEW c \in Carpinchos, NEW i \in CPUs \cup {SinCPU}, Ocupa(c, i)' PROVE Ocupa(c, i)
  <2>1. EnCola(c)' = EnCola(c)
    BY DEF EnCola
  <2>2. ASSUME NEW h \in Hilos, hilo'[h].pc \in Soltando PROVE hilo[h].pc \in Soltando
    BY <2>2 DEF Tranquilo
  <2> QED BY <1>2, <2>1, <2>2 DEF Ocupa
<1> QED BY <1>1, <1>2, OcupaIgual

-----------------------------------------------------------------------------
(* The planners and the CPUs.                                              *)

\* What a planner that moves nobody leaves alone.
Quieto ==
    /\ UNCHANGED <<hilo, cliente, semaforo, CPU_libres>>
    /\ \A q \in EnMarcha : cola'[q] = cola[q]
    /\ \A i \in CPUs : hilo_CPU'[i].liberar = hilo_CPU[i].liberar
    /\ \A c \in Carpinchos : carpincho'[c].CPU_en_uso = carpincho[c].CPU_en_uso
    /\ corto'.pc = "mueve" => corto' = corto

LEMMA QuietoConserva == LInv /\ CInv /\ Quieto => LInv' /\ CInv'
<1> SUFFICES ASSUME LInv, CInv, Quieto PROVE LInv' /\ CInv'
  OBVIOUS
<1>1. \A h \in Hilos : hilo'[h] = hilo[h] \/ Tranquilo(h)
  BY DEF Quieto
<1>2. ClientesTranquilos
  BY DEF Quieto, ClientesTranquilos
<1>3. \A s \in Semaforos : /\ IsInjective(semaforo'[s].en_espera)
                           /\ Range(semaforo'[s].en_espera) \subseteq Range(semaforo[s].en_espera)
  BY DEF Quieto, LInv, SinRepetir
<1> QED BY <1>1, <1>2, <1>3, ConservaTodo DEF Quieto

\* c goes from a queue to another one.
LEMMA Traslada ==
    ASSUME LInv, UNCHANGED <<hilo, cliente, semaforo>>, NEW c \in Carpinchos,
           NEW q \in EnMarcha, NEW r \in EnMarcha, q # r, q # "exec", q \in EnCola(c),
           \A t \in {q, r} : IsInjective(cola'[t]),
           Range(cola'[q]) = Range(cola[q]) \ {c}, Range(cola'[r]) = Range(cola[r]) \cup {c},
           \A t \in EnMarcha \ {q, r} : cola'[t] = cola[t]
    PROVE  LInv'
<1>1. SinRepetir'
  BY DEF LInv, SinRepetir
<1>2. HilosPropios'
  BY DEF LInv, HilosPropios
<1>3. ASSUME NEW d \in Carpinchos PROVE UnSoloLugar(d)' /\ Espera(d)'
  <2>1. UnSoloLugar(d) /\ Espera(d)
    BY DEF LInv
  <2>2. Llevan(d)' = Llevan(d) /\ EnEspera(d)' = EnEspera(d) /\ Sacan(d)' = Sacan(d)
    BY DEF Llevan, Lleva, EnEspera, Sacan
  <2>3. CASE d # c
    <3>1. EnCola(d)' = EnCola(d)
      BY <2>3 DEF EnCola
    <3> QED BY <2>1, <2>2, <3>1 DEF UnSoloLugar, Espera
  <2>4. CASE d = c
    <3>1. EnCola(c) = {q} /\ EnCola(c)' = {r} /\ Llevan(c) = {} /\ cliente[c].pc # "fuera"
      <4>1. EnCola(c) = {q} /\ Llevan(c) = {} /\ cliente[c].pc # "fuera"
        BY <2>1, <2>4 DEF UnSoloLugar
      <4> QED BY <4>1 DEF EnCola
    <3>2. EnEspera(c) = {}
      BY <2>1, <2>4, <3>1 DEF Espera
    <3> QED BY <2>2, <2>4, <3>1, <3>2 DEF UnSoloLugar, Espera
  <2> QED BY <2>3, <2>4
<1> QED BY <1>1, <1>2, <1>3 DEF LInv

\* The long-term planner takes the head of new or of suspended_ready to ready.
LEMMA AdmiteTraslada ==
    ASSUME TypeOK, LInv, CInv, NEW q \in {"new", "suspended_ready"}, cola[q] # << >>, AdmiteDe(q),
           UNCHANGED <<hilo, cliente, semaforo, CPU_libres, hilo_CPU, carpincho, corto>>
    PROVE  LInv' /\ CInv'
<1> DEFINE c == Head(cola[q])
<1>1. cola[q] \in Seq(Carpinchos) /\ cola["ready"] \in Seq(Carpinchos)
  BY DEF TypeOK, TipoCola, Colas
<1>2. IsInjective(cola[q]) /\ IsInjective(cola["ready"])
  BY DEF LInv, SinRepetir, EnMarcha
<1>3. /\ cola'[q] = Tail(cola[q]) /\ cola'["ready"] = Append(cola["ready"], c)
      /\ \A t \in EnMarcha \ {q, "ready"} : cola'[t] = cola[t]
  BY DEF AdmiteDe, TypeOK, TipoCola, Colas, EnMarcha
<1>4. /\ c \in Carpinchos /\ c \in Range(cola[q])
      /\ Range(cola'[q]) = Range(cola[q]) \ {c} /\ IsInjective(cola'[q])
  BY <1>1, <1>2, <1>3, TailEs
<1> HIDE DEF c
<1>5. q \in EnCola(c) /\ UnSoloLugar(c)
  BY <1>4 DEF EnCola, EnMarcha, LInv
<1>6. c \notin Range(cola["ready"])
  BY <1>5 DEF UnSoloLugar, EnCola, EnMarcha
<1>7. Range(cola'["ready"]) = Range(cola["ready"]) \cup {c} /\ IsInjective(cola'["ready"])
  BY <1>1, <1>2, <1>3, <1>4, <1>6, AppendEs, AgregaInyectiva
<1>8. LInv'
  BY <1>3, <1>4, <1>5, <1>7, Traslada DEF EnMarcha
<1>9. ASSUME NEW d \in Carpinchos, NEW i \in CPUs \cup {SinCPU}, Ocupa(d, i)' PROVE Ocupa(d, i)
  BY <1>3, <1>9 DEF Ocupa, EnCola, EnMarcha
<1> QED BY <1>8, <1>9, OcupaIgual

\* The long-term planner: the other steps move nobody.
LEMMA LargoLugar == IInv /\ LInv /\ CInv /\ entrantes_a_ready => LInv' /\ CInv'
<1> SUFFICES ASSUME IInv, LInv, CInv, entrantes_a_ready PROVE LInv' /\ CInv'
  OBVIOUS
<1> USE DEF cpus, recursos, llamadas
<1>1. TypeOK /\ LargoPlazoEncuentra
  BY DEF IInv
<1>2. CASE LargoEsperaEstructura \/ LargoEsperaGrado \/ LargoMira
  <2>1. Quieto
    BY <1>2 DEF LargoEsperaEstructura, LargoEsperaGrado, LargoMira, Quieto
  <2> QED BY <2>1, QuietoConserva
<1>3. CASE LargoPublica
  <2>1. Quieto
    BY <1>1, <1>3 DEF LargoPublica, PonEstado, TypeOK, TipoCarpincho, Quieto
  <2> QED BY <2>1, QuietoConserva
<1>4. CASE LargoDeSuspendedReady
  BY <1>1, <1>4, AdmiteTraslada DEF LargoDeSuspendedReady, LargoAdmite, LargoPlazoEncuentra
<1>5. CASE LargoDeNew
  BY <1>1, <1>5, AdmiteTraslada DEF LargoDeNew, LargoAdmite, LargoPlazoEncuentra
<1> QED BY <1>2, <1>3, <1>4, <1>5 DEF entrantes_a_ready

\* The medium-term planner, until it posts liberar_CPU.
LEMMA SuspensorLugar ==
    ASSUME TypeOK, LInv, CInv, NadieSeSuspende, suspender PROVE LInv' /\ CInv'
<1> USE DEF cpus, recursos, llamadas
<1>1. Quieto
  <2>1. CASE SuspensorEspera \/ SuspensorLeeEntrantes \/ SuspensorLeeReady \/ SuspensorLeeBlocked
             \/ SuspensorDevuelve
    BY <2>1 DEF SuspensorEspera, SuspensorLeeEntrantes, SuspensorLeeReady, SuspensorLeeBlocked,
       SuspensorLee, SuspensorDevuelve, Quieto
  <2>2. CASE SuspensorMueve
    BY <2>2 DEF SuspensorMueve, TypeOK, TipoCola, Colas, EnMarcha, Quieto
  <2>3. CASE SuspensorEstado
    BY <2>3 DEF SuspensorEstado, PonEstado, TypeOK, TipoCarpincho, Quieto
  <2>4. CASE SuspensorLibera
    BY <2>4 DEF SuspensorLibera, NadieSeSuspende
  <2> QED BY <2>1, <2>2, <2>3, <2>4 DEF suspender
<1> QED BY <1>1, QuietoConserva

\* The short-term planner gives a free CPU to a carpincho of ready.
LEMMA EligeLugar ==
    ASSUME IInv, LInv, CInv, NEW c \in Carpinchos, CortoElige(c) PROVE LInv' /\ CInv'
<1> USE DEF llamadas
<1> DEFINE i == Head(CPU_libres)
<1>1. /\ TypeOK /\ CPU_libres \in Seq(CPUs) /\ CPU_libres # << >> /\ IsInjective(CPU_libres)
  BY DEF IInv, TypeOK, TipoCPU, CortoPlazoEncuentra, CortoElige, CPUExclusiva
<1>2. /\ i \in CPUs /\ i \in Range(CPU_libres)
      /\ Range(Tail(CPU_libres)) = Range(CPU_libres) \ {i}
  BY <1>1, TailEs
<1> HIDE DEF i
<1>3. /\ corto.pc = "elige" /\ corto'.pc = "mueve" /\ corto'.carpincho = c
      /\ CPU_libres' = Tail(CPU_libres) /\ UNCHANGED <<hilo, cliente, cola, semaforo>>
      /\ \A k \in CPUs : hilo_CPU'[k].liberar = hilo_CPU[k].liberar
      /\ carpincho'[c].CPU_en_uso = i
      /\ \A d \in Carpinchos \ {c} : carpincho'[d] = carpincho[d]
  BY <1>1 DEF CortoElige, AsignarHiloCPU, TypeOK, TipoCPU, TipoCarpincho, recursos, i
<1>4. LInv'
  <2>1. /\ \A h \in Hilos : hilo'[h] = hilo[h] \/ Tranquilo(h)
        /\ ClientesTranquilos
        /\ \A s \in Semaforos : /\ IsInjective(semaforo'[s].en_espera)
                                /\ Range(semaforo'[s].en_espera) \subseteq Range(semaforo[s].en_espera)
    BY <1>3 DEF ClientesTranquilos, LInv, SinRepetir
  <2> QED BY <1>3, <2>1, Conserva
<1>5. EnCola(c) = {"ready"} /\ Llevan(c) = {}
  <2>1. "ready" \in EnCola(c) /\ UnSoloLugar(c)
    BY DEF CortoElige, EnCola, EnMarcha, LInv
  <2> QED BY <2>1 DEF UnSoloLugar
<1>6. ASSUME NEW d \in Carpinchos, NEW k \in CPUs \cup {SinCPU}, Ocupa(d, k)'
      PROVE  (Ocupa(d, k) /\ d # c) \/ (d = c /\ k = i)
  BY <1>3, <1>5, <1>6 DEF Ocupa, EnCola, Llevan, Lleva
<1>7. hilo_CPU[i].liberar = 0 /\ \A d \in Carpinchos : ~Ocupa(d, i)
  BY <1>2 DEF CInv, CPUOcupada, LiberarUnaVez
<1>8. CPUOcupada'
  <2> SUFFICES ASSUME NEW d \in Carpinchos, NEW k \in CPUs \cup {SinCPU}, Ocupa(d, k)'
               PROVE  /\ k \in CPUs
                      /\ hilo_CPU'[k].liberar = 0 /\ k \notin Range(CPU_libres')
                      /\ \A e \in Carpinchos : Ocupa(e, k)' => e = d
    BY DEF CPUOcupada
  <2>1. CASE d = c /\ k = i
    BY <1>2, <1>3, <1>6, <1>7, <2>1
  <2>2. CASE Ocupa(d, k) /\ d # c
    <3>1. /\ k \in CPUs /\ hilo_CPU[k].liberar = 0 /\ k \notin Range(CPU_libres)
          /\ \A e \in Carpinchos : Ocupa(e, k) => e = d
      BY <2>2 DEF CInv, CPUOcupada
    <3>2. k # i
      BY <1>7, <2>2
    <3> QED BY <1>2, <1>3, <1>6, <3>1, <3>2
  <2> QED BY <1>6, <2>1, <2>2
<1>9. LiberarUnaVez'
  BY <1>2, <1>3 DEF CInv, LiberarUnaVez
<1> QED BY <1>4, <1>8, <1>9 DEF CInv

\* c frees its CPU: it is in no queue, nor in the hands of a thread that will post.
LEMMA Suelta ==
    ASSUME CInv, NEW c \in Carpinchos, NEW i \in CPUs \cup {SinCPU}, Ocupa(c, i), TipoCPU,
           PostLiberar(i), UNCHANGED CPU_libres,
           \A d \in Carpinchos : \A k \in CPUs \cup {SinCPU} :
              Ocupa(d, k)' => d # c /\ Ocupa(d, k)
    PROVE  CInv'
<1>1. /\ i \in CPUs /\ hilo_CPU[i].liberar = 0 /\ i \notin Range(CPU_libres)
      /\ \A d \in Carpinchos : Ocupa(d, i) => d = c
  BY DEF CInv, CPUOcupada
<1>2. /\ hilo_CPU'[i].liberar = 1
      /\ \A k \in CPUs \ {i} : hilo_CPU'[k].liberar = hilo_CPU[k].liberar
  BY <1>1 DEF PostLiberar, TipoCPU
<1>3. CPUOcupada'
  <2> SUFFICES ASSUME NEW d \in Carpinchos, NEW k \in CPUs \cup {SinCPU}, Ocupa(d, k)'
               PROVE  /\ k \in CPUs
                      /\ hilo_CPU'[k].liberar = 0 /\ k \notin Range(CPU_libres')
                      /\ \A e \in Carpinchos : Ocupa(e, k)' => e = d
    BY DEF CPUOcupada
  <2>1. d # c /\ Ocupa(d, k) /\ k # i
    BY <1>1
  <2>2. /\ k \in CPUs /\ hilo_CPU[k].liberar = 0 /\ k \notin Range(CPU_libres)
        /\ \A e \in Carpinchos : Ocupa(e, k) => e = d
    BY <2>1 DEF CInv, CPUOcupada
  <2> QED BY <1>2, <2>1, <2>2
<1>4. LiberarUnaVez'
  BY <1>1, <1>2 DEF CInv, LiberarUnaVez
<1> QED BY <1>3, <1>4 DEF CInv

\* The short-term planner.
LEMMA CortoLugar == IInv /\ EInv /\ LInv /\ CInv /\ ready_a_exec => LInv' /\ CInv'
<1> SUFFICES ASSUME IInv, EInv, LInv, CInv, ready_a_exec PROVE LInv' /\ CInv'
  OBVIOUS
<1> USE DEF cpus, recursos, llamadas
<1>1. TypeOK /\ CortoPlazoEncuentra
  BY DEF IInv
<1>2. CASE CortoEsperaReady \/ CortoEsperaCPU
  <2>1. Quieto
    BY <1>1, <1>2 DEF CortoEsperaReady, CortoEsperaCPU, TypeOK, TipoPlanificadores, Quieto
  <2> QED BY <2>1, QuietoConserva
<1>3. CASE CortoEstado
  <2>1. Quieto
    BY <1>1, <1>3 DEF CortoEstado, PonEstado, TypeOK, TipoCarpincho, TipoPlanificadores, Quieto
  <2> QED BY <2>1, QuietoConserva
<1>4. ASSUME NEW c \in Carpinchos, CortoElige(c) PROVE LInv' /\ CInv'
  BY <1>4, EligeLugar
<1>5. CASE CortoMueve
  <2>1. PICK c \in Carpinchos : c = corto.carpincho /\ c \in Range(cola["ready"])
    <3>1. corto.carpincho \in Range(cola["ready"]) /\ cola["ready"] \in Seq(Carpinchos)
      BY <1>1, <1>5 DEF CortoMueve, CortoPlazoEncuentra, TypeOK, TipoCola, Colas
    <3> QED BY <3>1 DEF Range
  <2>2. /\ corto.pc = "mueve" /\ corto'.pc = "estado"
        /\ UNCHANGED <<hilo, cliente, semaforo, CPU_libres, hilo_CPU, carpincho>>
        /\ cola'["ready"] = RemoveFirst(cola["ready"], c)
        /\ cola'["exec"] = Append(cola["exec"], c)
        /\ \A t \in EnMarcha \ {"ready", "exec"} : cola'[t] = cola[t]
        /\ cola["ready"] \in Seq(Carpinchos) /\ cola["exec"] \in Seq(Carpinchos)
    BY <1>1, <1>5, <2>1 DEF CortoMueve, Mueve, TypeOK, TipoCola, Colas, EnMarcha, TipoPlanificadores
  <2>3. IsInjective(cola["ready"]) /\ IsInjective(cola["exec"]) /\ UnSoloLugar(c)
    BY DEF LInv, SinRepetir, EnMarcha
  <2>4. "ready" \in EnCola(c) /\ c \notin Range(cola["exec"])
    BY <2>1, <2>3 DEF EnCola, EnMarcha, UnSoloLugar
  <2>5. /\ Range(cola'["ready"]) = Range(cola["ready"]) \ {c} /\ IsInjective(cola'["ready"])
        /\ Range(cola'["exec"]) = Range(cola["exec"]) \cup {c} /\ IsInjective(cola'["exec"])
    <3>1. /\ Range(cola'["ready"]) = Range(cola["ready"]) \ {c} /\ IsInjective(cola'["ready"])
      BY <2>1, <2>2, <2>3, QuitaInyectiva
    <3>2. /\ Range(cola'["exec"]) = Range(cola["exec"]) \cup {c} /\ IsInjective(cola'["exec"])
      BY <2>2, <2>3, <2>4, AppendEs, AgregaInyectiva
    <3> QED BY <3>1, <3>2
  <2>6. LInv'
    BY <2>2, <2>4, <2>5, Traslada DEF EnMarcha
  <2>7. ASSUME NEW d \in Carpinchos, NEW i \in CPUs \cup {SinCPU}, Ocupa(d, i)' PROVE Ocupa(d, i)
    BY <2>1, <2>2, <2>5, <2>7 DEF Ocupa, EnCola, EnMarcha
  <2> QED BY <2>2, <2>6, <2>7, OcupaIgual
<1>6. CASE CortoResponde
  <2>1. /\ corto.pc = "responde" /\ corto'.pc = "espera_ready" /\ UNCHANGED <<cola, hilo, semaforo,
               CPU_libres, hilo_CPU, carpincho>>
        /\ \A c \in Carpinchos : \/ cliente'[c] = cliente[c]
                                 \/ /\ c = corto.carpincho
                                    /\ cliente[c].pc = "espera" /\ cliente'[c].pc = "corre"
    BY <1>1, <1>6 DEF CortoResponde, Contesta, TypeOK, TipoCliente
  <2>2. ClientesTranquilos
    <3>1. ASSUME NEW c \in Carpinchos, c = corto.carpincho PROVE EnEspera(c) = {}
      BY <1>1, <2>1, <3>1, CorreSinEsperar DEF Llegando
    <3> QED BY <2>1, <3>1 DEF ClientesTranquilos
  <2>3. \A s \in Semaforos : /\ IsInjective(semaforo'[s].en_espera)
                             /\ Range(semaforo'[s].en_espera) \subseteq Range(semaforo[s].en_espera)
    BY <2>1 DEF LInv, SinRepetir
  <2> QED BY <2>1, <2>2, <2>3, ConservaTodo
<1> QED BY <1>2, <1>3, <1>4, <1>5, <1>6 DEF ready_a_exec

\* A CPU thread: it frees its CPU when nobody has it.
LEMMA CPULugar ==
    ASSUME IInv, LInv, CInv, NEW i \in CPUs, ejecuta(i) PROVE LInv' /\ CInv'
<1> USE DEF planificadores, recursos, llamadas
<1>1. CASE CPUToma(i) \/ CPUOcupa(i) \/ CPUAnuncia(i)
  <2>1. TipoCPU /\ UNCHANGED <<cola, hilo, cliente, semaforo, CPU_libres, corto, carpincho>>
    BY <1>1 DEF CPUToma, CPUOcupa, CPUAnuncia, IInv, TypeOK
  <2>2. \A k \in CPUs : hilo_CPU'[k].liberar = hilo_CPU[k].liberar
    <3>1. CASE CPUToma(i)
      BY <2>1, <3>1 DEF CPUToma, TipoCPU
    <3>2. CASE CPUOcupa(i)
      BY <2>1, <3>2 DEF CPUOcupa, TipoCPU
    <3>3. CASE CPUAnuncia(i)
      BY <2>1, <3>3 DEF CPUAnuncia, TipoCPU
    <3> QED BY <1>1, <3>1, <3>2, <3>3
  <2>3. Quieto
    BY <2>1, <2>2 DEF Quieto
  <2> QED BY <2>3, QuietoConserva
<1>2. CASE CPULibera(i)
  <2>1. /\ hilo_CPU[i].liberar > 0 /\ hilo_CPU'[i].liberar = hilo_CPU[i].liberar - 1
        /\ \A k \in CPUs \ {i} : hilo_CPU'[k].liberar = hilo_CPU[k].liberar
        /\ CPU_libres' = Append(CPU_libres, i) /\ hilo_CPU[i].liberar \in Nat
        /\ UNCHANGED <<cola, hilo, cliente, semaforo, corto, carpincho>>
        /\ CPU_libres \in Seq(CPUs)
    BY <1>2 DEF CPULibera, IInv, TypeOK, TipoCPU
  <2>2. Range(CPU_libres') = Range(CPU_libres) \cup {i}
    BY <2>1, AppendEs
  <2>3. LInv'
    <3>1. /\ \A h \in Hilos : hilo'[h] = hilo[h] \/ Tranquilo(h)
          /\ ClientesTranquilos
          /\ \A s \in Semaforos : /\ IsInjective(semaforo'[s].en_espera)
                                  /\ Range(semaforo'[s].en_espera) \subseteq Range(semaforo[s].en_espera)
      BY <2>1 DEF ClientesTranquilos, LInv, SinRepetir
    <3> QED BY <2>1, <3>1, Conserva
  <2>4. \A c \in Carpinchos : ~Ocupa(c, i)
    BY <2>1 DEF CInv, CPUOcupada
  <2>5. \A c \in Carpinchos : \A k \in CPUs \cup {SinCPU} : Ocupa(c, k)' <=> Ocupa(c, k)
    BY <2>1 DEF Ocupa, EnCola
  <2>6. CPUOcupada'
    BY <2>1, <2>2, <2>4, <2>5 DEF CInv, CPUOcupada
  <2>7. LiberarUnaVez'
    BY <2>1, <2>2 DEF CInv, LiberarUnaVez
  <2> QED BY <2>3, <2>6, <2>7 DEF CInv
<1> QED BY <1>1, <1>2 DEF ejecuta

-----------------------------------------------------------------------------
(* The threads of the calls.                                               *)

\* A step of one thread that leaves its carpincho where it is.
LEMMA HiloTranquilo ==
    ASSUME LInv, CInv, NEW h \in Hilos, \A k \in Hilos \ {h} : hilo'[k] = hilo[k], Tranquilo(h),
           ClientesTranquilos, \A q \in EnMarcha : cola'[q] = cola[q],
           \A s \in Semaforos : semaforo'[s].en_espera = semaforo[s].en_espera,
           UNCHANGED <<CPU_libres, hilo_CPU, corto>>,
           \A c \in Carpinchos : carpincho'[c].CPU_en_uso = carpincho[c].CPU_en_uso
    PROVE  LInv' /\ CInv'
<1>1. \A k \in Hilos : hilo'[k] = hilo[k] \/ Tranquilo(k)
  OBVIOUS
<1>2. \A s \in Semaforos : /\ IsInjective(semaforo'[s].en_espera)
                           /\ Range(semaforo'[s].en_espera) \subseteq Range(semaforo[s].en_espera)
  BY DEF LInv, SinRepetir
<1> QED BY <1>1, <1>2, ConservaTodo

\* A thread that ends leaves its carpincho where it is, unless it was taking it out of exec.
LEMMA TerminaTranquilo ==
    ASSUME NEW h \in Hilos, hilo[h].pc \notin Sacando, hilo'[h] = HiloLibre PROVE Tranquilo(h)
<1>1. HiloLibre.pc = "libre" /\ HiloLibre.recurso \notin Dispositivos
  BY ConstantesValidas DEF HiloLibre, ConstantesValidas
<1> QED BY <1>1 DEF Tranquilo, PasosCierre, Soltando, Volviendo

\* A thread takes its carpincho out of exec.
LEMMA SacaLugar ==
    ASSUME TypeOK, EInv, LInv, NEW h \in Hilos, NEW paso, Sigue(h, paso), UNCHANGED <<cliente, semaforo>>,
           \/ hilo[h].pc = "bloquea_mueve" /\ paso = "bloquea_estado"
           \/ hilo[h].pc = "cierra_exec" /\ paso = "cierra_grado",
           cola'["exec"] = RemoveFirst(cola["exec"], h[1]),
           \A q \in EnMarcha \ {"exec"} : cola'[q] = cola[q]
    PROVE  /\ LInv'
           /\ EnCola(h[1]) = {"exec"} /\ EnCola(h[1])' = {} /\ Llevan(h[1]) = {}
           /\ \A d \in Carpinchos \ {h[1]} : EnCola(d)' = EnCola(d)
<1>1. PICK c \in Carpinchos : c = h[1]
  BY DEF Hilos, HilosServidor, HilosDetector
<1>2. /\ \A k \in Hilos \ {h} : hilo'[k] = hilo[k]
      /\ hilo'[h].pc = paso /\ hilo'[h].recurso = hilo[h].recurso
      /\ hilo'[h].objetivo = hilo[h].objetivo
  BY SigueCambia DEF TypeOK
<1>3. UnSoloLugar(c) /\ Espera(c) /\ SinRepetir /\ HilosPropios
  BY DEF LInv
<1>4. EnCola(c) = {"exec"} /\ Llevan(c) = {}
  <2>1. "exec" \in EnCola(c)
    <3>1. h \in Sacan(c)
      BY <1>1 DEF Sacan, Sacando
    <3> QED BY <1>3, <3>1, UnaCausa
  <2> QED BY <1>3, <2>1 DEF UnSoloLugar
<1>5. Range(cola'["exec"]) = Range(cola["exec"]) \ {c} /\ IsInjective(cola'["exec"])
  <2>1. c \in Range(cola["exec"]) /\ IsInjective(cola["exec"]) /\ cola["exec"] \in Seq(Carpinchos)
    BY <1>3, <1>4 DEF EnCola, EnMarcha, SinRepetir, TypeOK, TipoCola, Colas
  <2> QED BY <1>1, <2>1, QuitaInyectiva
<1>6. EnCola(c)' = {} /\ \A d \in Carpinchos \ {c} : EnCola(d)' = EnCola(d)
  <2>1. ASSUME NEW q \in EnMarcha PROVE c \notin Range(cola'[q])
    BY <1>4, <1>5, <2>1 DEF EnCola
  <2>2. ASSUME NEW d \in Carpinchos \ {c}, NEW q \in EnMarcha
        PROVE  d \in Range(cola'[q]) <=> d \in Range(cola[q])
    BY <1>5
  <2> QED BY <2>1, <2>2 DEF EnCola
<1>7. SinRepetir'
  BY <1>3, <1>5 DEF SinRepetir
<1>8. HilosPropios'
  BY <1>2, <1>3 DEF HilosPropios, PasosCierre
<1>9. ASSUME NEW d \in Carpinchos \ {c} PROVE UnSoloLugar(d)' /\ Espera(d)'
  <2>1. Llevan(d)' = Llevan(d) /\ Sacan(d)' = Sacan(d) /\ EnEspera(d)' = EnEspera(d)
    <3>1. ASSUME NEW k \in Hilos
          PROVE  /\ Lleva(k, d)' <=> Lleva(k, d)
                 /\ k[1] = d => hilo'[k] = hilo[k]
      BY <1>1, <1>2 DEF Lleva, Soltando, Volviendo
    <3> QED BY <3>1 DEF Llevan, Sacan, EnEspera
  <2>2. ASSUME NEW k \in Hilos, k \in Llevan(d) \/ k[1] = d
        PROVE  hilo'[k] = hilo[k]
    BY <1>1, <1>2, <2>2 DEF Llevan, Lleva, Soltando, Volviendo
  <2>3. UnSoloLugar(d) /\ Espera(d)
    BY DEF LInv
  <2>4. UnSoloLugar(d)'
    BY <1>6, <2>1, <2>3 DEF UnSoloLugar
  <2>5. Espera(d)'
    <3>1. \A k \in Llevan(d) : k \in Hilos
      BY DEF Llevan
    <3> QED BY <1>6, <2>1, <2>2, <2>3, <3>1 DEF Espera
  <2> QED BY <2>4, <2>5
<1>10. UnSoloLugar(c)' /\ Espera(c)'
  <2>1. Llevan(c)' \subseteq {h} /\ EnEspera(c)' = EnEspera(c)
    <3>1. ASSUME NEW k \in Hilos \ {h} PROVE ~Lleva(k, c)'
      BY <1>2, <1>4 DEF Lleva, Llevan
    <3> QED BY <3>1 DEF Llevan, EnEspera
  <2>2. cliente[c].pc # "fuera"
    BY <1>3, <1>4 DEF UnSoloLugar
  <2>3. UnSoloLugar(c)'
    BY <1>6, <2>1, <2>2 DEF UnSoloLugar
  <2>4. ASSUME NEW k \in Llevan(c)' PROVE hilo'[k].pc \in Soltando
    <3>1. k = h /\ Lleva(h, c)'
      BY <2>1, <2>4 DEF Llevan
    <3> QED BY <1>2, <3>1 DEF Lleva, Soltando, Volviendo
  <2>5. ASSUME EnEspera(c) # {}, NEW k \in Hilos, k[1] = c,
               hilo'[k].pc \in Soltando \cup {"bloquea_mueve"}
        PROVE  hilo'[k].recurso \notin Dispositivos
    <3>1. hilo[k].pc \in Soltando \cup {"bloquea_mueve"} /\ hilo'[k].recurso = hilo[k].recurso
      BY <1>2, <2>5 DEF Soltando
    <3> QED BY <1>3, <2>5, <3>1 DEF Espera
  <2>6. Espera(c)'
    BY <1>3, <1>6, <2>1, <2>4, <2>5 DEF Espera
  <2> QED BY <2>3, <2>6
<1>11. LInv'
  BY <1>7, <1>8, <1>9, <1>10 DEF LInv
<1> QED BY <1>1, <1>4, <1>6, <1>11

\* A thread puts its carpincho back in a queue.
LEMMA VuelveLugar ==
    ASSUME TypeOK, LInv, CInv, NEW h \in Hilos, hilo[h].pc \in Volviendo, NEW paso, Sigue(h, paso),
           paso \in {"ready_publica", "suspended_publica"}, hilo[h].objetivo \in Carpinchos,
           UNCHANGED <<cliente, semaforo, CPU_libres, hilo_CPU, carpincho, corto>>,
           NEW r \in {"ready", "suspended_ready"}, cola'[r] = Append(cola[r], hilo[h].objetivo),
           \A q \in EnMarcha \ {r} : cola'[q] = cola[q]
    PROVE  LInv' /\ CInv'
<1>1. PICK c \in Carpinchos : c = hilo[h].objetivo
  OBVIOUS
<1>2. /\ \A k \in Hilos \ {h} : hilo'[k] = hilo[k]
      /\ hilo'[h].pc = paso /\ hilo'[h].recurso = hilo[h].recurso
      /\ hilo'[h].objetivo = hilo[h].objetivo
  BY SigueCambia DEF TypeOK
<1>3. UnSoloLugar(c) /\ Espera(c) /\ SinRepetir /\ HilosPropios
  BY DEF LInv
<1>4. EnCola(c) = {} /\ Llevan(c) = {h} /\ cliente[c].pc # "fuera"
  <2>1. h \in Llevan(c)
    BY <1>1 DEF Llevan, Lleva
  <2> QED BY <1>3, <2>1 DEF UnSoloLugar
<1>5. EnEspera(c) = {}
  BY <1>3, <1>4 DEF Espera, Volviendo, Soltando
<1>6. Range(cola'[r]) = Range(cola[r]) \cup {c} /\ IsInjective(cola'[r])
  <2>1. c \notin Range(cola[r]) /\ IsInjective(cola[r]) /\ cola[r] \in Seq(Carpinchos)
    BY <1>3, <1>4 DEF EnCola, EnMarcha, SinRepetir, TypeOK, TipoCola, Colas
  <2> QED BY <1>1, <2>1, AppendEs, AgregaInyectiva
<1>7. EnCola(c)' = {r} /\ \A d \in Carpinchos \ {c} : EnCola(d)' = EnCola(d)
  <2>1. ASSUME NEW q \in EnMarcha PROVE c \in Range(cola'[q]) <=> q = r
    BY <1>4, <1>6 DEF EnCola
  <2>2. ASSUME NEW d \in Carpinchos \ {c}, NEW q \in EnMarcha
        PROVE  d \in Range(cola'[q]) <=> d \in Range(cola[q])
    BY <1>6
  <2>3. r \in EnMarcha
    BY DEF EnMarcha
  <2> QED BY <2>1, <2>2, <2>3 DEF EnCola
<1>8. SinRepetir'
  BY <1>3, <1>6 DEF SinRepetir
<1>9. HilosPropios'
  BY <1>2, <1>3 DEF HilosPropios, PasosCierre
<1>10. ASSUME NEW d \in Carpinchos \ {c} PROVE UnSoloLugar(d)' /\ Espera(d)'
  <2>1. Llevan(d)' = Llevan(d) /\ Sacan(d)' = Sacan(d) /\ EnEspera(d)' = EnEspera(d)
    <3>1. ASSUME NEW k \in Hilos
          PROVE  /\ Lleva(k, d)' <=> Lleva(k, d)
                 /\ hilo'[k].pc \in Sacando <=> hilo[k].pc \in Sacando
      BY <1>1, <1>2 DEF Lleva, Soltando, Volviendo, Sacando
    <3> QED BY <3>1 DEF Llevan, Sacan, EnEspera
  <2>2. ASSUME NEW k \in Hilos, k \in Llevan(d) PROVE hilo'[k] = hilo[k]
    BY <1>1, <1>2, <2>2 DEF Llevan, Lleva, Soltando, Volviendo
  <2>3. ASSUME NEW k \in Hilos, hilo'[k].pc \in Soltando \cup {"bloquea_mueve"}
        PROVE  hilo'[k] = hilo[k]
    BY <1>2, <2>3 DEF Soltando
  <2>4. UnSoloLugar(d) /\ Espera(d) /\ \A k \in Llevan(d) : k \in Hilos
    BY DEF LInv, Llevan
  <2>5. UnSoloLugar(d)'
    BY <1>7, <2>1, <2>4 DEF UnSoloLugar
  <2>6. Espera(d)'
    BY <1>7, <2>1, <2>2, <2>3, <2>4 DEF Espera
  <2> QED BY <2>5, <2>6
<1>11. UnSoloLugar(c)' /\ Espera(c)'
  <2>1. Llevan(c)' = {} /\ EnEspera(c)' = {}
    <3>1. ASSUME NEW k \in Hilos \ {h} PROVE ~Lleva(k, c)'
      BY <1>2, <1>4 DEF Lleva, Llevan
    <3>2. ~Lleva(h, c)'
      BY <1>2 DEF Lleva, Soltando, Volviendo
    <3> QED BY <1>5, <3>1, <3>2 DEF Llevan, EnEspera
  <2> QED BY <1>4, <1>7, <2>1 DEF UnSoloLugar, Espera
<1>12. ASSUME NEW d \in Carpinchos, NEW i \in CPUs \cup {SinCPU}, Ocupa(d, i)' PROVE Ocupa(d, i)
  <2>1. "exec" \in EnCola(d)' => "exec" \in EnCola(d)
    BY <1>7 DEF EnCola
  <2>2. ASSUME NEW k \in Hilos, hilo'[k].pc \in Soltando PROVE hilo'[k] = hilo[k]
    BY <1>2, <2>2 DEF Soltando
  <2> QED BY <1>12, <2>1, <2>2 DEF Ocupa
<1>13. LInv'
  BY <1>8, <1>9, <1>10, <1>11 DEF LInv
<1> QED BY <1>12, <1>13, OcupaIgual

\* An answer goes to a carpincho that waits for no semaphore.
LEMMA ContestaTranquila ==
    ASSUME TypeOK, EInv, LInv, NEW h \in Hilos, Presta(hilo[h]), Contesta(h[1], h[2])
    PROVE  ClientesTranquilos
<1>1. PICK c \in Carpinchos : c = h[1] /\ h = <<c, h[2]>>
  BY DEF Hilos, HilosServidor, HilosDetector
<1>2. \A d \in Carpinchos \ {c} : cliente'[d] = cliente[d]
  BY <1>1 DEF Contesta, TypeOK, TipoCliente
<1>3. CASE cliente[c].pc = "espera" /\ h[2] = cliente[c].llamada
  <2>1. Ejecuta(c)
    BY <1>1, <1>3 DEF Ejecuta
  <2>2. EnEspera(c) = {}
    BY <2>1, CorreSinEsperar
  <2>3. cliente'[c].pc = "corre"
    BY <1>1, <1>3 DEF Contesta, TypeOK, TipoCliente
  <2> QED BY <1>2, <1>3, <2>2, <2>3 DEF ClientesTranquilos
<1>4. CASE ~(cliente[c].pc = "espera" /\ h[2] = cliente[c].llamada)
  <2>1. cliente'[c] = cliente[c]
    BY <1>1, <1>4 DEF Contesta, TypeOK, TipoCliente
  <2> QED BY <1>2, <2>1 DEF ClientesTranquilos
<1> QED BY <1>3, <1>4

\* What a server thread does.
LEMMA AtiendeLugar ==
    ASSUME IInv, EInv, LInv, CInv, NEW h \in Hilos, Atiende(h) PROVE LInv' /\ CInv'
<1> USE DEF cpus, planificadores, recursos
<1>1. TypeOK /\ TipoHilo /\ TipoCliente /\ TipoCarpincho /\ TipoCPU /\ TipoCola
  BY DEF IInv, TypeOK
<1>2. PICK c \in Carpinchos : c = h[1]
  BY DEF Hilos, HilosServidor, HilosDetector
<1>3. HilosPropios /\ UnSoloLugar(c) /\ Espera(c)
  BY DEF LInv
<1> DEFINE solo == \A k \in Hilos \ {h} : hilo'[k] = hilo[k]
           quieto == /\ \A q \in EnMarcha : cola'[q] = cola[q]
                     /\ \A s \in Semaforos : semaforo'[s].en_espera = semaforo[s].en_espera
                     /\ UNCHANGED <<CPU_libres, hilo_CPU, corto>>
                     /\ \A d \in Carpinchos : carpincho'[d].CPU_en_uso = carpincho[d].CPU_en_uso
<1>4. CASE MateInitPublica(h) \/ ReadyPublica(h) \/ SuspendedPublica(h) \/ MemoriaContesta(h)
  <2>1. /\ Termina(h) /\ quieto
        /\ hilo[h].pc \in {"init_publica", "ready_publica", "suspended_publica", "memoria"}
        /\ UNCHANGED cliente \/ (Presta(hilo[h]) /\ Contesta(h[1], h[2]))
    BY <1>1, <1>4 DEF MateInitPublica, ReadyPublica, SuspendedPublica, Publica, MemoriaContesta,
       PonEstado, TipoCarpincho, Presta, Despertando
  <2>2. solo /\ Tranquilo(h)
    BY <1>1, <2>1, TerminaCambia, TerminaTranquilo DEF Sacando
  <2>3. ClientesTranquilos
    <3>1. CASE UNCHANGED cliente
      BY <3>1 DEF ClientesTranquilos
    <3> QED BY <1>1, <2>1, <3>1, ContestaTranquila
  <2> QED BY <2>1, <2>2, <2>3, HiloTranquilo
<1>5. CASE CierraGrado(h)
  <2>1. /\ Termina(h) /\ quieto /\ hilo[h].pc = "cierra_grado"
        /\ \A d \in Carpinchos \ {c} : cliente'[d] = cliente[d]
        /\ cliente'[c] = cliente[c] \/ cliente'[c].pc = "fin"
    BY <1>1, <1>2, <1>5 DEF CierraGrado, TipoCliente
  <2>2. solo /\ Tranquilo(h)
    BY <1>1, <2>1, TerminaCambia, TerminaTranquilo DEF Sacando
  <2>3. EnEspera(c) = {}
    BY <1>2, <1>3, <2>1 DEF HilosPropios, PasosCierre, Espera
  <2>4. ClientesTranquilos
    BY <2>1, <2>3 DEF ClientesTranquilos
  <2> QED BY <2>1, <2>2, <2>4, HiloTranquilo
<1>6. CASE \/ BloqueaEstado(h) \/ Despierta(h) \/ mate_call_io(h)
           \/ CierraBlocked(h) \/ CierraSuspended(h)
  <2>1. /\ quieto /\ UNCHANGED cliente
        /\ \E paso \in PasosHilo : Sigue(h, paso) /\
              \/ hilo[h].pc \in Soltando /\ paso \in Soltando
              \/ hilo[h].pc \in Volviendo /\ paso \in Volviendo
              \/ hilo[h].pc \in PasosCierre \ {"cierra_exec"} /\ paso = "cierra_grado"
    <3>1. CASE BloqueaEstado(h)
      BY <1>1, <3>1 DEF BloqueaEstado, PonEstado, TipoCarpincho, Soltando, PasosHilo
    <3>2. CASE Despierta(h)
      BY <1>1, <3>2 DEF Despierta, PonEstado, TipoCarpincho, Volviendo, PasosHilo
    <3>3. CASE mate_call_io(h)
      BY <3>3 DEF mate_call_io, IoToma, IoDevuelve, Volviendo, PasosHilo
    <3>4. CASE CierraBlocked(h) \/ CierraSuspended(h)
      <4>1. quieto /\ UNCHANGED cliente
        <5>1. /\ UNCHANGED <<semaforo, CPU_libres, hilo_CPU, corto, cliente>>
              /\ carpincho' = [carpincho EXCEPT ![c].existe = FALSE]
              /\ \E q \in {"blocked", "suspended_blocked"} :
                    cola' = [cola EXCEPT ![q] = RemoveFirst(@, c)]
          BY <1>2, <3>4 DEF CierraBlocked, CierraSuspended, Cierra
        <5>2. \A d \in Carpinchos : carpincho'[d].CPU_en_uso = carpincho[d].CPU_en_uso
          BY <1>1, <5>1 DEF TipoCarpincho
        <5>3. \A q \in EnMarcha : cola'[q] = cola[q]
          BY <1>1, <5>1 DEF TipoCola, Colas, EnMarcha
        <5> QED BY <5>1, <5>2, <5>3
      <4>2. /\ hilo[h].pc \in PasosCierre \ {"cierra_exec"} /\ Sigue(h, "cierra_grado")
            /\ "cierra_grado" \in PasosHilo
        BY <3>4 DEF CierraBlocked, CierraSuspended, Cierra, PasosHilo, PasosCierre
      <4> QED BY <4>1, <4>2
    <3> QED BY <1>6, <3>1, <3>2, <3>3, <3>4
  <2>2. PICK paso \in PasosHilo : Sigue(h, paso) /\
              \/ hilo[h].pc \in Soltando /\ paso \in Soltando
              \/ hilo[h].pc \in Volviendo /\ paso \in Volviendo
              \/ hilo[h].pc \in PasosCierre \ {"cierra_exec"} /\ paso = "cierra_grado"
    BY <2>1
  <2>3. /\ solo /\ hilo'[h].pc = paso /\ hilo'[h].recurso = hilo[h].recurso
        /\ hilo'[h].objetivo = hilo[h].objetivo
    BY <1>1, <2>2, SigueCambia
  <2>4. Tranquilo(h)
    BY <1>3, <2>1, <2>2, <2>3 DEF Tranquilo, HilosPropios, Sacando, Soltando, Volviendo,
       PasosCierre, Lleva
  <2>5. ClientesTranquilos
    BY <2>1 DEF ClientesTranquilos
  <2> QED BY <2>1, <2>3, <2>4, <2>5, HiloTranquilo
<1>7. CASE BloqueaMueve(h)
  <2>1. /\ hilo[h].pc = "bloquea_mueve" /\ Sigue(h, "bloquea_estado") /\ UNCHANGED <<cliente, semaforo>>
        /\ UNCHANGED <<CPU_libres, hilo_CPU, carpincho, corto>>
        /\ cola'["exec"] = RemoveFirst(cola["exec"], h[1])
        /\ \A q \in EnMarcha \ {"exec"} : cola'[q] = cola[q]
    BY <1>1, <1>7 DEF BloqueaMueve, Mueve, TipoCola, Colas, EnMarcha
  <2>2. /\ LInv' /\ EnCola(c) = {"exec"} /\ EnCola(c)' = {}
        /\ \A d \in Carpinchos \ {c} : EnCola(d)' = EnCola(d)
    BY <1>1, <1>2, <2>1, SacaLugar
  <2>3. \A k \in Hilos \ {h} : hilo'[k] = hilo[k]
    BY <1>1, <2>1, SigueCambia
  <2>4. ASSUME NEW d \in Carpinchos, NEW i \in CPUs \cup {SinCPU}, Ocupa(d, i)' PROVE Ocupa(d, i)
    <3>1. CASE d = c
      BY <2>1, <2>2, <2>4, <3>1 DEF Ocupa
    <3>2. CASE d # c
      <4>1. \A k \in Hilos : k[1] = d => hilo'[k] = hilo[k]
        BY <1>2, <2>3, <3>2
      <4> QED BY <2>1, <2>2, <2>4, <3>2, <4>1 DEF Ocupa
    <3> QED BY <3>1, <3>2
  <2> QED BY <2>1, <2>2, <2>4, OcupaIgual
<1>8. CASE CierraExec(h)
  <2> DEFINE i == carpincho[c].CPU_en_uso
  <2>1. /\ hilo[h].pc = "cierra_exec" /\ Sigue(h, "cierra_grado") /\ UNCHANGED <<cliente, semaforo>>
        /\ UNCHANGED <<CPU_libres, corto>> /\ PostLiberar(i)
        /\ \A d \in Carpinchos : carpincho'[d].CPU_en_uso = carpincho[d].CPU_en_uso
        /\ cola'["exec"] = RemoveFirst(cola["exec"], h[1])
        /\ \A q \in EnMarcha \ {"exec"} : cola'[q] = cola[q]
    BY <1>1, <1>2, <1>8 DEF CierraExec, Cierra, TipoCola, Colas, EnMarcha, TipoCarpincho
  <2>2. /\ LInv' /\ EnCola(c) = {"exec"} /\ EnCola(c)' = {} /\ Llevan(c) = {}
        /\ \A d \in Carpinchos \ {c} : EnCola(d)' = EnCola(d)
    BY <1>1, <1>2, <2>1, SacaLugar
  <2>3. (\A k \in Hilos \ {h} : hilo'[k] = hilo[k]) /\ hilo'[h].pc = "cierra_grado"
    BY <1>1, <2>1, SigueCambia
  <2>4. i \in CPUs \cup {SinCPU} /\ Ocupa(c, i)
    BY <1>1, <2>2 DEF TipoCarpincho, Ocupa
  <2>5. ASSUME NEW d \in Carpinchos, NEW k \in CPUs \cup {SinCPU}, Ocupa(d, k)'
        PROVE  d # c /\ Ocupa(d, k)
    <3>1. d # c
      <4>1. \A t \in Hilos : t[1] = c => hilo'[t].pc \notin Soltando
        BY <2>2, <2>3 DEF Llevan, Lleva, Soltando
      <4>2. corto.pc = "mueve" => corto.carpincho # c
        BY <2>2 DEF IInv, CortoPlazoEncuentra, EnCola, EnMarcha
      <4> QED BY <2>1, <2>2, <2>5, <4>1, <4>2 DEF Ocupa
    <3>2. \A t \in Hilos : t[1] = d => hilo'[t] = hilo[t]
      BY <1>2, <2>3, <3>1
    <3> QED BY <2>1, <2>2, <2>5, <3>1, <3>2 DEF Ocupa
  <2> HIDE DEF i
  <2>6. CInv'
    BY <1>1, <2>1, <2>4, <2>5, Suelta
  <2> QED BY <2>2, <2>6
<1>9. CASE BloqueaLibera(h)
  <2> DEFINE i == carpincho[c].CPU_en_uso
  <2>1. /\ hilo[h].pc = "bloquea_libera" /\ PostLiberar(i)
        /\ IF hilo[h].recurso \in Dispositivos THEN Sigue(h, "io_pide") ELSE Termina(h)
        /\ UNCHANGED <<cola, cliente, semaforo, CPU_libres, corto, carpincho>>
    BY <1>2, <1>9 DEF BloqueaLibera
  <2>2. h \in Llevan(c) /\ Llevan(c) = {h} /\ EnCola(c) = {}
    <3>1. h \in Llevan(c)
      BY <1>2, <2>1 DEF Llevan, Lleva, Soltando
    <3> QED BY <1>3, <3>1 DEF UnSoloLugar
  <2>3. solo /\ Tranquilo(h) /\ hilo'[h].pc \notin Soltando
    <3>1. CASE hilo[h].recurso \in Dispositivos
      <4>1. /\ solo /\ hilo'[h].pc = "io_pide" /\ hilo'[h].recurso = hilo[h].recurso
            /\ hilo'[h].objetivo = hilo[h].objetivo
        BY <1>1, <2>1, <3>1, SigueCambia
      <4>2. hilo[h].objetivo = h[1]
        BY <1>3, <3>1 DEF HilosPropios
      <4> QED BY <2>1, <3>1, <4>1, <4>2 DEF Tranquilo, Sacando, Soltando, Volviendo, PasosCierre, Lleva
    <3>2. CASE hilo[h].recurso \notin Dispositivos
      <4>1. solo /\ hilo'[h] = HiloLibre
        BY <1>1, <2>1, <3>2, TerminaCambia
      <4> QED BY <2>1, <4>1, TerminaTranquilo DEF Sacando, HiloLibre, Soltando
    <3> QED BY <3>1, <3>2
  <2>4. LInv'
    <3>1. /\ \A k \in Hilos : hilo'[k] = hilo[k] \/ Tranquilo(k)
          /\ ClientesTranquilos
          /\ \A s \in Semaforos : /\ IsInjective(semaforo'[s].en_espera)
                                  /\ Range(semaforo'[s].en_espera) \subseteq Range(semaforo[s].en_espera)
      BY <2>1, <2>3 DEF ClientesTranquilos, LInv, SinRepetir
    <3> QED BY <2>1, <3>1, Conserva
  <2>5. i \in CPUs \cup {SinCPU} /\ Ocupa(c, i)
    BY <1>1, <1>2, <2>1 DEF TipoCarpincho, Ocupa, Soltando
  <2>6. ASSUME NEW d \in Carpinchos, NEW k \in CPUs \cup {SinCPU}, Ocupa(d, k)'
        PROVE  d # c /\ Ocupa(d, k)
    <3>1. EnCola(d)' = EnCola(d)
      BY <2>1 DEF EnCola
    <3>2. d # c
      <4>1. \A t \in Hilos : t[1] = c => hilo'[t].pc \notin Soltando
        BY <2>2, <2>3 DEF Llevan, Lleva
      <4>2. corto.pc = "mueve" => corto.carpincho # c
        BY <2>2 DEF IInv, CortoPlazoEncuentra, EnCola, EnMarcha
      <4> QED BY <2>1, <2>2, <2>6, <3>1, <4>1, <4>2 DEF Ocupa
    <3>3. \A t \in Hilos : t[1] = d => hilo'[t] = hilo[t]
      BY <1>2, <2>3, <3>2
    <3> QED BY <2>1, <2>6, <3>1, <3>2, <3>3 DEF Ocupa
  <2> HIDE DEF i
  <2>7. CInv'
    BY <1>1, <2>1, <2>5, <2>6, Suelta
  <2> QED BY <2>4, <2>7
<1>10. CASE ReadyMueve(h) \/ SuspendedMueve(h)
  <2>1. hilo[h].objetivo \in Carpinchos
    BY <1>10 DEF ReadyMueve, SuspendedMueve, IInv, Auxiliar, HilosConObjetivo
  <2>2. CASE ReadyMueve(h)
    <3>1. /\ hilo[h].pc \in Volviendo /\ Sigue(h, "ready_publica")
          /\ UNCHANGED <<cliente, semaforo, CPU_libres, hilo_CPU, carpincho, corto>>
          /\ cola'["ready"] = Append(cola["ready"], hilo[h].objetivo)
          /\ \A q \in EnMarcha \ {"ready"} : cola'[q] = cola[q]
      BY <1>1, <2>2 DEF ReadyMueve, Mueve, TipoCola, Colas, EnMarcha, Volviendo
    <3> QED BY <1>1, <2>1, <3>1, VuelveLugar
  <2>3. CASE SuspendedMueve(h)
    <3>1. /\ hilo[h].pc \in Volviendo /\ Sigue(h, "suspended_publica")
          /\ UNCHANGED <<cliente, semaforo, CPU_libres, hilo_CPU, carpincho, corto>>
          /\ cola'["suspended_ready"] = Append(cola["suspended_ready"], hilo[h].objetivo)
          /\ \A q \in EnMarcha \ {"suspended_ready"} : cola'[q] = cola[q]
      BY <1>1, <2>3 DEF SuspendedMueve, Mueve, TipoCola, Colas, EnMarcha, Volviendo
    <3> QED BY <1>1, <2>1, <3>1, VuelveLugar
  <2> QED BY <1>10, <2>2, <2>3
<1> QED BY <1>4, <1>5, <1>6, <1>7, <1>8, <1>9, <1>10
        DEF Atiende, exec_a_block, despertar, mate_close

-----------------------------------------------------------------------------
(* The calls.                                                              *)

\* A call that moves nobody.
LEMMA LlamaLugar ==
    ASSUME IInv, LInv, CInv, NEW c \in Carpinchos, cliente[c].llamada < MaxLlamadas,
           cliente[c].pc \in {"fuera", "corre"}, NEW espera \in {"espera", "cierra"}, NEW inicio,
           \/ LlamaYSigue(c) /\ cliente[c].pc = "corre"
           \/ /\ LlamaYEspera(c, espera, inicio)
              /\ InicioValido(inicio) /\ inicio.pc \notin Soltando \cup Volviendo
              /\ inicio.recurso \in Dispositivos => inicio.objetivo = c
              /\ inicio.pc \in PasosCierre => espera = "cierra",
           UNCHANGED <<suspensor, corto, CPU_libres, hilo_CPU, cola>>,
           \A s \in Semaforos : /\ IsInjective(semaforo'[s].en_espera)
                                /\ Range(semaforo'[s].en_espera) \subseteq Range(semaforo[s].en_espera),
           \A d \in Carpinchos : carpincho'[d].CPU_en_uso = carpincho[d].CPU_en_uso
    PROVE  LInv' /\ CInv'
<1>1. TypeOK /\ TipoHilo /\ TipoCliente /\ Auxiliar
  BY DEF IInv, TypeOK
<1>2. EnEspera(c) = {}
  BY DEF LInv, Espera
<1>3. CASE LlamaYSigue(c) /\ cliente[c].pc = "corre"
  <2>1. UNCHANGED hilo /\ ClientesTranquilos
    BY <1>1, <1>2, <1>3 DEF LlamaYSigue, TipoCliente, ClientesTranquilos
  <2> QED BY <2>1, ConservaTodo
<1>4. CASE /\ LlamaYEspera(c, espera, inicio)
           /\ InicioValido(inicio) /\ inicio.pc \notin Soltando \cup Volviendo
           /\ inicio.recurso \in Dispositivos => inicio.objetivo = c
           /\ inicio.pc \in PasosCierre => espera = "cierra"
  <2>1. PICK h : h = <<c, cliente[c].llamada + 1>>
    OBVIOUS
  <2>2. /\ h \in Hilos /\ hilo[h].pc = "libre" /\ hilo'[h] = inicio
        /\ \A k \in Hilos \ {h} : hilo'[k] = hilo[k]
    BY <1>1, <1>4, <2>1, LlamaCambia
  <2>3. /\ h[1] = c /\ cliente'[c].pc = espera
        /\ \A d \in Carpinchos \ {c} : cliente'[d] = cliente[d]
    BY <1>1, <1>4, <2>1 DEF LlamaYEspera, TipoCliente
  <2>4. Tranquilo(h)
    BY <1>2, <1>4, <2>2, <2>3 DEF Tranquilo, Sacando
  <2>5. ClientesTranquilos
    BY <1>2, <2>3 DEF ClientesTranquilos
  <2>6. \A k \in Hilos : hilo'[k] = hilo[k] \/ Tranquilo(k)
    BY <2>2, <2>4
  <2> QED BY <2>5, <2>6, ConservaTodo
<1> QED BY <1>3, <1>4

\* mate_init puts a carpincho that was nowhere in new.
LEMMA InitLugar ==
    ASSUME IInv, LInv, CInv, NEW c \in Carpinchos, MateInit(c) PROVE LInv' /\ CInv'
<1> USE DEF cpus, planificadores, recursos
<1>1. TypeOK /\ TipoHilo /\ TipoCliente /\ Auxiliar
  BY DEF IInv, TypeOK
<1>2. PICK h : h = <<c, cliente[c].llamada + 1>>
  OBVIOUS
<1>3. /\ h \in Hilos /\ hilo[h].pc = "libre" /\ hilo'[h].pc = "init_publica"
      /\ hilo'[h].recurso \notin Dispositivos
      /\ \A k \in Hilos \ {h} : hilo'[k] = hilo[k]
  <2>1. PICK inicio : inicio = [pc |-> "init_publica", recurso |-> Nadie, objetivo |-> Nadie]
    OBVIOUS
  <2>2. LlamaYEspera(c, "espera", inicio) /\ cliente[c].llamada < MaxLlamadas /\ UNCHANGED suspensor
    BY <1>1, <2>1, ConstantesValidas DEF MateInit, Auxiliar, HilosFuturosLibres, ConstantesValidas
  <2>3. InicioValido(inicio) /\ inicio.recurso \notin Dispositivos
    BY <2>1, ConstantesValidas DEF InicioValido, PasosHilo, ConstantesValidas
  <2> QED BY <1>1, <1>2, <2>1, <2>2, <2>3, LlamaCambia
<1>4. /\ cliente[c].pc = "fuera" /\ cliente'[c].pc = "espera"
      /\ \A d \in Carpinchos \ {c} : cliente'[d] = cliente[d]
      /\ cola'["new"] = Append(cola["new"], c) /\ cola["new"] \in Seq(Carpinchos)
      /\ \A q \in EnMarcha \ {"new"} : cola'[q] = cola[q]
      /\ UNCHANGED <<semaforo, corto, CPU_libres, hilo_CPU>>
      /\ \A d \in Carpinchos : carpincho'[d].CPU_en_uso = carpincho[d].CPU_en_uso
  BY <1>1 DEF MateInit, LlamaYEspera, TypeOK, TipoCola, Colas, EnMarcha, TipoCliente, TipoCarpincho
<1>5. EnCola(c) = {} /\ Llevan(c) = {} /\ EnEspera(c) = {}
  BY <1>4 DEF LInv, UnSoloLugar, Espera
<1>6. Range(cola'["new"]) = Range(cola["new"]) \cup {c} /\ IsInjective(cola'["new"])
  <2>1. c \notin Range(cola["new"]) /\ IsInjective(cola["new"])
    BY <1>5 DEF EnCola, EnMarcha, LInv, SinRepetir
  <2> QED BY <1>4, <2>1, AppendEs, AgregaInyectiva
<1>7. EnCola(c)' = {"new"} /\ \A d \in Carpinchos \ {c} : EnCola(d)' = EnCola(d)
  <2>1. ASSUME NEW q \in EnMarcha PROVE c \in Range(cola'[q]) <=> q = "new"
    BY <1>4, <1>5, <1>6 DEF EnCola
  <2>2. ASSUME NEW d \in Carpinchos \ {c}, NEW q \in EnMarcha
        PROVE  d \in Range(cola'[q]) <=> d \in Range(cola[q])
    BY <1>4, <1>6
  <2>3. "new" \in EnMarcha
    BY DEF EnMarcha
  <2> QED BY <2>1, <2>2, <2>3 DEF EnCola
<1>8. \A d \in Carpinchos : /\ Llevan(d)' = Llevan(d) /\ Sacan(d)' = Sacan(d)
                            /\ EnEspera(d)' = EnEspera(d)
  <2>1. ASSUME NEW d \in Carpinchos, NEW k \in Hilos
        PROVE  /\ Lleva(k, d)' <=> Lleva(k, d)
               /\ hilo'[k].pc \in Sacando <=> hilo[k].pc \in Sacando
    BY <1>3 DEF Lleva, Soltando, Volviendo, Sacando
  <2> QED BY <1>4, <2>1 DEF Llevan, Sacan, EnEspera
<1>9. ASSUME NEW k \in Hilos, hilo'[k].pc \in Soltando \cup Volviendo \cup {"bloquea_mueve"}
      PROVE  hilo'[k] = hilo[k]
  BY <1>3, <1>9 DEF Soltando, Volviendo
<1>10. SinRepetir'
  BY <1>4, <1>6 DEF LInv, SinRepetir
<1>11. HilosPropios'
  <2> SUFFICES ASSUME NEW k \in Hilos
               PROVE  /\ hilo'[k].recurso \in Dispositivos => hilo'[k].objetivo = k[1]
                      /\ hilo'[k].pc \in PasosCierre => cliente'[k[1]].pc \in {"cierra", "fin"}
    BY DEF HilosPropios
  <2>1. k[1] \in Carpinchos
    BY DEF Hilos, HilosServidor, HilosDetector
  <2> QED BY <1>3, <1>4, <2>1 DEF LInv, HilosPropios, PasosCierre
<1>12. ASSUME NEW d \in Carpinchos PROVE UnSoloLugar(d)' /\ Espera(d)'
  <2>1. CASE d = c
    BY <1>4, <1>5, <1>7, <1>8, <2>1 DEF UnSoloLugar, Espera
  <2>2. CASE d # c
    <3>1. UnSoloLugar(d) /\ Espera(d) /\ \A k \in Llevan(d) : k \in Hilos
      BY DEF LInv, Llevan
    <3>2. UnSoloLugar(d)'
      BY <1>4, <1>7, <1>8, <2>2, <3>1 DEF UnSoloLugar
    <3>3. \A k \in Llevan(d) : hilo[k].pc \in Soltando => hilo'[k].pc \in Soltando
      BY <1>3, <3>1 DEF Soltando
    <3>4. Espera(d)'
      BY <1>4, <1>7, <1>8, <1>9, <2>2, <3>1, <3>3 DEF Espera
    <3> QED BY <3>2, <3>4
  <2> QED BY <2>1, <2>2
<1>13. ASSUME NEW d \in Carpinchos, NEW i \in CPUs \cup {SinCPU}, Ocupa(d, i)' PROVE Ocupa(d, i)
  <2>1. "exec" \in EnCola(d)' => "exec" \in EnCola(d)
    BY <1>7 DEF EnCola
  <2> QED BY <1>4, <1>9, <1>13, <2>1 DEF Ocupa
<1>14. LInv'
  BY <1>10, <1>11, <1>12 DEF LInv
<1> QED BY <1>4, <1>13, <1>14, OcupaIgual

\* mate_sem_wait: a carpincho that runs joins the queue of the semaphore.
LEMMA EsperaLugar ==
    ASSUME IInv, EInv, LInv, CInv, NEW c \in Carpinchos, NEW s \in Semaforos,
           MateSemWait(c, s), Bloquea(s)
    PROVE  LInv' /\ CInv'
<1> USE DEF cpus, planificadores
<1>1. TypeOK /\ TipoHilo /\ TipoCliente /\ Auxiliar /\ s \notin Dispositivos
  BY ConstantesValidas DEF IInv, TypeOK, ConstantesValidas
<1>2. PICK h : h = <<c, cliente[c].llamada + 1>>
  OBVIOUS
<1>3. /\ h \in Hilos /\ hilo[h].pc = "libre"
      /\ hilo'[h].pc = "bloquea_mueve" /\ hilo'[h].recurso = s
      /\ \A k \in Hilos \ {h} : hilo'[k] = hilo[k]
  <2>1. PICK inicio : inicio = [pc |-> "bloquea_mueve", recurso |-> s, objetivo |-> Nadie]
    OBVIOUS
  <2>2. LlamaYEspera(c, "espera", inicio) /\ cliente[c].llamada < MaxLlamadas /\ UNCHANGED suspensor
    BY <2>1 DEF MateSemWait, PuedeLlamar
  <2>3. InicioValido(inicio)
    BY <1>1, <2>1 DEF InicioValido, PasosHilo
  <2> QED BY <1>1, <1>2, <2>1, <2>2, <2>3, LlamaCambia
<1>4. /\ h[1] = c /\ cliente[c].pc = "corre" /\ cliente'[c].pc = "espera"
      /\ \A d \in Carpinchos \ {c} : cliente'[d] = cliente[d]
      /\ UNCHANGED <<cola, corto, CPU_libres, hilo_CPU>>
      /\ \A d \in Carpinchos : carpincho'[d].CPU_en_uso = carpincho[d].CPU_en_uso
  BY <1>1, <1>2 DEF MateSemWait, PuedeLlamar, LlamaYEspera, GuardaFd, TypeOK, TipoCliente,
     TipoCarpincho
<1>5. /\ semaforo[s].en_espera \in Seq(Carpinchos)
      /\ semaforo'[s].en_espera = Append(semaforo[s].en_espera, c)
      /\ \A t \in Semaforos \ {s} : semaforo'[t] = semaforo[t]
  BY <1>1 DEF MateSemWait, TypeOK, TipoRecursos
<1>6. EnEspera(c) = {} /\ EnCola(c) = {"exec"} /\ Llevan(c) = {} /\ Sacan(c) = {}
  <2>1. Ejecuta(c)
    BY <1>4 DEF Ejecuta
  <2>2. EnEspera(c) = {} /\ EnCola(c) = {"exec"} /\ Llevan(c) = {}
    BY <1>1, <2>1, CorreSinEsperar
  <2>3. Sacan(c) = {}
    BY <1>1, <2>1, UnaCausa DEF LInv
  <2> QED BY <2>2, <2>3
<1>7. /\ Range(semaforo'[s].en_espera) = Range(semaforo[s].en_espera) \cup {c}
      /\ IsInjective(semaforo'[s].en_espera)
  <2>1. c \notin Range(semaforo[s].en_espera) /\ IsInjective(semaforo[s].en_espera)
    BY <1>6 DEF EnEspera, LInv, SinRepetir
  <2> QED BY <1>5, <2>1, AppendEs, AgregaInyectiva
<1>8. EnEspera(c)' = {s} /\ \A d \in Carpinchos \ {c} : EnEspera(d)' = EnEspera(d)
  <2>1. ASSUME NEW t \in Semaforos PROVE c \in Range(semaforo'[t].en_espera) <=> t = s
    BY <1>5, <1>6, <1>7 DEF EnEspera
  <2>2. ASSUME NEW d \in Carpinchos \ {c}, NEW t \in Semaforos
        PROVE  d \in Range(semaforo'[t].en_espera) <=> d \in Range(semaforo[t].en_espera)
    BY <1>5, <1>7
  <2> QED BY <2>1, <2>2 DEF EnEspera
<1>9. \A d \in Carpinchos : EnCola(d)' = EnCola(d) /\ Llevan(d)' = Llevan(d)
  <2>1. ASSUME NEW d \in Carpinchos, NEW k \in Hilos PROVE Lleva(k, d)' <=> Lleva(k, d)
    BY <1>3 DEF Lleva, Soltando, Volviendo
  <2> QED BY <1>4, <2>1 DEF Llevan, EnCola
<1>10. ASSUME NEW k \in Hilos, k # h PROVE hilo'[k] = hilo[k]
  BY <1>3, <1>10
<1>11. SinRepetir'
  BY <1>4, <1>5, <1>7 DEF LInv, SinRepetir
<1>12. HilosPropios'
  <2> SUFFICES ASSUME NEW k \in Hilos
               PROVE  /\ hilo'[k].recurso \in Dispositivos => hilo'[k].objetivo = k[1]
                      /\ hilo'[k].pc \in PasosCierre => cliente'[k[1]].pc \in {"cierra", "fin"}
    BY DEF HilosPropios
  <2>1. k[1] \in Carpinchos
    BY DEF Hilos, HilosServidor, HilosDetector
  <2> QED BY <1>1, <1>3, <1>4, <2>1 DEF LInv, HilosPropios, PasosCierre
<1>13. UnSoloLugar(c)' /\ Espera(c)'
  <2>1. UnSoloLugar(c)'
    BY <1>4, <1>6, <1>9 DEF UnSoloLugar
  <2>2. Sacan(c)' # {}
    <3>1. h \in Sacan(c)'
      BY <1>3, <1>4 DEF Sacan, Sacando
    <3> QED BY <3>1
  <2>3. ASSUME NEW k \in Hilos, k[1] = c, hilo'[k].pc \in Soltando \cup {"bloquea_mueve"}
        PROVE  hilo'[k].recurso \notin Dispositivos
    <3>1. k = h
      <4>1. SUFFICES ASSUME k # h PROVE FALSE
        OBVIOUS
      <4>2. k \in Llevan(c) \/ k \in Sacan(c)
        BY <1>10, <2>3, <4>1 DEF Llevan, Lleva, Sacan, Sacando
      <4> QED BY <1>6, <4>2
    <3> QED BY <1>1, <1>3, <3>1
  <2>4. Espera(c)'
    BY <1>4, <1>6, <1>8, <1>9, <2>2, <2>3 DEF Espera
  <2> QED BY <2>1, <2>4
<1>14. ASSUME NEW d \in Carpinchos \ {c} PROVE UnSoloLugar(d)' /\ Espera(d)'
  <2>1. UnSoloLugar(d) /\ Espera(d) /\ \A k \in Llevan(d) : k \in Hilos
    BY DEF LInv, Llevan
  <2>2. UnSoloLugar(d)'
    BY <1>4, <1>9, <2>1 DEF UnSoloLugar
  <2>3. ASSUME NEW k \in Hilos, k \in Llevan(d) \/ k[1] = d PROVE hilo'[k] = hilo[k]
    BY <1>3, <1>4, <2>3 DEF Llevan, Lleva, Soltando, Volviendo
  <2>4. Sacan(d)' = Sacan(d)
    BY <2>3 DEF Sacan
  <2>5. Espera(d)'
    BY <1>4, <1>8, <1>9, <2>1, <2>3, <2>4 DEF Espera
  <2> QED BY <2>2, <2>5
<1>15. ASSUME NEW d \in Carpinchos, NEW i \in CPUs \cup {SinCPU}, Ocupa(d, i)' PROVE Ocupa(d, i)
  <2>1. \A k \in Hilos : hilo'[k].pc \in Soltando => hilo[k].pc \in Soltando
    BY <1>3 DEF Soltando
  <2> QED BY <1>4, <1>9, <1>15, <2>1 DEF Ocupa
<1>16. LInv'
  BY <1>11, <1>12, <1>13, <1>14 DEF LInv
<1> QED BY <1>4, <1>15, <1>16, OcupaIgual

\* What mate_sem_post leaves of the queue of waiters.
LEMMA QuedanEs ==
    ASSUME NEW q \in Seq(Carpinchos), IsInjective(q), q # << >>
    PROVE  /\ SinElMuerto(q) \in Seq(Carpinchos) /\ IsInjective(SinElMuerto(q))
           /\ Range(SinElMuerto(q)) \subseteq Range(q)
<1>1. /\ Tail(q) \in Seq(Carpinchos) /\ IsInjective(Tail(q))
      /\ Range(Tail(q)) \subseteq Range(q)
  BY TailEs
<1> QED BY <1>1 DEF SinElMuerto

\* mate_sem_post takes in its hands a carpincho that has left exec: the only CPU is had
\* by the one that posts.
LEMMA DespiertaLugar ==
    ASSUME IInv, EInv, LInv, CInv, NEW c \in Carpinchos, NEW s \in Semaforos, NEW q,
           q \in Seq(Carpinchos), q # << >>, IsInjective(q),
           Range(q) \subseteq Range(semaforo[s].en_espera),
           semaforo'[s].en_espera = Tail(q), \A t \in Semaforos \ {s} : semaforo'[t] = semaforo[t],
           LlamaYEspera(c, "espera", [pc |-> "despierta", recurso |-> s, objetivo |-> Head(q)]),
           cliente[c].pc = "corre", cliente[c].llamada < MaxLlamadas, GradoMultiprocesamiento <= 1,
           UNCHANGED <<cola, CPU_libres, hilo_CPU, suspensor, corto, carpincho>>
    PROVE  LInv' /\ CInv'
<1>1. TypeOK /\ TipoHilo /\ TipoCliente /\ Auxiliar /\ s \notin Dispositivos
  BY ConstantesValidas DEF IInv, TypeOK, ConstantesValidas
<1>2. PICK h : h = <<c, cliente[c].llamada + 1>>
  OBVIOUS
<1>3. PICK d \in Carpinchos : d = Head(q)
  BY TailEs
<1>4. /\ h \in Hilos /\ hilo[h].pc = "libre" /\ h[1] = c
      /\ hilo'[h].pc = "despierta" /\ hilo'[h].recurso = s /\ hilo'[h].objetivo = d
      /\ \A k \in Hilos \ {h} : hilo'[k] = hilo[k]
  <2>1. PICK inicio : inicio = [pc |-> "despierta", recurso |-> s, objetivo |-> d]
    OBVIOUS
  <2>2. LlamaYEspera(c, "espera", inicio) /\ InicioValido(inicio)
    BY <1>3, <2>1 DEF InicioValido, PasosHilo
  <2> QED BY <1>1, <1>2, <2>1, <2>2, LlamaCambia
<1>5. /\ cliente'[c].pc = "espera" /\ \A e \in Carpinchos \ {c} : cliente'[e] = cliente[e]
  BY <1>1 DEF LlamaYEspera, TipoCliente
<1>6. /\ d \in Range(q) /\ d \notin Range(Tail(q)) /\ IsInjective(Tail(q))
      /\ Range(Tail(q)) \subseteq Range(semaforo[s].en_espera)
      /\ d \in Range(semaforo[s].en_espera)
  BY <1>3, TailEs
<1>7. s \in EnEspera(d) /\ Espera(d) /\ UnSoloLugar(d)
  BY <1>6 DEF EnEspera, LInv
<1>8. d # c /\ cliente[d].pc = "espera"
  BY <1>7 DEF Espera
<1>9. EnCola(d) = {} /\ Llevan(d) = {}
  <2>1. SUFFICES ASSUME EnCola(d) # {} \/ Llevan(d) # {} PROVE FALSE
    OBVIOUS
  <2>2. "exec" \in EnCola(d) \/ \E k \in Hilos : k[1] = d /\ hilo[k].pc \in Soltando
    BY <1>7, <2>1 DEF Espera, Llevan, Lleva, Soltando, Volviendo
  <2>3. "exec" \in EnCola(c)
    <3>1. Ejecuta(c)
      BY DEF Ejecuta
    <3> QED BY <1>1, <3>1, CorreSinEsperar
  <2>4. PICK i \in CPUs \cup {SinCPU}, j \in CPUs \cup {SinCPU} :
           i = carpincho[c].CPU_en_uso /\ j = carpincho[d].CPU_en_uso
    BY <1>1 DEF TypeOK, TipoCarpincho
  <2>5. Ocupa(c, i) /\ Ocupa(d, j)
    BY <2>2, <2>3, <2>4 DEF Ocupa
  <2>6. i \in CPUs /\ j \in CPUs
    BY <2>5 DEF CInv, CPUOcupada
  <2>7. i = j
    BY <2>6, ConstantesValidas DEF CPUs, ConstantesValidas
  <2> QED BY <1>8, <2>5, <2>7 DEF CInv, CPUOcupada
<1>10. EnEspera(d)' = {} /\ \A e \in Carpinchos : EnEspera(e)' \subseteq EnEspera(e)
  <2>1. ASSUME NEW e \in Carpinchos, NEW t \in Semaforos, e \in Range(semaforo'[t].en_espera)
        PROVE  e \in Range(semaforo[t].en_espera) /\ (t = s => e # d)
    BY <1>6, <2>1
  <2>2. \A t \in EnEspera(d) : t = s
    BY <1>7 DEF Espera
  <2> QED BY <2>1, <2>2 DEF EnEspera
<1>11. /\ \A e \in Carpinchos : EnCola(e)' = EnCola(e) /\ Sacan(e)' = Sacan(e)
       /\ \A e \in Carpinchos \ {d} : Llevan(e)' = Llevan(e)
       /\ Llevan(d)' = {h}
  <2>1. ASSUME NEW e \in Carpinchos, NEW k \in Hilos
        PROVE  /\ hilo'[k].pc \in Sacando <=> hilo[k].pc \in Sacando
               /\ Lleva(k, e)' <=> Lleva(k, e) \/ (k = h /\ e = d)
    BY <1>4 DEF Lleva, Soltando, Volviendo, Sacando
  <2> QED BY <1>4, <1>9, <2>1 DEF Llevan, EnCola, Sacan
<1>12. SinRepetir'
  BY <1>6 DEF LInv, SinRepetir
<1>13. HilosPropios'
  <2> SUFFICES ASSUME NEW k \in Hilos
               PROVE  /\ hilo'[k].recurso \in Dispositivos => hilo'[k].objetivo = k[1]
                      /\ hilo'[k].pc \in PasosCierre => cliente'[k[1]].pc \in {"cierra", "fin"}
    BY DEF HilosPropios
  <2>1. k[1] \in Carpinchos
    BY DEF Hilos, HilosServidor, HilosDetector
  <2> QED BY <1>1, <1>4, <1>5, <2>1 DEF LInv, HilosPropios, PasosCierre
<1>14. UnSoloLugar(d)' /\ Espera(d)'
  BY <1>5, <1>8, <1>9, <1>10, <1>11 DEF UnSoloLugar, Espera
<1>15. ASSUME NEW e \in Carpinchos \ {d} PROVE UnSoloLugar(e)' /\ Espera(e)'
  <2>1. UnSoloLugar(e) /\ Espera(e) /\ \A k \in Llevan(e) : k \in Hilos
    BY DEF LInv, Llevan
  <2>2. UnSoloLugar(e)'
    BY <1>5, <1>11, <2>1 DEF UnSoloLugar
  <2>3. ASSUME NEW k \in Hilos, k \in Llevan(e) \/ hilo'[k].pc \in Soltando \cup {"bloquea_mueve"}
        PROVE  hilo'[k] = hilo[k]
    BY <1>4, <2>3 DEF Llevan, Lleva, Soltando, Volviendo
  <2>4. Espera(e)'
    <3>1. EnEspera(e)' # {} => cliente'[e].pc = "espera"
      BY <1>5, <1>10, <2>1 DEF Espera
    <3> QED BY <1>10, <1>11, <2>1, <2>3, <3>1 DEF Espera
  <2> QED BY <2>2, <2>4
<1>16. ASSUME NEW e \in Carpinchos, NEW i \in CPUs \cup {SinCPU}, Ocupa(e, i)' PROVE Ocupa(e, i)
  <2>1. \A k \in Hilos : hilo'[k].pc \in Soltando => hilo[k].pc \in Soltando
    BY <1>4 DEF Soltando
  <2> QED BY <1>11, <1>16, <2>1 DEF Ocupa
<1>17. LInv'
  BY <1>12, <1>13, <1>14, <1>15 DEF LInv
<1> QED BY <1>16, <1>17, OcupaIgual

\* A call keeps every carpincho at one place and every CPU with one carpincho.
LEMMA LlamadaLugar ==
    ASSUME IInv, EInv, LInv, CInv, NadieDespiertaAntes, NEW c \in Carpinchos, handler(c)
    PROVE  LInv' /\ CInv'
<1> USE ConstantesValidas DEF cpus, planificadores
<1>1. TypeOK /\ TipoCarpincho /\ TipoRecursos /\ SinRepetir
  BY DEF IInv, TypeOK, LInv
<1> DEFINE quieto == /\ UNCHANGED <<suspensor, corto, CPU_libres, hilo_CPU, cola>>
                     /\ \A d \in Carpinchos : carpincho'[d].CPU_en_uso = carpincho[d].CPU_en_uso
           mismos == \A s \in Semaforos :
                        /\ IsInjective(semaforo'[s].en_espera)
                        /\ Range(semaforo'[s].en_espera) \subseteq Range(semaforo[s].en_espera)
<1>2. UNCHANGED semaforo => mismos
  BY <1>1 DEF SinRepetir
<1>3. GuardaFd(c) => \A d \in Carpinchos : carpincho'[d].CPU_en_uso = carpincho[d].CPU_en_uso
  BY <1>1 DEF GuardaFd, TipoCarpincho
<1>4. CASE MateInit(c)
  BY <1>4, InitLugar
<1>5. CASE MateInitSinMemoria(c)
  <2>1. /\ LlamaYEspera(c, "espera", HiloLibre) /\ quieto /\ UNCHANGED semaforo
        /\ cliente[c].pc = "fuera" /\ cliente[c].llamada < MaxLlamadas
    BY <1>5 DEF MateInitSinMemoria, IInv, Auxiliar, HilosFuturosLibres, recursos, ConstantesValidas
  <2>2. /\ InicioValido(HiloLibre) /\ HiloLibre.pc \notin Soltando \cup Volviendo \cup PasosCierre
        /\ HiloLibre.recurso \notin Dispositivos
    BY DEF InicioValido, HiloLibre, PasosHilo, Soltando, Volviendo, PasosCierre, ConstantesValidas
  <2> QED BY <1>2, <2>1, <2>2, LlamaLugar
<1>6. CASE ReenviaAMemoria(c)
  <2>1. PICK inicio : inicio = [pc |-> "memoria", recurso |-> Nadie, objetivo |-> Nadie]
    OBVIOUS
  <2>2. /\ LlamaYEspera(c, "espera", inicio) /\ quieto /\ UNCHANGED semaforo
        /\ cliente[c].pc = "corre" /\ cliente[c].llamada < MaxLlamadas
    BY <1>3, <1>6, <2>1 DEF ReenviaAMemoria, PuedeLlamar, recursos
  <2>3. /\ InicioValido(inicio) /\ inicio.pc \notin Soltando \cup Volviendo \cup PasosCierre
        /\ inicio.recurso \notin Dispositivos
    BY <2>1 DEF InicioValido, PasosHilo, Soltando, Volviendo, PasosCierre, ConstantesValidas
  <2> QED BY <1>2, <2>2, <2>3, LlamaLugar
<1>7. CASE MateClose(c)
  <2>1. PICK inicio : inicio = InicioCierre(c)
    OBVIOUS
  <2>2. /\ LlamaYEspera(c, "cierra", inicio) /\ quieto /\ UNCHANGED semaforo
        /\ cliente[c].pc = "corre" /\ cliente[c].llamada < MaxLlamadas
    BY <1>3, <1>7, <2>1 DEF MateClose, PuedeLlamar, recursos
  <2>3. /\ InicioValido(inicio) /\ inicio.pc \notin Soltando \cup Volviendo
        /\ inicio.recurso \notin Dispositivos
    BY <2>1 DEF InicioValido, InicioCierre, PasosHilo, Soltando, Volviendo, PasosCierre,
       ConstantesValidas
  <2> QED BY <1>2, <2>2, <2>3, LlamaLugar
<1>8. ASSUME NEW d \in Dispositivos, MateCallIo(c, d) PROVE LInv' /\ CInv'
  <2>1. PICK inicio : inicio = [pc |-> "bloquea_mueve", recurso |-> d, objetivo |-> c]
    OBVIOUS
  <2>2. /\ LlamaYEspera(c, "espera", inicio) /\ quieto /\ UNCHANGED semaforo
        /\ cliente[c].pc = "corre" /\ cliente[c].llamada < MaxLlamadas
    BY <1>3, <1>8, <2>1 DEF MateCallIo, PuedeLlamar, recursos
  <2>3. /\ InicioValido(inicio) /\ inicio.pc \notin Soltando \cup Volviendo \cup PasosCierre
        /\ inicio.objetivo = c
    BY <2>1 DEF InicioValido, PasosHilo, Soltando, Volviendo, PasosCierre
  <2> QED BY <1>2, <2>2, <2>3, LlamaLugar
<1>9. ASSUME NEW s \in Semaforos, MateSemInit(c, s) \/ MateSemDestroy(c, s)
      PROVE  LInv' /\ CInv'
  <2>1. /\ LlamaYSigue(c) /\ quieto /\ cliente[c].pc = "corre" /\ cliente[c].llamada < MaxLlamadas
        /\ semaforo'[s].en_espera = << >> /\ \A t \in Semaforos \ {s} : semaforo'[t] = semaforo[t]
    BY <1>1, <1>9 DEF MateSemInit, MateSemDestroy, PuedeLlamar, Creado, Inexistente, TipoRecursos
  <2>2. Range(<< >>) = {} /\ IsInjective(<< >>)
    BY DEF Range, IsInjective
  <2>3. mismos
    BY <1>1, <2>1, <2>2 DEF SinRepetir
  <2> QED BY <2>1, <2>3, LlamaLugar
<1>10. ASSUME NEW s \in Semaforos, MateSemWait(c, s) PROVE LInv' /\ CInv'
  <2>1. CASE Bloquea(s)
    BY <1>10, <2>1, EsperaLugar
  <2>2. CASE ~Bloquea(s)
    <3>1. /\ LlamaYSigue(c) /\ quieto /\ cliente[c].pc = "corre" /\ cliente[c].llamada < MaxLlamadas
          /\ \A t \in Semaforos : semaforo'[t].en_espera = semaforo[t].en_espera
      BY <1>1, <1>3, <1>10, <2>2 DEF MateSemWait, PuedeLlamar, TipoRecursos
    <3>2. mismos
      BY <1>1, <3>1 DEF SinRepetir
    <3> QED BY <3>1, <3>2, LlamaLugar
  <2> QED BY <2>1, <2>2
<1>11. ASSUME NEW s \in Semaforos, MateSemPost(c, s) PROVE LInv' /\ CInv'
  <2> DEFINE en_espera == semaforo[s].en_espera
             despacha == en_espera # << >> /\ semaforo[s].valor + 1 > -1
             quedan == IF despacha THEN SinElMuerto(en_espera) ELSE en_espera
             despierta == despacha /\ quedan # << >> /\ carpincho[Head(quedan)].existe
  <2>1. PICK q : q = quedan
    OBVIOUS
  <2>2. /\ q \in Seq(Carpinchos) /\ IsInjective(q)
        /\ Range(q) \subseteq Range(semaforo[s].en_espera)
    <3>1. en_espera \in Seq(Carpinchos) /\ IsInjective(en_espera)
      BY <1>1 DEF TipoRecursos, SinRepetir
    <3>2. CASE despacha
      BY <2>1, <3>1, <3>2, QuedanEs
    <3>3. CASE ~despacha
      BY <2>1, <3>1, <3>3
    <3> QED BY <3>2, <3>3
  <2>3. /\ quieto /\ cliente[c].pc = "corre" /\ cliente[c].llamada < MaxLlamadas
        /\ "sem_post" \in Operaciones /\ UNCHANGED carpincho
        /\ semaforo'[s].en_espera = IF despierta THEN Tail(q) ELSE q
        /\ \A t \in Semaforos \ {s} : semaforo'[t] = semaforo[t]
        /\ IF despierta
           THEN LlamaYEspera(c, "espera", [pc |-> "despierta", recurso |-> s, objetivo |-> Head(q)])
           ELSE LlamaYSigue(c)
    BY <1>1, <1>11, <2>1 DEF MateSemPost, PuedeLlamar, TipoRecursos
  <2>4. CASE despierta
    <3>1. q # << >>
      BY <2>1, <2>4
    <3>2. GradoMultiprocesamiento <= 1
      BY <2>3 DEF NadieDespiertaAntes
    <3> HIDE DEF despierta
    <3> QED BY <2>2, <2>3, <2>4, <3>1, <3>2, DespiertaLugar
  <2>5. CASE ~despierta
    <3> HIDE DEF despierta
    <3>1. mismos
      BY <1>1, <2>2, <2>3, <2>5 DEF SinRepetir
    <3> QED BY <2>3, <2>5, <3>1, LlamaLugar
  <2> QED BY <2>4, <2>5
<1> QED BY <1>4, <1>5, <1>6, <1>7, <1>8, <1>9, <1>10, <1>11 DEF handler

-----------------------------------------------------------------------------
(* What follows of the CPUs.                                               *)

\* While nobody is suspended, a carpincho is at one place and a CPU has one carpincho.
THEOREM UnoPorCPU ==
    ASSUME NadieDespiertaAntes
    PROVE  Spec /\ []NadieSeSuspende => [](IInv /\ EInv /\ LInv /\ CInv)
<1>1. Init => LInv /\ CInv
  <2> SUFFICES ASSUME Init PROVE LInv /\ CInv
    OBVIOUS
  <2>1. Range(<< >>) = {} /\ IsInjective(<< >>)
    BY DEF Range, IsInjective
  <2>2. SinRepetir
    BY <2>1 DEF Init, SinRepetir, Colas, EnMarcha, Creado, Inexistente
  <2>3. HilosPropios
    BY ConstantesValidas DEF Init, HilosPropios, HiloLibre, PasosCierre, ConstantesValidas
  <2>4. \A c \in Carpinchos : EnCola(c) = {} /\ Llevan(c) = {} /\ EnEspera(c) = {}
    BY <2>1 DEF Init, EnCola, EnMarcha, Colas, Llevan, Lleva, HiloLibre, Soltando, Volviendo,
       EnEspera, Creado, Inexistente
  <2>5. LInv
    BY <2>2, <2>3, <2>4 DEF LInv, UnSoloLugar, Espera
  <2>6. \A c \in Carpinchos : \A i \in CPUs \cup {SinCPU} : ~Ocupa(c, i)
    BY <2>4 DEF Ocupa, Init, HiloLibre, Soltando
  <2>7. CInv
    BY <2>6 DEF CInv, CPUOcupada, LiberarUnaVez, Init
  <2> QED BY <2>5, <2>7
<1>2. IInv /\ EInv /\ LInv /\ CInv /\ NadieSeSuspende /\ [Next]_vars => LInv' /\ CInv'
  <2> SUFFICES ASSUME IInv, EInv, LInv, CInv, NadieSeSuspende, [Next]_vars PROVE LInv' /\ CInv'
    OBVIOUS
  <2>1. CASE entrantes_a_ready
    BY <2>1, LargoLugar
  <2>2. CASE ready_a_exec
    BY <2>2, CortoLugar
  <2>3. CASE suspender
    BY <2>3, SuspensorLugar DEF IInv
  <2>4. ASSUME NEW i \in CPUs, ejecuta(i) PROVE LInv' /\ CInv'
    BY <2>4, CPULugar
  <2>5. ASSUME NEW h \in Hilos, Atiende(h) PROVE LInv' /\ CInv'
    BY <2>5, AtiendeLugar
  <2>6. ASSUME NEW c \in Carpinchos, handler(c) PROVE LInv' /\ CInv'
    BY <2>6, LlamadaLugar
  <2>7. CASE UNCHANGED vars
    <3>1. Quieto
      BY <2>7 DEF vars, cpus, planificadores, recursos, llamadas, Quieto
    <3> QED BY <3>1, QuietoConserva
  <2> QED BY <2>1, <2>2, <2>3, <2>4, <2>5, <2>6, <2>7 DEF Next
<1> QED BY <1>1, <1>2, SiempreConLugar, PTL DEF Spec

\* While nobody is suspended, and where no post can wake a carpincho that has not left
\* exec, the CPU of a carpincho of exec is never in CPU_libres.
THEOREM CPULibreSinNadie ==
    ASSUME NadieDespiertaAntes
    PROVE  Spec /\ []NadieSeSuspende => []CPULibreSinOcupante
<1>1. IInv /\ CInv => CPULibreSinOcupante
  <2> SUFFICES ASSUME IInv, CInv, NEW c \in Range(cola["exec"])
               PROVE  carpincho[c].CPU_en_uso \notin Range(CPU_libres)
    BY DEF CPULibreSinOcupante
  <2>1. c \in Carpinchos /\ carpincho[c].CPU_en_uso \in CPUs \cup {SinCPU}
    <3>1. cola["exec"] \in Seq(Carpinchos) /\ TipoCarpincho
      BY DEF IInv, TypeOK, TipoCola, Colas
    <3>2. c \in Carpinchos
      BY <3>1 DEF Range
    <3> QED BY <3>1, <3>2 DEF TipoCarpincho
  <2>2. Ocupa(c, carpincho[c].CPU_en_uso)
    BY DEF Ocupa, EnCola, EnMarcha
  <2> QED BY <2>1, <2>2 DEF CInv, CPUOcupada
<1> QED BY <1>1, UnoPorCPU, PTL

-----------------------------------------------------------------------------
(* With a slot for every call nobody is suspended.                         *)

\* The threads that may still announce a carpincho to the long-term planner: those of
\* calls that have not ended or have not been made.
Pendientes == {h \in HilosServidor : hilo[h].pc # "libre" \/ h[2] > cliente[h[1]].llamada}

\* The slots cover what was announced and what may still be, and so one is always left:
\* the medium-term planner is never woken.
QuedaGrado ==
    sem["grado_multiprogramacion_libre"]
        >= GradoMultiprogramacion - Cardinality(HilosServidor)
           + Cardinality(Pendientes) + sem["hay_estructura_creada"]
           + Uno(largo.pc = "espera_grado")
SuspensorDuerme == suspensor.pc = "espera" /\ sem["procesamiento_lleno"] = 0
DetectorQuieto == \A h \in HilosDetector : hilo[h].pc = "libre"
GInv == QuedaGrado /\ SuspensorDuerme /\ DetectorQuieto

LEMMA PendientesBajan ==
    ASSUME Pendientes' \subseteq Pendientes
    PROVE  /\ Cardinality(Pendientes) \in Nat /\ Cardinality(Pendientes') \in Nat
           /\ Cardinality(Pendientes') + Uno(Pendientes' # Pendientes)
                <= Cardinality(Pendientes)
<1>1. IsFiniteSet(Pendientes)
  <2>1. Pendientes \subseteq Hilos
    BY DEF Pendientes, Hilos
  <2> QED BY <2>1, HilosFinitos, FS_Subset
<1> DEFINE A == Pendientes
           B == Pendientes'
<1>2. B \in SUBSET A /\ IsFiniteSet(A)
  BY <1>1
<1> HIDE DEF A, B
<1>3. /\ IsFiniteSet(B) /\ Cardinality(B) <= Cardinality(A)
      /\ Cardinality(A) = Cardinality(B) => A = B
  BY <1>2, FS_Subset
<1>4. Cardinality(A) \in Nat /\ Cardinality(B) \in Nat
  BY <1>2, <1>3, FS_CardinalityType
<1>5. Cardinality(B) + Uno(B # A) <= Cardinality(A)
  BY <1>3, <1>4 DEF Uno
<1> QED BY <1>4, <1>5 DEF A, B

\* A step whose post to the long-term planner, if any, is the last of its thread.
LEMMA SigueQuedando ==
    ASSUME TipoSem, TipoSem', GInv,
           Pendientes' \subseteq Pendientes,
           sem'["grado_multiprogramacion_libre"] >= sem["grado_multiprogramacion_libre"],
           sem'["hay_estructura_creada"]
             <= sem["hay_estructura_creada"] + Uno(Pendientes' # Pendientes),
           largo' = largo, suspensor' = suspensor,
           sem'["procesamiento_lleno"] = sem["procesamiento_lleno"],
           \A h \in HilosDetector : hilo'[h] = hilo[h]
    PROVE  GInv'
<1>1. /\ Cardinality(Pendientes) \in Nat /\ Cardinality(Pendientes') \in Nat
      /\ Cardinality(Pendientes') + Uno(Pendientes' # Pendientes) <= Cardinality(Pendientes)
  BY PendientesBajan
<1>2. Cardinality(HilosServidor) \in Nat /\ GradoMultiprogramacion \in Nat
  BY HilosFinitos, FS_Subset, FS_CardinalityType, ConstantesValidas
     DEF Hilos, ConstantesValidas
<1>3. /\ sem["grado_multiprogramacion_libre"] \in Nat /\ sem["hay_estructura_creada"] \in Nat
      /\ sem'["grado_multiprogramacion_libre"] \in Nat /\ sem'["hay_estructura_creada"] \in Nat
  BY DEF TipoSem, Contadores
<1>4. Uno(largo.pc = "espera_grado")' = Uno(largo.pc = "espera_grado")
      /\ Uno(largo.pc = "espera_grado") \in Nat /\ Uno(Pendientes' # Pendientes) \in Nat
  BY DEF Uno
<1> DEFINE u == Uno(largo.pc = "espera_grado")
           v == Uno(Pendientes' # Pendientes)
           p == Cardinality(Pendientes)
           r == Cardinality(Pendientes')
           n == Cardinality(HilosServidor)
<1>5. QuedaGrado'
  <2>1. sem["grado_multiprogramacion_libre"]
          >= GradoMultiprogramacion - n + p + sem["hay_estructura_creada"] + u
    BY DEF GInv, QuedaGrado
  <2>2. u \in Nat /\ v \in Nat /\ p \in Nat /\ r \in Nat /\ n \in Nat /\ r + v <= p
    BY <1>1, <1>2, <1>4
  <2> HIDE DEF u, v, p, r, n
  <2>3. sem'["hay_estructura_creada"] <= sem["hay_estructura_creada"] + v
    BY DEF v
  <2>4. sem'["grado_multiprogramacion_libre"]
          >= GradoMultiprogramacion - n + r + sem'["hay_estructura_creada"] + u
    BY <1>2, <1>3, <2>1, <2>2, <2>3
  <2> QED BY <1>4, <2>4 DEF QuedaGrado, u, r, n
<1> QED BY <1>5 DEF GInv, SuspensorDuerme, DetectorQuieto

\* Steps of the planners and of the CPU threads.
LEMMA LargoQueda ==
    ASSUME IInv, IInv', GInv, entrantes_a_ready PROVE GInv'
<1> USE DEF cpus, recursos, llamadas
<1>1. TipoSem /\ TipoSem' /\ hilo' = hilo /\ cliente' = cliente /\ suspensor' = suspensor
  BY DEF IInv, TypeOK, entrantes_a_ready, LargoEsperaEstructura, LargoEsperaGrado, LargoMira,
     LargoDeSuspendedReady, LargoDeNew, LargoAdmite, LargoPublica
<1>2. Pendientes' = Pendientes
  BY <1>1 DEF Pendientes
<1>3. Cardinality(Pendientes) \in Nat
  BY <1>2, PendientesBajan
<1>4. Cardinality(HilosServidor) \in Nat /\ GradoMultiprogramacion \in Nat
  BY HilosFinitos, FS_Subset, FS_CardinalityType, ConstantesValidas
     DEF Hilos, ConstantesValidas
<1>5. QuedaGrado'
  <2>1. CASE LargoEsperaEstructura
    BY <1>1, <1>2, <1>3, <1>4, <2>1
       DEF LargoEsperaEstructura, SemWait, GInv, QuedaGrado, TipoSem, Contadores, Uno, IInv,
           TypeOK, TipoPlanificadores
  <2>2. CASE LargoEsperaGrado
    BY <1>1, <1>2, <1>3, <1>4, <2>2
       DEF LargoEsperaGrado, SemWait, GInv, QuedaGrado, TipoSem, Contadores, Uno, IInv,
           TypeOK, TipoPlanificadores
  <2>3. CASE LargoMira
    BY <1>1, <1>2, <2>3
       DEF LargoMira, GInv, QuedaGrado, Uno, IInv, TypeOK, TipoPlanificadores
  <2>4. CASE LargoDeSuspendedReady
    BY <1>1, <1>2, <2>4 DEF LargoDeSuspendedReady, LargoAdmite, GInv, QuedaGrado, Uno
  <2>5. CASE LargoDeNew
    BY <1>1, <1>2, <2>5 DEF LargoDeNew, LargoAdmite, GInv, QuedaGrado, Uno
  <2>6. CASE LargoPublica
    BY <1>1, <1>2, <2>6
       DEF LargoPublica, SemPost, GInv, QuedaGrado, TipoSem, Contadores, Uno
  <2> QED BY <2>1, <2>2, <2>3, <2>4, <2>5, <2>6 DEF entrantes_a_ready
<1>6. sem'["procesamiento_lleno"] = sem["procesamiento_lleno"]
  BY <1>1 DEF entrantes_a_ready, LargoEsperaEstructura, LargoEsperaGrado, LargoMira,
     LargoDeSuspendedReady, LargoDeNew, LargoAdmite, LargoPublica, SemWait, SemPost, TipoSem,
     Contadores
<1> QED BY <1>1, <1>5, <1>6 DEF GInv, SuspensorDuerme, DetectorQuieto

LEMMA CortoQueda ==
    ASSUME IInv, IInv', GInv, GradoMultiprogramacion > Cardinality(HilosServidor),
           ready_a_exec
    PROVE  GInv'
<1> USE DEF cpus, recursos, llamadas
<1>1. /\ TipoSem /\ TipoSem' /\ TipoCliente
      /\ hilo' = hilo /\ largo' = largo /\ suspensor' = suspensor
  BY DEF IInv, TypeOK, ready_a_exec, CortoEsperaReady, CortoEsperaCPU, CortoMueve, CortoEstado,
     CortoResponde, CortoElige
<1>2. \A c \in Carpinchos : cliente'[c].llamada = cliente[c].llamada
  BY <1>1 DEF ready_a_exec, CortoEsperaReady, CortoEsperaCPU, CortoMueve, CortoEstado,
     CortoResponde, CortoElige, Contesta, TipoCliente
<1>3. Pendientes' = Pendientes
  BY <1>1, <1>2 DEF Pendientes, HilosServidor
<1>4. sem["grado_multiprogramacion_libre"] # 0
  <2>1. Cardinality(Pendientes) \in Nat
    BY <1>3, PendientesBajan
  <2>2. Cardinality(HilosServidor) \in Nat /\ GradoMultiprogramacion \in Nat
    BY HilosFinitos, FS_Subset, FS_CardinalityType, ConstantesValidas
       DEF Hilos, ConstantesValidas
  <2> QED BY <1>1, <2>1, <2>2 DEF GInv, QuedaGrado, TipoSem, Contadores, Uno
<1>5. \A s \in Contadores \ {"cola_ready_con_elementos", "grado_multiprocesamiento_libre"} :
          sem'[s] = sem[s]
  BY <1>1, <1>4 DEF ready_a_exec, CortoEsperaReady, CortoEsperaCPU, CortoMueve, CortoEstado,
     CortoResponde, CortoElige, SemWait, TipoSem
<1>6. Uno(Pendientes' # Pendientes) = 0
  BY <1>3 DEF Uno
<1>7. /\ sem'["grado_multiprogramacion_libre"] = sem["grado_multiprogramacion_libre"]
      /\ sem'["hay_estructura_creada"] = sem["hay_estructura_creada"]
      /\ sem'["procesamiento_lleno"] = sem["procesamiento_lleno"]
      /\ sem["grado_multiprogramacion_libre"] \in Nat /\ sem["hay_estructura_creada"] \in Nat
  BY <1>1, <1>5 DEF Contadores, TipoSem
<1> QED BY <1>1, <1>3, <1>6, <1>7, SigueQuedando

LEMMA CPUQueda ==
    ASSUME IInv, IInv', GInv, NEW i \in CPUs, ejecuta(i) PROVE GInv'
<1>1. /\ TipoSem /\ TipoSem' /\ hilo' = hilo /\ cliente' = cliente
      /\ largo' = largo /\ suspensor' = suspensor
  BY DEF IInv, TypeOK, ejecuta, CPUToma, CPUOcupa, CPULibera, CPUAnuncia, planificadores,
     recursos, llamadas
<1>2. Pendientes' = Pendientes /\ Uno(Pendientes' # Pendientes) = 0
  BY <1>1 DEF Pendientes, Uno
<1>3. /\ sem'["grado_multiprogramacion_libre"] = sem["grado_multiprogramacion_libre"]
      /\ sem'["hay_estructura_creada"] = sem["hay_estructura_creada"]
      /\ sem'["procesamiento_lleno"] = sem["procesamiento_lleno"]
      /\ sem["grado_multiprogramacion_libre"] \in Nat /\ sem["hay_estructura_creada"] \in Nat
  BY <1>1 DEF ejecuta, CPUToma, CPUOcupa, CPULibera, CPUAnuncia, SemPost, TipoSem, Contadores
<1> QED BY <1>1, <1>2, <1>3, SigueQuedando

\* A step of a thread: what it posts to the long-term planner is its last act.
LEMMA HiloQueda ==
    ASSUME IInv, IInv', GInv, NEW h \in Hilos, Atiende(h) PROVE GInv'
<1>1. hilo[h].pc # "libre" /\ h \in HilosServidor
  <2>1. hilo[h].pc # "libre"
    BY DEF Atiende, MateInitPublica, exec_a_block, BloqueaMueve, BloqueaEstado, BloqueaLibera,
       despertar, Despierta, ReadyMueve, ReadyPublica, SuspendedMueve, SuspendedPublica,
       Publica, mate_call_io, IoToma, IoDevuelve, MemoriaContesta, mate_close, CierraExec,
       CierraBlocked, CierraSuspended, Cierra, CierraGrado
  <2> QED BY <2>1 DEF GInv, DetectorQuieto, Hilos
<1>2. TipoSem /\ TipoSem' /\ TipoHilo /\ TipoCliente /\ HilosFuturosLibres
  BY DEF IInv, TypeOK, Auxiliar
<1>3. /\ \A k \in Hilos \ {h} : hilo'[k] = hilo[k]
      /\ \A c \in Carpinchos : cliente'[c].llamada = cliente[c].llamada
      /\ largo' = largo /\ suspensor' = suspensor
      /\ sem'["grado_multiprogramacion_libre"] >= sem["grado_multiprogramacion_libre"]
      /\ sem'["procesamiento_lleno"] = sem["procesamiento_lleno"]
      /\ \/ sem'["hay_estructura_creada"] = sem["hay_estructura_creada"]
         \/ /\ sem'["hay_estructura_creada"] = sem["hay_estructura_creada"] + 1
            /\ hilo'[h].pc = "libre"
  <2> USE <1>2 DEF planificadores, Sigue, Termina, HiloLibre, TipoHilo, TipoSem, Contadores
  <2>1. CASE MateInitPublica(h)
    BY <2>1 DEF MateInitPublica, SemPost
  <2>2. CASE exec_a_block(h)
    BY <2>2 DEF exec_a_block, BloqueaMueve, BloqueaEstado, BloqueaLibera
  <2>3. CASE Despierta(h) \/ ReadyMueve(h) \/ SuspendedMueve(h)
    BY <2>3 DEF Despierta, ReadyMueve, SuspendedMueve
  <2>4. CASE ReadyPublica(h) \/ SuspendedPublica(h)
    BY <2>4 DEF ReadyPublica, SuspendedPublica, Publica, SemPost, Contesta, TipoCliente
  <2>5. CASE mate_call_io(h)
    BY <2>5 DEF mate_call_io, IoToma, IoDevuelve
  <2>6. CASE MemoriaContesta(h)
    BY <2>6 DEF MemoriaContesta, Contesta, TipoCliente
  <2>7. CASE mate_close(h)
    BY <2>7 DEF mate_close, CierraExec, CierraBlocked, CierraSuspended, Cierra, CierraGrado,
       SemPost, TipoCliente
  <2> QED BY <2>1, <2>2, <2>3, <2>4, <2>5, <2>6, <2>7 DEF Atiende, despertar
<1>4. Pendientes' \subseteq Pendientes
  BY <1>1, <1>3 DEF Pendientes, HilosServidor, Hilos
<1>5. sem'["hay_estructura_creada"]
        <= sem["hay_estructura_creada"] + Uno(Pendientes' # Pendientes)
  <2>1. sem["hay_estructura_creada"] \in Nat /\ sem'["hay_estructura_creada"] \in Nat
    BY <1>2 DEF TipoSem, Contadores
  <2>2. CASE sem'["hay_estructura_creada"] = sem["hay_estructura_creada"]
    BY <2>1, <2>2 DEF Uno
  <2>3. CASE /\ sem'["hay_estructura_creada"] = sem["hay_estructura_creada"] + 1
             /\ hilo'[h].pc = "libre"
    <3>1. h \in Pendientes
      BY <1>1 DEF Pendientes
    <3>2. PICK c \in Carpinchos, k \in 1 .. MaxLlamadas : h = <<c, k>>
      BY <1>1 DEF HilosServidor
    <3>3. k <= cliente[c].llamada
      <4>1. cliente[c].llamada \in Nat /\ k \in Nat
        BY <1>2, <3>2, ConstantesValidas DEF TipoCliente, ConstantesValidas
      <4> QED BY <1>1, <1>2, <3>2, <4>1 DEF HilosFuturosLibres
    <3>4. h \notin Pendientes'
      <4>1. cliente'[c].llamada = cliente[c].llamada /\ cliente[c].llamada \in Nat /\ k \in Nat
        BY <1>2, <1>3, <3>2, ConstantesValidas DEF TipoCliente, ConstantesValidas
      <4> QED BY <2>3, <3>2, <3>3, <4>1 DEF Pendientes
    <3> QED BY <2>1, <2>3, <3>1, <3>4 DEF Uno
  <2> QED BY <1>3, <2>2, <2>3
<1>6. \A k \in HilosDetector : hilo'[k] = hilo[k]
  BY <1>1, <1>3 DEF HilosDetector, HilosServidor, Hilos
<1> QED BY <1>2, <1>3, <1>4, <1>5, <1>6, SigueQuedando

\* A call uses a thread that had not started.
LEMMA LlamadaQueda ==
    ASSUME IInv, IInv', GInv, NEW c \in Carpinchos, handler(c) PROVE GInv'
<1> DEFINE k == cliente[c].llamada + 1
           Usa == /\ \A h \in Hilos \ {<<c, k>>} : hilo'[h] = hilo[h]
                  /\ cliente'[c].llamada = k
                  /\ \A d \in Carpinchos \ {c} : cliente'[d] = cliente[d]
                  /\ k \in 1 .. MaxLlamadas
<1>1. TipoSem /\ TipoSem' /\ TipoHilo /\ TipoCliente /\ HilosFuturosLibres
  BY DEF IInv, TypeOK, Auxiliar
<1>2. Usa
  <2> USE <1>1 DEF LlamaYEspera, LlamaYSigue, PuedeLlamar, TipoCliente, TipoHilo
  <2>1. CASE MateInit(c) \/ MateInitSinMemoria(c)
    <3>1. cliente[c].llamada = 0 /\ MaxLlamadas > 0 /\ MaxLlamadas \in Nat
      BY <2>1, ConstantesValidas
         DEF MateInit, MateInitSinMemoria, HilosFuturosLibres, ConstantesValidas
    <3> QED BY <2>1, <3>1 DEF MateInit, MateInitSinMemoria
  <2>2. CASE ReenviaAMemoria(c) \/ MateClose(c)
    BY <2>2, ConstantesValidas DEF ReenviaAMemoria, MateClose, ConstantesValidas
  <2>3. ASSUME NEW s \in Semaforos, MateSemInit(c, s) \/ MateSemDestroy(c, s) PROVE Usa
    BY <2>3, ConstantesValidas DEF MateSemInit, MateSemDestroy, ConstantesValidas
  <2>4. ASSUME NEW s \in Semaforos, MateSemWait(c, s) PROVE Usa
    BY <2>4, ConstantesValidas DEF MateSemWait, ConstantesValidas
  <2>5. ASSUME NEW s \in Semaforos, MateSemPost(c, s) PROVE Usa
    BY <2>5, ConstantesValidas DEF MateSemPost, ConstantesValidas
  <2>6. ASSUME NEW d \in Dispositivos, MateCallIo(c, d) PROVE Usa
    BY <2>6, ConstantesValidas DEF MateCallIo, ConstantesValidas
  <2> QED BY <2>1, <2>2, <2>3, <2>4, <2>5, <2>6 DEF handler
<1>3. largo' = largo /\ suspensor' = suspensor /\ sem' = sem
  BY DEF handler, MateInit, MateInitSinMemoria, ReenviaAMemoria, MateClose, MateSemInit,
     MateSemWait, MateSemPost, MateSemDestroy, MateCallIo, planificadores
<1>4. Pendientes' \subseteq Pendientes
  <2> SUFFICES ASSUME NEW h \in Pendientes' PROVE h \in Pendientes
    OBVIOUS
  <2>1. h \in HilosServidor /\ (hilo'[h].pc # "libre" \/ h[2] > cliente'[h[1]].llamada)
    BY DEF Pendientes
  <2>2. PICK d \in Carpinchos, j \in 1 .. MaxLlamadas : h = <<d, j>>
    BY <2>1 DEF HilosServidor
  <2>3. j \in Int /\ cliente[d].llamada \in Nat /\ cliente[c].llamada \in Nat
    BY <1>1, <2>2, ConstantesValidas DEF TipoCliente, ConstantesValidas
  <2>4. CASE h = <<c, k>>
    BY <2>1, <2>2, <2>3, <2>4 DEF Pendientes
  <2>5. CASE h # <<c, k>>
    <3>1. hilo'[h] = hilo[h]
      BY <1>2, <2>1, <2>5 DEF Hilos
    <3>2. cliente'[d].llamada >= cliente[d].llamada
      BY <1>2, <2>3
    <3>3. hilo[h].pc # "libre" \/ j > cliente[d].llamada
      <4>1. cliente'[d].llamada \in Int
        BY <1>2, <2>3
      <4> QED BY <2>1, <2>2, <2>3, <3>1, <3>2, <4>1
    <3> QED BY <2>1, <2>2, <3>3 DEF Pendientes
  <2> QED BY <2>4, <2>5
<1>5. \A h \in HilosDetector : hilo'[h] = hilo[h]
  <2>1. <<c, k>> \notin HilosDetector
    BY <1>2, ConstantesValidas DEF HilosDetector, ConstantesValidas
  <2> QED BY <1>2, <2>1 DEF Hilos
<1>6. sem["hay_estructura_creada"] \in Nat /\ sem["grado_multiprogramacion_libre"] \in Nat
      /\ Uno(Pendientes' # Pendientes) \in Nat
  BY <1>1 DEF TipoSem, Contadores, Uno
<1> QED BY <1>1, <1>3, <1>4, <1>5, <1>6, SigueQuedando

\* Where there are more slots than calls the carpinchos can make, the medium-term planner
\* never runs: each call announces a carpincho once at most, so a slot is always left.
THEOREM NuncaSeSuspende ==
    ASSUME GradoMultiprogramacion > Cardinality(HilosServidor)
    PROVE  Spec => []NadieSeSuspende
<1>1. Init => GInv
  <2> SUFFICES ASSUME Init PROVE GInv
    OBVIOUS
  <2>1. \A h \in HilosServidor : h[2] > cliente[h[1]].llamada
    BY ConstantesValidas DEF Init, HilosServidor, ConstantesValidas
  <2>2. Pendientes = HilosServidor
    BY <2>1 DEF Pendientes
  <2>3. Cardinality(HilosServidor) \in Nat /\ GradoMultiprogramacion \in Nat
    BY HilosFinitos, FS_Subset, FS_CardinalityType, ConstantesValidas
       DEF Hilos, ConstantesValidas
  <2>4. QuedaGrado
    BY <2>2, <2>3 DEF Init, QuedaGrado, Contadores, Uno
  <2> QED BY <2>4 DEF Init, GInv, SuspensorDuerme, DetectorQuieto, Contadores, Hilos, HiloLibre
<1>2. IInv /\ IInv' /\ GInv /\ [Next]_vars => GInv'
  <2> SUFFICES ASSUME IInv, IInv', GInv, [Next]_vars PROVE GInv'
    OBVIOUS
  <2>1. CASE entrantes_a_ready
    BY <2>1, LargoQueda
  <2>2. CASE ready_a_exec
    BY <2>2, CortoQueda
  <2>3. CASE suspender
    BY <2>3 DEF suspender, SuspensorEspera, SuspensorLeeEntrantes, SuspensorLeeReady,
       SuspensorLeeBlocked, SuspensorLee, SuspensorMueve, SuspensorEstado, SuspensorLibera,
       SuspensorDevuelve, SemWait, GInv, SuspensorDuerme
  <2>4. ASSUME NEW i \in CPUs, ejecuta(i) PROVE GInv'
    BY <2>4, CPUQueda
  <2>5. ASSUME NEW h \in Hilos, Atiende(h) PROVE GInv'
    BY <2>5, HiloQueda
  <2>6. ASSUME NEW c \in Carpinchos, handler(c) PROVE GInv'
    BY <2>6, LlamadaQueda
  <2>7. CASE UNCHANGED vars
    BY <2>7 DEF vars, cpus, planificadores, recursos, llamadas, GInv, QuedaGrado, Pendientes,
       SuspensorDuerme, DetectorQuieto
  <2> QED BY <2>1, <2>2, <2>3, <2>4, <2>5, <2>6, <2>7 DEF Next
<1>3. GInv => NadieSeSuspende
  BY DEF GInv, SuspensorDuerme, NadieSeSuspende
<1> QED BY <1>1, <1>2, <1>3, Invariante, PTL DEF Spec

\* The same for an instance that has the slots, whatever the carpinchos call.
THEOREM CPULibreConGrado ==
    ASSUME NadieDespiertaAntes, GradoMultiprogramacion > Cardinality(HilosServidor)
    PROVE  Spec => []CPULibreSinOcupante
BY NuncaSeSuspende, CPULibreSinNadie, PTL

-----------------------------------------------------------------------------
(* Each CPU is accounted for.                                              *)

\* The permits posted to liberar_CPU and not taken yet: the k-th of the CPU i is <<i, k>>.
PorLiberar == {p \in CPUs \X Nat : p[2] < hilo_CPU[p[1]].liberar}

\* The carpinchos of exec, the one on its way there, the threads that will post
\* liberar_CPU, what they posted and the free CPUs are no more than the CPUs.
Repartidas ==
    Len(cola["exec"]) + Uno(corto.pc = "mueve") + Cardinality(HilosEn(Soltando))
        + Cardinality(PorLiberar) + Len(CPU_libres)
XInv == IsFiniteSet(PorLiberar) /\ Repartidas <= GradoMultiprocesamiento

\* liberar_CPU of one CPU is posted.
LEMMA LiberarSube ==
    ASSUME TipoCPU, IsFiniteSet(PorLiberar), NEW i, PostLiberar(i)
    PROVE  /\ IsFiniteSet(PorLiberar') /\ Cardinality(PorLiberar) \in Nat
           /\ Cardinality(PorLiberar') \in Nat
           /\ Cardinality(PorLiberar') <= Cardinality(PorLiberar) + 1
<1> DEFINE A == PorLiberar
           B == PorLiberar'
<1>1. PICK x : B \subseteq A \cup {x}
  <2>1. CASE i \in CPUs
    <3>1. /\ hilo_CPU[i].liberar \in Nat /\ hilo_CPU'[i].liberar = hilo_CPU[i].liberar + 1
          /\ \A j \in CPUs \ {i} : hilo_CPU'[j] = hilo_CPU[j]
      BY <2>1 DEF PostLiberar, TipoCPU
    <3>2. B \subseteq A \cup {<<i, hilo_CPU[i].liberar>>}
      <4> SUFFICES ASSUME NEW j \in CPUs, NEW k \in Nat, k < hilo_CPU'[j].liberar,
                          <<j, k>> # <<i, hilo_CPU[i].liberar>>
                   PROVE  <<j, k>> \in A
        BY DEF PorLiberar
      <4>1. k < hilo_CPU[j].liberar
        BY <3>1
      <4> QED BY <4>1 DEF PorLiberar
    <3> QED BY <3>2
  <2>2. CASE i \notin CPUs
    <3>1. hilo_CPU' = hilo_CPU
      BY <2>2 DEF PostLiberar, TipoCPU
    <3>2. B \subseteq A \cup {i}
      BY <3>1 DEF PorLiberar
    <3> QED BY <3>2
  <2> QED BY <2>1, <2>2
<1> HIDE DEF A, B
<1>2. IsFiniteSet(A) /\ Cardinality(A) \in Nat
  BY FS_CardinalityType DEF A
<1>3. /\ IsFiniteSet(A \cup {x}) /\ Cardinality(A \cup {x}) \in Nat
      /\ Cardinality(A \cup {x}) <= Cardinality(A) + 1
  <2>1. IsFiniteSet(A \cup {x})
        /\ Cardinality(A \cup {x}) = IF x \in A THEN Cardinality(A) ELSE Cardinality(A) + 1
    BY <1>2, FS_AddElement, Zenon
  <2> QED BY <1>2, <2>1
<1>4. /\ IsFiniteSet(B) /\ Cardinality(B) \in Nat
      /\ Cardinality(B) <= Cardinality(A \cup {x})
  BY <1>1, <1>3, FS_Subset, FS_CardinalityType
<1> QED BY <1>2, <1>3, <1>4 DEF A, B

\* The CPU i takes one permit.
LEMMA LiberarBaja ==
    ASSUME TipoCPU, IsFiniteSet(PorLiberar), NEW i \in CPUs,
           hilo_CPU[i].liberar > 0, hilo_CPU'[i].liberar = hilo_CPU[i].liberar - 1,
           \A j \in CPUs \ {i} : hilo_CPU'[j].liberar = hilo_CPU[j].liberar
    PROVE  /\ IsFiniteSet(PorLiberar') /\ Cardinality(PorLiberar) \in Nat
           /\ Cardinality(PorLiberar') = Cardinality(PorLiberar) - 1
<1> DEFINE n == hilo_CPU[i].liberar - 1
           x == <<i, n>>
           A == PorLiberar
           B == PorLiberar'
<1>1. n \in Nat /\ hilo_CPU[i].liberar = n + 1
  BY DEF TipoCPU
<1>2. x \in A
  BY <1>1 DEF PorLiberar
<1>3. B = A \ {x}
  <2>1. ASSUME NEW j \in CPUs, NEW k \in Nat
        PROVE  <<j, k>> \in B <=> <<j, k>> \in A \ {x}
    <3>1. CASE j = i
      <4>1. k < n <=> (k < n + 1 /\ k # n)
        BY <1>1
      <4> QED BY <1>1, <3>1, <4>1 DEF PorLiberar
    <3>2. CASE j # i
      BY <3>2 DEF PorLiberar
    <3> QED BY <3>1, <3>2
  <2> QED BY <2>1 DEF PorLiberar
<1> HIDE DEF A, B, x
<1>4. IsFiniteSet(A) /\ Cardinality(A) \in Nat
  BY FS_CardinalityType DEF A
<1>5. IsFiniteSet(A \ {x}) /\ Cardinality(A \ {x}) = Cardinality(A) - 1
  BY <1>2, <1>4, FS_RemoveElement
<1> QED BY <1>3, <1>4, <1>5 DEF A, B

\* The terms of the account.
LEMMA TerminosRepartidos ==
    ASSUME TypeOK, IsFiniteSet(PorLiberar)
    PROVE  /\ Len(cola["exec"]) \in Nat /\ Len(CPU_libres) \in Nat
           /\ Uno(corto.pc = "mueve") \in Nat
           /\ Cardinality(HilosEn(Soltando)) \in Nat /\ Cardinality(PorLiberar) \in Nat
<1>1. cola["exec"] \in Seq(Carpinchos) /\ CPU_libres \in Seq(CPUs)
  BY DEF TypeOK, TipoCola, Colas, TipoCPU
<1>2. HilosEn(Soltando) \in SUBSET Hilos
  BY DEF HilosEn
<1> QED BY <1>1, <1>2, HilosFinitos, FS_Subset, FS_CardinalityType DEF Uno

\* A carpincho leaves exec and the account of who frees its CPU grows by one.
LEMMA SumaBaja ==
    ASSUME NEW a \in Nat, NEW b \in Nat, NEW c \in Nat, NEW d \in Nat, NEW e \in Nat,
           NEW p, NEW q, NEW r, NEW s, NEW t,
           p = a - 1, q = b, t = e,
           (r = c + 1 /\ s = d) \/ (r = c /\ s \in Nat /\ s <= d + 1)
    PROVE  p + q + r + s + t <= a + b + c + d + e
OBVIOUS

\* What one term of the account gains another one loses.
LEMMA SigueRepartida ==
    ASSUME TypeOK, TypeOK', XInv, IsFiniteSet(PorLiberar'), Repartidas' <= Repartidas
    PROVE  XInv'
<1>1. Repartidas \in Nat
  BY TerminosRepartidos DEF XInv, Repartidas
<1>2. Repartidas' \in Nat
  <2>1. /\ Len(cola'["exec"]) \in Nat /\ Len(CPU_libres') \in Nat
        /\ Uno(corto'.pc = "mueve") \in Nat
    <3>1. cola'["exec"] \in Seq(Carpinchos) /\ CPU_libres' \in Seq(CPUs)
      BY DEF TypeOK, TipoCola, Colas, TipoCPU
    <3> QED BY <3>1 DEF Uno
  <2>2. Cardinality(HilosEn(Soltando)') \in Nat /\ Cardinality(PorLiberar') \in Nat
    <3>1. HilosEn(Soltando)' \in SUBSET Hilos
      BY DEF HilosEn
    <3> QED BY <3>1, HilosFinitos, FS_Subset, FS_CardinalityType
  <2> QED BY <2>1, <2>2 DEF Repartidas
<1>3. GradoMultiprocesamiento \in Nat
  BY ConstantesValidas DEF ConstantesValidas
<1> QED BY <1>1, <1>2, <1>3 DEF XInv

\* A step that leaves exec, the CPUs and the threads that will free one.
LEMMA QuietaRepartida ==
    ASSUME XInv, cola'["exec"] = cola["exec"], CPU_libres' = CPU_libres,
           corto'.pc = "mueve" <=> corto.pc = "mueve",
           HilosEn(Soltando)' = HilosEn(Soltando),
           \A i \in CPUs : hilo_CPU'[i].liberar = hilo_CPU[i].liberar
    PROVE  XInv'
<1>1. PorLiberar' = PorLiberar
  BY DEF PorLiberar
<1>2. Uno(corto'.pc = "mueve") = Uno(corto.pc = "mueve")
  BY DEF Uno
<1> QED BY <1>1, <1>2 DEF XInv, Repartidas

LEMMA LargoRepartida ==
    ASSUME TypeOK, XInv, entrantes_a_ready PROVE XInv'
<1> USE DEF cpus, recursos, llamadas
<1>1. /\ CPU_libres' = CPU_libres /\ corto' = corto /\ hilo' = hilo /\ hilo_CPU' = hilo_CPU
      /\ cola'["exec"] = cola["exec"]
  BY DEF entrantes_a_ready, LargoEsperaEstructura, LargoEsperaGrado, LargoMira,
     LargoDeSuspendedReady, LargoDeNew, LargoAdmite, AdmiteDe, LargoPublica, TypeOK, TipoCola,
     Colas
<1> QED BY <1>1, QuietaRepartida DEF HilosEn

LEMMA CortoRepartida ==
    ASSUME IInv, TypeOK', XInv, ready_a_exec PROVE XInv'
<1> USE DEF cpus, recursos, llamadas
<1>1. TypeOK /\ TypeOK' /\ IsFiniteSet(PorLiberar)
  BY DEF IInv, XInv
<1>2. CASE CortoEsperaReady \/ CortoEsperaCPU \/ CortoEstado \/ CortoResponde
  <2>1. /\ CPU_libres' = CPU_libres /\ hilo' = hilo /\ hilo_CPU' = hilo_CPU /\ cola' = cola
        /\ corto.pc # "mueve" /\ corto'.pc # "mueve"
    BY <1>1, <1>2 DEF CortoEsperaReady, CortoEsperaCPU, CortoEstado, CortoResponde, TypeOK,
       TipoPlanificadores
  <2> QED BY <2>1, QuietaRepartida DEF HilosEn
<1>3. CASE \E c \in Carpinchos : CortoElige(c)
  <2>1. /\ cola' = cola /\ hilo' = hilo /\ corto.pc = "elige" /\ corto'.pc = "mueve"
        /\ CPU_libres' = Tail(CPU_libres)
        /\ \A i \in CPUs : hilo_CPU'[i].liberar = hilo_CPU[i].liberar
    BY <1>1, <1>3 DEF CortoElige, AsignarHiloCPU, TypeOK, TipoCPU
  <2>2. Len(CPU_libres') = Len(CPU_libres) - 1 /\ Len(CPU_libres) \in Nat
    <3>1. CPU_libres \in Seq(CPUs) /\ CPU_libres # << >>
      BY <1>1, <2>1 DEF IInv, CortoPlazoEncuentra, TypeOK, TipoCPU
    <3> QED BY <2>1, <3>1
  <2>3. PorLiberar' = PorLiberar /\ HilosEn(Soltando)' = HilosEn(Soltando)
    BY <2>1 DEF PorLiberar, HilosEn
  <2>4. Uno(corto'.pc = "mueve") = 1 /\ Uno(corto.pc = "mueve") = 0
    BY <2>1 DEF Uno
  <2>5. Repartidas' <= Repartidas
    <3>1. /\ Cardinality(HilosEn(Soltando)) \in Nat /\ Cardinality(PorLiberar) \in Nat
          /\ Len(cola["exec"]) \in Nat
      BY <1>1, TerminosRepartidos
    <3>2. /\ Len(cola'["exec"]) = Len(cola["exec"])
          /\ Cardinality(HilosEn(Soltando)') = Cardinality(HilosEn(Soltando))
          /\ Cardinality(PorLiberar') = Cardinality(PorLiberar)
      BY <2>1, <2>3
    <3> QED BY <2>2, <2>4, <3>1, <3>2 DEF Repartidas
  <2> QED BY <1>1, <2>3, <2>5, SigueRepartida
<1>4. CASE CortoMueve
  <2>1. /\ cola'["exec"] = Append(cola["exec"], corto.carpincho) /\ hilo' = hilo
        /\ corto.pc = "mueve" /\ corto'.pc = "estado"
        /\ CPU_libres' = CPU_libres /\ hilo_CPU' = hilo_CPU
    BY <1>1, <1>4 DEF CortoMueve, Mueve, TypeOK, TipoCola, Colas, TipoPlanificadores
  <2>2. Len(cola'["exec"]) = Len(cola["exec"]) + 1
    <3>1. cola["exec"] \in Seq(Carpinchos)
      BY <1>1 DEF TypeOK, TipoCola, Colas
    <3>2. corto.carpincho \in Range(cola["ready"])
      BY <2>1 DEF IInv, CortoPlazoEncuentra
    <3>3. corto.carpincho \in Carpinchos
      BY <1>1, <3>2 DEF Range, TypeOK, TipoCola, Colas
    <3> QED BY <2>1, <3>1, <3>3, AppendEs
  <2>3. PorLiberar' = PorLiberar /\ HilosEn(Soltando)' = HilosEn(Soltando)
    BY <2>1 DEF PorLiberar, HilosEn
  <2>4. Uno(corto'.pc = "mueve") = 0 /\ Uno(corto.pc = "mueve") = 1
    BY <2>1 DEF Uno
  <2>5. Repartidas' <= Repartidas
    <3>1. /\ Cardinality(HilosEn(Soltando)) \in Nat /\ Cardinality(PorLiberar) \in Nat
          /\ Len(cola["exec"]) \in Nat /\ Len(CPU_libres) \in Nat
      BY <1>1, TerminosRepartidos
    <3> QED BY <2>1, <2>2, <2>3, <2>4, <3>1 DEF Repartidas
  <2> QED BY <1>1, <2>3, <2>5, SigueRepartida
<1> QED BY <1>2, <1>3, <1>4 DEF ready_a_exec

LEMMA SuspensorRepartida ==
    ASSUME TypeOK, XInv, NadieSeSuspende, suspender PROVE XInv'
<1> USE DEF cpus, recursos, llamadas
<1>1. CASE \/ SuspensorEspera \/ SuspensorLeeEntrantes \/ SuspensorLeeReady
           \/ SuspensorLeeBlocked \/ SuspensorMueve \/ SuspensorEstado \/ SuspensorDevuelve
  <2>1. /\ CPU_libres' = CPU_libres /\ corto' = corto /\ hilo' = hilo /\ hilo_CPU' = hilo_CPU
        /\ cola'["exec"] = cola["exec"]
    BY <1>1 DEF SuspensorEspera, SuspensorLeeEntrantes, SuspensorLeeReady, SuspensorLeeBlocked,
       SuspensorLee, SuspensorMueve, SuspensorEstado, SuspensorDevuelve, TypeOK, TipoCola, Colas
  <2> QED BY <2>1, QuietaRepartida DEF HilosEn
<1>2. CASE SuspensorLibera
  BY <1>2 DEF SuspensorLibera, NadieSeSuspende
<1> QED BY <1>1, <1>2 DEF suspender

LEMMA CPURepartida ==
    ASSUME TypeOK, TypeOK', XInv, NEW i \in CPUs, ejecuta(i) PROVE XInv'
<1> USE DEF planificadores, recursos, llamadas
<1>1. /\ cola' = cola /\ hilo' = hilo /\ corto' = corto
  BY DEF ejecuta, CPUToma, CPUOcupa, CPULibera, CPUAnuncia
<1>2. CASE CPUToma(i) \/ CPUOcupa(i) \/ CPUAnuncia(i)
  <2>1. /\ CPU_libres' = CPU_libres
        /\ \A j \in CPUs : hilo_CPU'[j].liberar = hilo_CPU[j].liberar
    <3>1. CASE CPUToma(i)
      BY <3>1 DEF CPUToma, TypeOK, TipoCPU
    <3>2. CASE CPUOcupa(i)
      BY <3>2 DEF CPUOcupa, TypeOK, TipoCPU
    <3>3. CASE CPUAnuncia(i)
      BY <3>3 DEF CPUAnuncia, TypeOK, TipoCPU
    <3> QED BY <1>2, <3>1, <3>2, <3>3
  <2> QED BY <1>1, <2>1, QuietaRepartida DEF HilosEn
<1>3. CASE CPULibera(i)
  <2>1. /\ hilo_CPU[i].liberar > 0 /\ hilo_CPU'[i].liberar = hilo_CPU[i].liberar - 1
        /\ \A j \in CPUs \ {i} : hilo_CPU'[j].liberar = hilo_CPU[j].liberar
        /\ CPU_libres' = Append(CPU_libres, i) /\ CPU_libres \in Seq(CPUs) /\ TipoCPU
        /\ IsFiniteSet(PorLiberar)
    BY <1>3 DEF CPULibera, TypeOK, TipoCPU, XInv
  <2>2. /\ IsFiniteSet(PorLiberar') /\ Cardinality(PorLiberar) \in Nat
        /\ Cardinality(PorLiberar') = Cardinality(PorLiberar) - 1
    BY <2>1, LiberarBaja
  <2>3. Len(CPU_libres') = Len(CPU_libres) + 1
    BY <2>1, AppendEs
  <2>4. HilosEn(Soltando)' = HilosEn(Soltando)
    BY <1>1 DEF HilosEn
  <2>5. Repartidas' <= Repartidas
    <3>1. /\ Cardinality(HilosEn(Soltando)) \in Nat /\ Len(cola["exec"]) \in Nat
          /\ Len(CPU_libres) \in Nat /\ Uno(corto.pc = "mueve") \in Nat
      BY <2>1, TerminosRepartidos DEF Uno
    <3> QED BY <1>1, <2>2, <2>3, <2>4, <3>1 DEF Repartidas
  <2> QED BY <2>2, <2>5, SigueRepartida
<1> QED BY <1>2, <1>3 DEF ejecuta

\* A step of the thread h that neither takes anybody out of exec nor frees a CPU.
LEMMA HiloRepartido ==
    ASSUME XInv, NEW h \in Hilos, \A k \in Hilos \ {h} : hilo'[k] = hilo[k],
           hilo[h].pc \in Soltando <=> hilo'[h].pc \in Soltando,
           UNCHANGED <<CPU_libres, hilo_CPU, corto>>, cola'["exec"] = cola["exec"]
    PROVE  XInv'
<1>1. HilosEn(Soltando)' = HilosEn(Soltando)
  BY DEF HilosEn
<1> QED BY <1>1, QuietaRepartida

\* exec_a_block and the close of a carpincho that runs give back the CPU they free.
LEMMA SueltaRepartida ==
    ASSUME IInv, TypeOK', EInv, XInv, NEW h \in Hilos, exec_a_block(h) \/ CierraExec(h)
    PROVE  XInv'
<1> USE DEF planificadores, recursos, cpus
<1>1. TypeOK /\ TypeOK' /\ IsFiniteSet(PorLiberar) /\ h[1] \in Carpinchos /\ TipoHilo /\ TipoCPU
  BY DEF IInv, XInv, TypeOK, Hilos, HilosServidor, HilosDetector
<1>2. ASSUME hilo[h].pc \in Sacando, cola'["exec"] = RemoveFirst(cola["exec"], h[1])
      PROVE  Len(cola'["exec"]) = Len(cola["exec"]) - 1
  <2>1. cola["exec"] \in Seq(Carpinchos)
    BY <1>1 DEF TypeOK, TipoCola, Colas
  <2>2. h[1] \in Range(cola["exec"])
    <3>1. Veces(h[1]) >= Saliendo(h[1]) + Uno(Ejecuta(h[1])) + Uno(Llegando(h[1]))
      BY <1>1 DEF EInv, LugarEnExec, TieneLugar
    <3>2. Saliendo(h[1]) # 0
      <4>1. h \in Sacan(h[1]) /\ Sacan(h[1]) \in SUBSET Hilos
        BY <1>2 DEF Sacan
      <4>2. IsFiniteSet(Sacan(h[1])) /\ Sacan(h[1]) # {}
        BY <4>1, HilosFinitos, FS_Subset
      <4> QED BY <4>2, FS_EmptySet DEF Saliendo
    <3>3. /\ Veces(h[1]) \in Nat /\ Saliendo(h[1]) \in Nat
          /\ Veces(h[1]) > 0 => h[1] \in Range(cola["exec"])
          /\ Uno(Ejecuta(h[1])) \in {0, 1} /\ Uno(Llegando(h[1])) \in {0, 1}
      BY <1>1, TerminosBien DEF TypeOK
    <3> QED BY <3>1, <3>2, <3>3
  <2> QED BY <1>2, <2>1, <2>2, RemoveFirstEs
<1>3. /\ Len(cola["exec"]) \in Nat /\ Len(CPU_libres) \in Nat
      /\ Uno(corto.pc = "mueve") \in Nat
      /\ Cardinality(HilosEn(Soltando)) \in Nat /\ Cardinality(PorLiberar) \in Nat
  BY <1>1, TerminosRepartidos
<1>4. CASE BloqueaMueve(h)
  <2>1. /\ hilo[h].pc = "bloquea_mueve" /\ hilo'[h].pc = "bloquea_estado"
        /\ \A k \in Hilos \ {h} : hilo'[k] = hilo[k]
        /\ cola'["exec"] = RemoveFirst(cola["exec"], h[1])
        /\ UNCHANGED <<CPU_libres, hilo_CPU, corto>>
    BY <1>1, <1>4, SigueCambia DEF BloqueaMueve, Mueve, TypeOK, TipoCola, Colas
  <2>2. Len(cola'["exec"]) = Len(cola["exec"]) - 1
    BY <1>2, <2>1 DEF Sacando
  <2>3. Cardinality(HilosEn(Soltando)') = Cardinality(HilosEn(Soltando)) + 1
    <3>1. Uno(hilo[h].pc \in Soltando) = 0 /\ Uno(hilo'[h].pc \in Soltando) = 1
      BY <2>1 DEF Soltando, Uno
    <3>2. Cardinality(HilosEn(Soltando)') = Cardinality(HilosEn(Soltando))
             - Uno(hilo[h].pc \in Soltando) + Uno(hilo'[h].pc \in Soltando)
      BY <2>1, HilosEnCambia
    <3> QED BY <1>3, <3>1, <3>2
  <2>4. /\ PorLiberar' = PorLiberar /\ Cardinality(PorLiberar') = Cardinality(PorLiberar)
        /\ Uno(corto'.pc = "mueve") = Uno(corto.pc = "mueve")
        /\ Len(CPU_libres') = Len(CPU_libres)
    BY <2>1 DEF PorLiberar
  <2>5. Repartidas' <= Repartidas
    BY <1>3, <2>2, <2>3, <2>4, SumaBaja DEF Repartidas
  <2> QED BY <1>1, <2>4, <2>5, SigueRepartida
<1>5. CASE BloqueaEstado(h)
  <2>1. /\ hilo[h].pc = "bloquea_estado" /\ hilo'[h].pc = "bloquea_libera"
        /\ \A k \in Hilos \ {h} : hilo'[k] = hilo[k]
        /\ UNCHANGED <<cola, CPU_libres, hilo_CPU, corto>>
    BY <1>1, <1>5, SigueCambia DEF BloqueaEstado
  <2> QED BY <2>1, HiloRepartido DEF Soltando
<1>6. CASE BloqueaLibera(h)
  <2>1. /\ hilo[h].pc = "bloquea_libera" /\ hilo'[h].pc \notin Soltando
        /\ \A k \in Hilos \ {h} : hilo'[k] = hilo[k]
        /\ UNCHANGED <<cola, CPU_libres, corto>>
        /\ PostLiberar(carpincho[h[1]].CPU_en_uso)
    BY <1>1, <1>6, SigueCambia, TerminaCambia DEF BloqueaLibera, Soltando, HiloLibre
  <2>2. Cardinality(HilosEn(Soltando)') = Cardinality(HilosEn(Soltando)) - 1
    <3>1. Uno(hilo[h].pc \in Soltando) = 1 /\ Uno(hilo'[h].pc \in Soltando) = 0
      BY <2>1 DEF Soltando, Uno
    <3>2. Cardinality(HilosEn(Soltando)') = Cardinality(HilosEn(Soltando))
             - Uno(hilo[h].pc \in Soltando) + Uno(hilo'[h].pc \in Soltando)
      BY <2>1, HilosEnCambia
    <3> QED BY <1>3, <3>1, <3>2
  <2>3. /\ IsFiniteSet(PorLiberar') /\ Cardinality(PorLiberar') \in Nat
        /\ Cardinality(PorLiberar') <= Cardinality(PorLiberar) + 1
    BY <1>1, <2>1, LiberarSube
  <2>4. Repartidas' <= Repartidas
    BY <1>3, <2>1, <2>2, <2>3 DEF Repartidas
  <2> QED BY <1>1, <2>3, <2>4, SigueRepartida
<1>7. CASE CierraExec(h)
  <2>1. /\ hilo[h].pc = "cierra_exec" /\ hilo'[h].pc = "cierra_grado"
        /\ \A k \in Hilos \ {h} : hilo'[k] = hilo[k]
        /\ cola'["exec"] = RemoveFirst(cola["exec"], h[1])
        /\ UNCHANGED <<CPU_libres, corto>>
        /\ PostLiberar(carpincho[h[1]].CPU_en_uso)
    BY <1>1, <1>7, SigueCambia DEF CierraExec, Cierra, TypeOK, TipoCola, Colas
  <2>2. Len(cola'["exec"]) = Len(cola["exec"]) - 1
    BY <1>2, <2>1 DEF Sacando
  <2>3. /\ HilosEn(Soltando)' = HilosEn(Soltando)
        /\ Uno(corto'.pc = "mueve") = Uno(corto.pc = "mueve")
        /\ Len(CPU_libres') = Len(CPU_libres)
    BY <2>1 DEF HilosEn, Soltando
  <2>4. /\ IsFiniteSet(PorLiberar') /\ Cardinality(PorLiberar') \in Nat
        /\ Cardinality(PorLiberar') <= Cardinality(PorLiberar) + 1
    BY <1>1, <2>1, LiberarSube
  <2>5. Repartidas' <= Repartidas
    BY <1>3, <2>2, <2>3, <2>4, SumaBaja DEF Repartidas
  <2> QED BY <1>1, <2>4, <2>5, SigueRepartida
<1> QED BY <1>4, <1>5, <1>6, <1>7 DEF exec_a_block

LEMMA AtiendeRepartida ==
    ASSUME IInv, TypeOK', EInv, XInv, NEW h \in Hilos, Atiende(h) PROVE XInv'
<1> USE DEF planificadores, recursos, cpus
<1>1. TypeOK /\ TipoHilo
  BY DEF IInv, TypeOK
<1>2. CASE exec_a_block(h) \/ CierraExec(h)
  BY <1>2, SueltaRepartida
<1>3. CASE \/ MateInitPublica(h) \/ despertar(h) \/ mate_call_io(h) \/ MemoriaContesta(h)
           \/ CierraBlocked(h) \/ CierraSuspended(h) \/ CierraGrado(h)
  <2>1. /\ hilo[h].pc \notin Soltando /\ hilo'[h].pc \notin Soltando
        /\ \A k \in Hilos \ {h} : hilo'[k] = hilo[k]
        /\ UNCHANGED <<CPU_libres, hilo_CPU, corto>> /\ cola'["exec"] = cola["exec"]
    <3> USE <1>1 DEF Soltando, Sigue, Termina, HiloLibre, TipoHilo
    <3>1. CASE MateInitPublica(h) \/ MemoriaContesta(h) \/ CierraGrado(h)
      BY <3>1 DEF MateInitPublica, MemoriaContesta, CierraGrado
    <3>2. CASE Despierta(h)
      BY <3>2 DEF Despierta
    <3>3. CASE ReadyMueve(h) \/ SuspendedMueve(h)
      <4>1. UNCHANGED <<CPU_libres, hilo_CPU, corto>> /\ cola'["exec"] = cola["exec"]
        BY <3>3 DEF ReadyMueve, SuspendedMueve, Mueve, TypeOK, TipoCola, Colas
      <4>2. CASE ReadyMueve(h)
        BY <4>1, <4>2 DEF ReadyMueve
      <4>3. CASE SuspendedMueve(h)
        BY <4>1, <4>3 DEF SuspendedMueve
      <4> QED BY <3>3, <4>2, <4>3
    <3>4. CASE ReadyPublica(h) \/ SuspendedPublica(h)
      BY <3>4 DEF ReadyPublica, SuspendedPublica, Publica
    <3>5. CASE mate_call_io(h)
      BY <3>5 DEF mate_call_io, IoToma, IoDevuelve
    <3>6. CASE CierraBlocked(h) \/ CierraSuspended(h)
      BY <3>6 DEF CierraBlocked, CierraSuspended, Cierra, TypeOK, TipoCola, Colas
    <3> QED BY <1>3, <3>1, <3>2, <3>3, <3>4, <3>5, <3>6 DEF despertar
  <2> QED BY <2>1, HiloRepartido
<1> QED BY <1>2, <1>3 DEF Atiende, mate_close

LEMMA LlamadaRepartida ==
    ASSUME IInv, XInv, NEW c \in Carpinchos, handler(c) PROVE XInv'
<1> USE DEF planificadores, recursos, cpus
<1> DEFINE h == <<c, cliente[c].llamada + 1>>
<1>1. UNCHANGED <<CPU_libres, hilo_CPU, corto>> /\ cola'["exec"] = cola["exec"]
  BY DEF handler, MateInit, MateInitSinMemoria, ReenviaAMemoria, MateClose, MateSemInit,
     MateSemWait, MateSemPost, MateSemDestroy, MateCallIo, IInv, TypeOK, TipoCola, Colas
<1>2. CASE hilo' = hilo
  BY <1>1, <1>2, QuietaRepartida DEF HilosEn
<1>3. CASE hilo' # hilo
  <2>1. \E inicio : /\ inicio.pc \notin Soltando
                     /\ hilo' = [hilo EXCEPT ![h] = inicio]
    BY <1>3 DEF handler, MateInit, MateInitSinMemoria, ReenviaAMemoria, MateClose, MateSemInit,
       MateSemWait, MateSemPost, MateSemDestroy, MateCallIo, LlamaYSigue, LlamaYEspera,
       HiloLibre, InicioCierre, Soltando
  <2>2. TipoHilo /\ h \in Hilos
    <3>1. TipoHilo
      BY DEF IInv, TypeOK
    <3>2. h \in DOMAIN hilo
      BY <1>3, <2>1, <3>1 DEF TipoHilo
    <3> QED BY <3>1, <3>2 DEF TipoHilo
  <2>3. hilo[h].pc = "libre"
    <3>1. cliente[c].llamada + 1 \in 1 .. MaxLlamadas /\ cliente[c].llamada \in Nat
      <4>1. cliente[c].llamada \in Nat
        BY ConstantesValidas DEF IInv, TypeOK, TipoCliente, ConstantesValidas
      <4> QED BY <2>2, <4>1, ConstantesValidas
              DEF Hilos, HilosServidor, HilosDetector, ConstantesValidas
    <3> QED BY <3>1 DEF IInv, Auxiliar, HilosFuturosLibres
  <2> QED BY <1>1, <2>1, <2>2, <2>3, HiloRepartido DEF TipoHilo, Soltando
<1> QED BY <1>2, <1>3

\* While nobody is suspended exec never holds more carpinchos than there are CPUs: each
\* dispatch takes one of CPU_libres, and each carpincho that leaves exec frees one, be it
\* its own or, when it was woken before it left, another one.
THEOREM NuncaMasQueCPUs ==
    Spec /\ []NadieSeSuspende => []GradoMultiprocesamientoRespetado
<1>1. Init => XInv
  <2> SUFFICES ASSUME Init PROVE XInv
    OBVIOUS
  <2>1. PorLiberar = {} /\ HilosEn(Soltando) = {}
    BY DEF Init, PorLiberar, HilosEn, HiloLibre, Soltando
  <2>2. GradoMultiprocesamiento \in Nat
    BY ConstantesValidas DEF ConstantesValidas
  <2>3. Len(CPU_libres) = GradoMultiprocesamiento /\ Len(cola["exec"]) = 0
    BY <2>2 DEF Init, Colas
  <2>4. Uno(corto.pc = "mueve") = 0
    BY DEF Init, Uno
  <2>5. IsFiniteSet(PorLiberar) /\ Cardinality(PorLiberar) = 0
        /\ Cardinality(HilosEn(Soltando)) = 0
    BY <2>1, FS_EmptySet
  <2> QED BY <2>2, <2>3, <2>4, <2>5 DEF XInv, Repartidas
<1>2. IInv /\ IInv' /\ EInv /\ XInv /\ NadieSeSuspende /\ [Next]_vars => XInv'
  <2> SUFFICES ASSUME IInv, IInv', EInv, XInv, NadieSeSuspende, [Next]_vars PROVE XInv'
    OBVIOUS
  <2>1. TypeOK /\ TypeOK'
    BY DEF IInv
  <2>2. CASE entrantes_a_ready
    BY <2>1, <2>2, LargoRepartida
  <2>3. CASE ready_a_exec
    BY <2>1, <2>3, CortoRepartida
  <2>4. CASE suspender
    BY <2>1, <2>4, SuspensorRepartida
  <2>5. ASSUME NEW i \in CPUs, ejecuta(i) PROVE XInv'
    BY <2>1, <2>5, CPURepartida
  <2>6. ASSUME NEW h \in Hilos, Atiende(h) PROVE XInv'
    BY <2>1, <2>6, AtiendeRepartida
  <2>7. ASSUME NEW c \in Carpinchos, handler(c) PROVE XInv'
    BY <2>7, LlamadaRepartida
  <2>8. CASE UNCHANGED vars
    BY <2>8, QuietaRepartida DEF vars, cpus, planificadores, llamadas, HilosEn
  <2> QED BY <2>2, <2>3, <2>4, <2>5, <2>6, <2>7, <2>8 DEF Next
<1>3. IInv /\ XInv => GradoMultiprocesamientoRespetado
  <2> SUFFICES ASSUME IInv, XInv PROVE Len(cola["exec"]) <= GradoMultiprocesamiento
    BY DEF GradoMultiprocesamientoRespetado
  <2>1. TypeOK /\ GradoMultiprocesamiento \in Nat
    BY ConstantesValidas DEF IInv, ConstantesValidas
  <2> QED BY <2>1, TerminosRepartidos DEF XInv, Repartidas
<1> QED BY <1>1, <1>2, <1>3, SiempreConLugar, PTL DEF Spec

\* With more slots than calls exec holds no more carpinchos than there are CPUs, whatever
\* they call.
THEOREM CPUsConGrado ==
    ASSUME GradoMultiprogramacion > Cardinality(HilosServidor)
    PROVE  Spec => []GradoMultiprocesamientoRespetado
BY NuncaSeSuspende, NuncaMasQueCPUs, PTL
=============================================================================
