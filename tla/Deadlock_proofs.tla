--------------------------- MODULE Deadlock_proofs ---------------------------
(***************************************************************************)
(* Proofs about the scheduler with the deadlock detector on top of it, for *)
(* every number of carpinchos, CPUs, slots, semaphores, devices and calls. *)
(***************************************************************************)
EXTENDS Deadlock, Planificador_proofs

-----------------------------------------------------------------------------
(* The search.                                                             *)

\* From a carpincho, the way goes on to the one it is noted to wait for.
LEMMA CaminoEs ==
    ASSUME NEW t, NEW c
    PROVE  /\ CaminoDesde(t, c)[0] = c
           /\ \A n \in 1 .. 5 : CaminoDesde(t, c)[n] =
                 IF CaminoDesde(t, c)[n - 1] = Nadie THEN Nadie
                 ELSE t[CaminoDesde(t, c)[n - 1]]
           /\ DOMAIN CaminoDesde(t, c) = 0 .. 5
<1> DEFINE es(f) == f = [n \in 0 .. 5 |-> IF n = 0 THEN c ELSE
                                          IF f[n - 1] = Nadie THEN Nadie ELSE t[f[n - 1]]]
<1>1. PICK x1, x2, x3, x4, x5 :
        /\ x1 = IF c = Nadie THEN Nadie ELSE t[c]
        /\ x2 = IF x1 = Nadie THEN Nadie ELSE t[x1]
        /\ x3 = IF x2 = Nadie THEN Nadie ELSE t[x2]
        /\ x4 = IF x3 = Nadie THEN Nadie ELSE t[x3]
        /\ x5 = IF x4 = Nadie THEN Nadie ELSE t[x4]
  OBVIOUS
<1> DEFINE g == [n \in 0 .. 5 |-> CASE n = 0 -> c [] n = 1 -> x1 [] n = 2 -> x2
                                    [] n = 3 -> x3 [] n = 4 -> x4 [] n = 5 -> x5]
<1>8. es(g)
  <2>1. ASSUME NEW n \in 0 .. 5
        PROVE  g[n] = IF n = 0 THEN c ELSE IF g[n - 1] = Nadie THEN Nadie ELSE t[g[n - 1]]
    <3>1. CASE n = 0
      BY <3>1
    <3>2. CASE n = 1
      BY <1>1, <3>2
    <3>3. CASE n = 2
      BY <1>1, <3>3
    <3>4. CASE n = 3
      BY <1>1, <3>4
    <3>5. CASE n = 4
      BY <1>1, <3>5
    <3>6. CASE n = 5
      <4>1. g[n] = x5 /\ g[n - 1] = x4 /\ n # 0
        BY <3>6
      <4> HIDE DEF g
      <4> QED BY <1>1, <4>1
    <3>7. n = 0 \/ n = 1 \/ n = 2 \/ n = 3 \/ n = 4 \/ n = 5
      OBVIOUS
    <3> HIDE DEF g
    <3> QED BY <3>1, <3>2, <3>3, <3>4, <3>5, <3>6, <3>7
  <2>2. g = [n \in 0 .. 5 |-> g[n]]
    OBVIOUS
  <2> HIDE DEF g
  <2> QED BY <2>1, <2>2
<1>2. \E f : es(f)
  BY <1>8
<1>3. CaminoDesde(t, c) = CHOOSE f : es(f)
  BY DEF CaminoDesde
<1> HIDE DEF es
<1>4. es(CaminoDesde(t, c))
  BY <1>2, <1>3
<1>5. PICK f : f = CaminoDesde(t, c)
  OBVIOUS
<1>6. f = [n \in 0 .. 5 |-> IF n = 0 THEN c ELSE
                            IF f[n - 1] = Nadie THEN Nadie ELSE t[f[n - 1]]]
  BY <1>4, <1>5 DEF es
<1>7. /\ f[0] = c /\ DOMAIN f = 0 .. 5
      /\ \A n \in 1 .. 5 : f[n] = IF f[n - 1] = Nadie THEN Nadie ELSE t[f[n - 1]]
  BY <1>6
<1> QED BY <1>5, <1>7

\* All the carpinchos of a cycle exist: the victim is one of lista_carpinchos.
LEMMA VictimaVive ==
    ASSUME NEW l, NEW t, NEW c \in Victimas(l, t)
    PROVE  c \in Carpinchos /\ carpincho[c].existe
<1>1. PICK d \in lista_conectados(l) : c \in el_ciclo(t, d)
  BY DEF Victimas
<1>2. d \in Vivos
  BY DEF lista_conectados, lista_posibles
<1>3. PICK n \in 2 .. 5 : VuelveEn(t, d, n)
  BY <1>1 DEF el_ciclo, chequear_ciclo
<1>4. PICK f : f = CaminoDesde(t, d)
  OBVIOUS
<1>5. f[n] = d /\ \A i \in 1 .. n - 1 : f[i] \in Vivos
  BY <1>3, <1>4 DEF VuelveEn
<1>6. /\ f[0] = d /\ DOMAIN f = 0 .. 5
      /\ \A i \in 1 .. 5 : f[i] = IF f[i - 1] = Nadie THEN Nadie ELSE t[f[i - 1]]
  BY <1>4, CaminoEs
<1>7. n = 2 \/ n = 3 \/ n = 4 \/ n = 5
  OBVIOUS
<1>8. /\ f[1] = IF f[0] = Nadie THEN Nadie ELSE t[f[0]]
      /\ f[2] = IF f[1] = Nadie THEN Nadie ELSE t[f[1]]
      /\ f[3] = IF f[2] = Nadie THEN Nadie ELSE t[f[2]]
      /\ f[4] = IF f[3] = Nadie THEN Nadie ELSE t[f[3]]
      /\ f[5] = IF f[4] = Nadie THEN Nadie ELSE t[f[4]]
  BY <1>6
<1>9. f[1] \in Vivos /\ f[2] \in Vivos /\ f[3] \in Vivos /\ f[4] \in Vivos /\ f[5] \in Vivos
  <2>1. CASE n = 2
    <3>1. f[1] \in Vivos /\ f[2] = f[0]
      BY <1>5, <1>6, <2>1
    <3>2. f[3] = f[1]
      BY <1>8, <3>1
    <3>3. f[4] = f[2]
      BY <1>8, <3>2
    <3>4. f[5] = f[3]
      BY <1>8, <3>3
    <3> QED BY <1>2, <1>6, <3>1, <3>2, <3>3, <3>4
  <2>2. CASE n = 3
    <3>1. f[1] \in Vivos /\ f[2] \in Vivos /\ f[3] = f[0]
      BY <1>5, <1>6, <2>2
    <3>2. f[4] = f[1]
      BY <1>8, <3>1
    <3>3. f[5] = f[2]
      BY <1>8, <3>2
    <3> QED BY <1>2, <1>6, <3>1, <3>2, <3>3
  <2>3. CASE n = 4
    <3>1. f[1] \in Vivos /\ f[2] \in Vivos /\ f[3] \in Vivos /\ f[4] = f[0]
      BY <1>5, <1>6, <2>3
    <3>2. f[5] = f[1]
      BY <1>8, <3>1
    <3> QED BY <1>2, <1>6, <3>1, <3>2
  <2>4. CASE n = 5
    BY <1>2, <1>5, <2>4
  <2> QED BY <1>7, <2>1, <2>2, <2>3, <2>4
<1>10. c \in Range(f)
  BY <1>1, <1>3, <1>4 DEF el_ciclo, chequear_ciclo
<1>11. PICK i \in 0 .. 5 : c = f[i]
  BY <1>6, <1>10 DEF Range
<1>12. i = 0 \/ i = 1 \/ i = 2 \/ i = 3 \/ i = 4 \/ i = 5
  OBVIOUS
<1>13. c \in Vivos
  BY <1>2, <1>6, <1>9, <1>11, <1>12
<1> QED BY <1>13 DEF Vivos

-----------------------------------------------------------------------------
(* The inductive invariant.                                                *)

\* The connection that solucionatelo answers on is that of a call.
FdConocido ==
    \A c \in Carpinchos : carpincho[c].existe => carpincho[c].fd \in 1 .. MaxLlamadas

\* The detector is one thread: it closes or posts on one connection, and sleeps again
\* only when it is done there.
DetectorSolo ==
    /\ \A h \in HilosDetector : hilo[h].pc # "libre" => detector # Duerme /\ detector.conexion = h
    /\ detector # Duerme => detector.conexion \in HilosDetector

TipoRetencion ==
    retencion \in [Carpinchos -> [sem_retenido : IdSemaforo, nombre_no_nulo : BOOLEAN,
                                  sem_por_el_que_se_bloqueo : IdSemaforo \cup {Basura},
                                  tiene_su_espera : Carpinchos \cup {Nadie}]]
TipoDetector == detector \in [conexion : Hilos \cup {Nadie}, debe : Seq(Semaforos \cup {Nadie})]

DInductivo ==
    /\ IInv /\ PermisosNoNegativos
    /\ FdConocido /\ DetectorSolo /\ TipoRetencion /\ TipoDetector

LEMMA DAlEmpezar == DInit => DInductivo
<1> SUFFICES ASSUME DInit PROVE DInductivo
  OBVIOUS
<1>1. IInv
  BY InicioIInv DEF DInit
<1>2. PermisosNoNegativos
  BY ConstantesValidas
  DEF ConstantesValidas, DInit, Init, PermisosNoNegativos, Creado, Inexistente
<1>3. FdConocido
  BY DEF DInit, Init, FdConocido
<1>4. DetectorSolo
  BY DEF DInit, Init, DetectorSolo, HiloLibre, Hilos
<1>5. TipoRetencion
  BY DEF DInit, TipoRetencion, RetencionInicial, IdSemaforo
<1>6. TipoDetector
  BY DEF DInit, TipoDetector, Duerme
<1> QED BY <1>1, <1>2, <1>3, <1>4, <1>5, <1>6 DEF DInductivo

-----------------------------------------------------------------------------
(* The steps of the scheduler.                                             *)

\* A carpincho that exists keeps its connection or stores that of its next call.
LEMMA FdSeGuarda ==
    ASSUME ConstantesValidas, TypeOK, FdConocido,
           \/ entrantes_a_ready \/ ready_a_exec \/ suspender
           \/ \E i \in CPUs : ejecuta(i)
           \/ \E h \in Hilos : Atiende(h)
           \/ \E c \in Carpinchos : handler(c)
    PROVE  FdConocido'
<1> USE DEF cpus, TypeOK, TipoCarpincho
<1>1. ASSUME UNCHANGED carpincho PROVE FdConocido'
  BY <1>1 DEF FdConocido
<1>2. ASSUME NEW c, NEW e, PonEstado(c, e) PROVE FdConocido'
  BY <1>2 DEF FdConocido, PonEstado
<1>3. CASE entrantes_a_ready
  BY <1>1, <1>2, <1>3
  DEF entrantes_a_ready, LargoEsperaEstructura, LargoEsperaGrado, LargoMira, LargoDeSuspendedReady,
      LargoDeNew, LargoAdmite, LargoPublica
<1>4. CASE ready_a_exec
  <2>1. ASSUME NEW c \in Carpinchos, CortoElige(c) PROVE FdConocido'
    BY <2>1 DEF CortoElige, AsignarHiloCPU, FdConocido
  <2> QED BY <1>1, <1>2, <1>4, <2>1
          DEF ready_a_exec, CortoEsperaReady, CortoEsperaCPU, CortoMueve, CortoEstado, CortoResponde
<1>5. CASE suspender
  BY <1>1, <1>2, <1>5
  DEF suspender, SuspensorEspera, SuspensorLeeEntrantes, SuspensorLeeReady, SuspensorLeeBlocked,
      SuspensorLee, SuspensorMueve, SuspensorEstado, SuspensorLibera, SuspensorDevuelve
<1>6. CASE \E i \in CPUs : ejecuta(i)
  BY <1>1, <1>6 DEF ejecuta, CPUToma, CPUOcupa, CPULibera, CPUAnuncia
<1>7. ASSUME NEW h \in Hilos, Atiende(h) PROVE FdConocido'
  <2>1. CASE MateInitPublica(h) \/ mate_call_io(h) \/ MemoriaContesta(h)
    BY <1>1, <2>1 DEF MateInitPublica, mate_call_io, IoToma, IoDevuelve, MemoriaContesta
  <2>2. CASE exec_a_block(h)
    BY <1>1, <1>2, <2>2 DEF exec_a_block, BloqueaMueve, BloqueaEstado, BloqueaLibera
  <2>3. CASE despertar(h)
    BY <1>1, <1>2, <2>3 DEF despertar, Despierta, ReadyMueve, ReadyPublica, SuspendedMueve,
                            SuspendedPublica, Publica
  <2>4. CASE mate_close(h)
    <3>1. ASSUME carpincho' = [carpincho EXCEPT ![h[1]].existe = FALSE] PROVE FdConocido'
      BY <3>1 DEF FdConocido
    <3> QED BY <1>1, <2>4, <3>1 DEF mate_close, CierraExec, CierraBlocked, CierraSuspended, Cierra,
                                    CierraGrado
  <2> QED BY <1>7, <2>1, <2>2, <2>3, <2>4 DEF Atiende
<1>8. ASSUME NEW c \in Carpinchos, handler(c) PROVE FdConocido'
  <2>1. ASSUME GuardaFd(c), cliente[c].llamada < MaxLlamadas PROVE FdConocido'
    <3>1. cliente[c].llamada + 1 \in 1 .. MaxLlamadas
      BY <2>1 DEF TipoCliente, ConstantesValidas
    <3>2. carpincho'[c].fd = cliente[c].llamada + 1
      BY <2>1 DEF GuardaFd
    <3>3. \A d \in Carpinchos \ {c} : carpincho'[d] = carpincho[d]
      BY <2>1 DEF GuardaFd
    <3> QED BY <3>1, <3>2, <3>3 DEF FdConocido
  <2>2. CASE MateInit(c)
    <3>1. 1 \in 1 .. MaxLlamadas
      BY <2>2 DEF MateInit, ConstantesValidas
    <3>2. carpincho'[c].fd = 1 /\ \A d \in Carpinchos \ {c} : carpincho'[d] = carpincho[d]
      BY <2>2 DEF MateInit
    <3> QED BY <3>1, <3>2 DEF FdConocido
  <2>3. CASE MateInitSinMemoria(c)
    BY <1>1, <2>3 DEF MateInitSinMemoria
  <2>4. CASE ReenviaAMemoria(c) \/ MateClose(c) \/ \E d \in Dispositivos : MateCallIo(c, d)
    BY <2>1, <2>4 DEF ReenviaAMemoria, MateClose, MateCallIo, PuedeLlamar
  <2>5. ASSUME NEW s \in Semaforos, MateSemInit(c, s) \/ MateSemWait(c, s) \/ MateSemPost(c, s)
                                    \/ MateSemDestroy(c, s)
        PROVE  FdConocido'
    BY <1>1, <2>1, <2>5 DEF MateSemInit, MateSemWait, MateSemPost, MateSemDestroy, PuedeLlamar
  <2> QED BY <1>8, <2>2, <2>3, <2>4, <2>5 DEF handler
<1> QED BY <1>3, <1>4, <1>5, <1>6, <1>7, <1>8

\* No step of the scheduler starts a thread of the detector.
LEMMA DetectorSigueSolo ==
    ASSUME ConstantesValidas, TypeOK, DetectorSolo, UNCHANGED detector,
           \/ entrantes_a_ready \/ ready_a_exec \/ suspender
           \/ \E i \in CPUs : ejecuta(i)
           \/ \E h \in Hilos : Atiende(h)
           \/ \E c \in Carpinchos : handler(c)
    PROVE  DetectorSolo'
<1> USE DEF llamadas, TypeOK
<1> SUFFICES ASSUME NEW h \in HilosDetector, hilo'[h].pc # "libre" PROVE hilo[h].pc # "libre"
  BY DEF DetectorSolo
<1>0. h \in Hilos
  BY DEF Hilos
<1>1. CASE UNCHANGED hilo
  BY <1>1
<1>2. CASE entrantes_a_ready
  BY <1>1, <1>2
  DEF entrantes_a_ready, LargoEsperaEstructura, LargoEsperaGrado, LargoMira, LargoDeSuspendedReady,
      LargoDeNew, LargoAdmite, LargoPublica
<1>3. CASE ready_a_exec
  BY <1>1, <1>3
  DEF ready_a_exec, CortoEsperaReady, CortoEsperaCPU, CortoMueve, CortoEstado, CortoResponde, CortoElige
<1>4. CASE suspender
  BY <1>1, <1>4
  DEF suspender, SuspensorEspera, SuspensorLeeEntrantes, SuspensorLeeReady, SuspensorLeeBlocked,
      SuspensorLee, SuspensorMueve, SuspensorEstado, SuspensorLibera, SuspensorDevuelve
<1>5. CASE \E i \in CPUs : ejecuta(i)
  BY <1>1, <1>5 DEF ejecuta, CPUToma, CPUOcupa, CPULibera, CPUAnuncia
<1>6. ASSUME NEW k \in Hilos, Atiende(k) PROVE hilo[h].pc # "libre"
  <2>1. hilo[k].pc # "libre"
    BY <1>6 DEF Atiende, MateInitPublica, exec_a_block, BloqueaMueve, BloqueaEstado, BloqueaLibera,
                despertar, Despierta, ReadyMueve, ReadyPublica, SuspendedMueve, SuspendedPublica,
                Publica, mate_call_io, IoToma, IoDevuelve, MemoriaContesta, mate_close, CierraExec,
                CierraBlocked, CierraSuspended, Cierra, CierraGrado
  <2>2. Termina(k) \/ \E paso : Sigue(k, paso)
    BY <1>6 DEF Atiende, MateInitPublica, exec_a_block, BloqueaMueve, BloqueaEstado, BloqueaLibera,
                despertar, Despierta, ReadyMueve, ReadyPublica, SuspendedMueve, SuspendedPublica,
                Publica, mate_call_io, IoToma, IoDevuelve, MemoriaContesta, mate_close, CierraExec,
                CierraBlocked, CierraSuspended, Cierra, CierraGrado
  <2>3. h # k => hilo'[h] = hilo[h]
    BY <1>0, <2>2, SigueCambia, TerminaCambia
  <2> QED BY <2>1, <2>3
<1>7. ASSUME NEW c \in Carpinchos, handler(c) PROVE hilo[h].pc # "libre"
  <2>1. ASSUME NEW espera, NEW inicio, LlamaYEspera(c, espera, inicio) PROVE hilo'[h] = hilo[h]
    <3>1. cliente[c].llamada + 1 \in 1 .. MaxLlamadas + 1
      BY DEF TipoCliente, ConstantesValidas
    <3>2. h # <<c, cliente[c].llamada + 1>>
      BY <3>1 DEF HilosDetector, ConstantesValidas
    <3> QED BY <1>0, <2>1, <3>2 DEF LlamaYEspera, TipoHilo
  <2>2. CASE MateInit(c) \/ MateInitSinMemoria(c) \/ ReenviaAMemoria(c) \/ MateClose(c)
             \/ \E d \in Dispositivos : MateCallIo(c, d)
    BY <2>1, <2>2 DEF MateInit, MateInitSinMemoria, ReenviaAMemoria, MateClose, MateCallIo
  <2>3. ASSUME NEW s \in Semaforos, MateSemInit(c, s) \/ MateSemWait(c, s) \/ MateSemPost(c, s)
                                    \/ MateSemDestroy(c, s)
        PROVE  hilo'[h] = hilo[h]
    BY <2>1, <2>3 DEF MateSemInit, MateSemWait, MateSemPost, MateSemDestroy, LlamaYSigue
  <2> QED BY <1>7, <2>1, <2>2, <2>3 DEF handler
<1> QED BY <1>2, <1>3, <1>4, <1>5, <1>6, <1>7

\* The notes of the calls are ids, and holders are carpinchos.
LEMMA AnotaBien ==
    ASSUME TipoRetencion, NEW c \in Carpinchos, llamada(c)
    PROVE  TipoRetencion'
<1> USE DEF TipoRetencion, IdSemaforo
<1>1. ASSUME NEW s \in Semaforos, AnotaWait(c, s) PROVE TipoRetencion'
  <2>1. CASE Bloquea(s)
    BY <1>1, <2>1 DEF AnotaWait
  <2>2. CASE ~Bloquea(s)
    BY <1>1, <2>2 DEF AnotaWait
  <2> QED BY <2>1, <2>2
<1>2. ASSUME AnotaPost(c) PROVE TipoRetencion'
  <2>1. CASE hilo' = hilo
    BY <1>2, <2>1 DEF AnotaPost
  <2>2. CASE hilo' # hilo
    <3>1. PICK d : d = hilo'[<<c, cliente[c].llamada + 1>>].objetivo
      OBVIOUS
    <3> DEFINE r == [retencion EXCEPT ![d] = Desbloqueado(@)]
    <3>2. r \in [Carpinchos -> [sem_retenido : IdSemaforo, nombre_no_nulo : BOOLEAN,
                                sem_por_el_que_se_bloqueo : IdSemaforo \cup {Basura},
                                tiene_su_espera : Carpinchos \cup {Nadie}]]
      BY DEF Desbloqueado
    <3>3. retencion' = [r EXCEPT ![c].sem_retenido = Nadie]
      BY <1>2, <2>2, <3>1 DEF AnotaPost
    <3> HIDE DEF r
    <3> QED BY <3>2, <3>3
  <2> QED BY <2>1, <2>2
<1>3. ASSUME NEW s \in Semaforos, AnotaDestroy(s) PROVE TipoRetencion'
  BY <1>3 DEF AnotaDestroy
<1> QED BY <1>1, <1>2, <1>3 DEF llamada

-----------------------------------------------------------------------------
(* The steps of the detector.                                              *)

\* The accounts of the scheduler do not notice that the detector starts a thread that
\* moves nobody yet, nor that it touches the semaphores of the carpinchos.
LEMMA DetectorEstable ==
    ASSUME IInv, NEW h \in HilosDetector, hilo[h].pc = "libre", NEW inicio,
           InicioValido(inicio), inicio.pc \notin Publicando,
           hilo' = [hilo EXCEPT ![h] = inicio] \/ UNCHANGED hilo,
           UNCHANGED <<cola, sem, carpincho, cpus, planificadores, cliente, dispositivo_sem,
                       kernel_vivo>>,
           TipoRecursos'
    PROVE  IInv'
<1> USE DEF IInv, TypeOK, cpus, planificadores
<1>1. h \in Hilos
  BY DEF Hilos
<1>2. /\ hilo'[h] \in {hilo[h], inicio}
      /\ \A k \in Hilos \ {h} : hilo'[k] = hilo[k]
      /\ TipoHilo'
  BY <1>1 DEF TipoHilo, InicioValido
<1>3. /\ TipoCola' /\ TipoSem' /\ TipoCarpincho' /\ TipoCPU' /\ TipoPlanificadores' /\ TipoCliente'
      /\ kernel_vivo' \in BOOLEAN
  BY DEF TipoCola, TipoSem, TipoCarpincho, TipoCPU, TipoPlanificadores, TipoCliente
<1>4. Auxiliar'
  <2>1. SuspensorTieneIndice'
    BY DEF Auxiliar, SuspensorTieneIndice
  <2>2. HilosConObjetivo'
    BY <1>2 DEF Auxiliar, HilosConObjetivo, InicioValido
  <2>3. ASSUME NEW c \in Carpinchos, NEW k \in 1 .. MaxLlamadas
        PROVE  hilo'[<<c, k>>] = hilo[<<c, k>>]
    <3>1. <<c, k>> \in Hilos /\ <<c, k>> # h
      BY ConstantesValidas DEF Hilos, HilosServidor, HilosDetector, ConstantesValidas
    <3> QED BY <1>2, <3>1
  <2>4. HilosFuturosLibres'
    BY <2>3 DEF Auxiliar, HilosFuturosLibres
  <2> QED BY <2>1, <2>2, <2>4 DEF Auxiliar
<1>5. TypeOK'
  BY <1>2, <1>3
<1>6. hilo[h].pc \notin Publicando /\ hilo'[h].pc \notin Publicando
  BY <1>2 DEF Publicando
<1> QED BY <1>1, <1>2, <1>4, <1>5, <1>6, HiloEstable

\* The victim is closed from a connection of a call it made.
LEMMA SolucionaInductivo == DInductivo /\ Soluciona => DInductivo'
<1> SUFFICES ASSUME DInductivo, Soluciona PROVE DInductivo'
  OBVIOUS
<1> USE DEF DInductivo
<1>1. PICK l \in Lecturas : \E t \in Esperas(l) :
         /\ Anota(t)
         /\ \E c \in Victimas(l, t) :
            \E culpable \in IF c \in lista_posibles THEN {l[c]} ELSE IdsLeidos(c) :
              LET conexion == <<c, -carpincho[c].fd>>
              IN  /\ hilo' = [hilo EXCEPT ![conexion] = InicioCierre(c)]
                  /\ detector' = [conexion |-> conexion,
                                  debe |-> <<Encontrado(culpable),
                                             Encontrado(retencion[c].sem_retenido)>>]
  BY DEF Soluciona
<1>2. PICK t \in Esperas(l) :
         /\ Anota(t)
         /\ \E c \in Victimas(l, t) :
            \E culpable \in IF c \in lista_posibles THEN {l[c]} ELSE IdsLeidos(c) :
              LET conexion == <<c, -carpincho[c].fd>>
              IN  /\ hilo' = [hilo EXCEPT ![conexion] = InicioCierre(c)]
                  /\ detector' = [conexion |-> conexion,
                                  debe |-> <<Encontrado(culpable),
                                             Encontrado(retencion[c].sem_retenido)>>]
  BY <1>1
<1>2a. PICK c \in Victimas(l, t) : \E culpable :
         /\ hilo' = [hilo EXCEPT ![<<c, -carpincho[c].fd>>] = InicioCierre(c)]
         /\ detector' = [conexion |-> <<c, -carpincho[c].fd>>,
                         debe |-> <<Encontrado(culpable), Encontrado(retencion[c].sem_retenido)>>]
  BY <1>2
<1>3. PICK culpable :
         /\ hilo' = [hilo EXCEPT ![<<c, -carpincho[c].fd>>] = InicioCierre(c)]
         /\ detector' = [conexion |-> <<c, -carpincho[c].fd>>,
                         debe |-> <<Encontrado(culpable), Encontrado(retencion[c].sem_retenido)>>]
  BY <1>2a
<1>4. c \in Carpinchos /\ carpincho[c].existe
  BY VictimaVive
<1>5. PICK h : h = <<c, -carpincho[c].fd>>
  OBVIOUS
<1>6. h \in HilosDetector /\ h \in Hilos
  <2>1. carpincho[c].fd \in 1 .. MaxLlamadas
    BY <1>4 DEF FdConocido
  <2>2. -carpincho[c].fd \in -MaxLlamadas .. -1
    BY <2>1, ConstantesValidas DEF ConstantesValidas
  <2> QED BY <1>4, <1>5, <2>2 DEF HilosDetector, Hilos
<1>7. detector = Duerme /\ UNCHANGED <<cola, sem, carpincho, cpus, planificadores, recursos, cliente, kernel_vivo>>
  BY DEF Soluciona
<1>8. hilo[h].pc = "libre"
  BY <1>6, <1>7 DEF DetectorSolo
<1>9. PICK inicio : inicio = InicioCierre(c)
  OBVIOUS
<1>10. InicioValido(inicio) /\ inicio.pc \notin Publicando /\ hilo' = [hilo EXCEPT ![h] = inicio]
  BY <1>3, <1>5, <1>9, ConstantesValidas
  DEF InicioCierre, InicioValido, PasosHilo, PasosCierre, Publicando, ConstantesValidas
<1>11. IInv'
  <2>1. TipoRecursos'
    BY <1>7 DEF IInv, TypeOK, TipoRecursos, recursos
  <2>2. UNCHANGED dispositivo_sem
    BY <1>7 DEF recursos
  <2> QED BY <1>6, <1>7, <1>8, <1>10, <2>1, <2>2, DetectorEstable
<1>12. PermisosNoNegativos'
  BY <1>7 DEF recursos, PermisosNoNegativos
<1>13. FdConocido'
  BY <1>7 DEF FdConocido
<1>14. detector'.conexion = h /\ Len(detector'.debe) = 2 /\ TipoDetector'
  BY <1>3, <1>5, <1>6 DEF TipoDetector, Encontrado
<1>15. detector' # Duerme
  BY SMTT(30), <1>14 DEF Duerme
<1>16. DetectorSolo'
  <2>1. \A k \in HilosDetector \ {h} : hilo'[k] = hilo[k]
    BY <1>10 DEF IInv, TypeOK, TipoHilo, Hilos
  <2> QED BY <1>6, <1>7, <1>14, <1>15, <2>1 DEF DetectorSolo, Duerme
<1>17. TipoRetencion'
  BY <1>2 DEF Anota, TipoRetencion, Esperas
<1> QED BY <1>11, <1>12, <1>13, <1>14, <1>16, <1>17

\* A post of the detector lets through at most whom it wakes or drops.
LEMMA DetectorPostInductivo == DInductivo /\ DetectorPost => DInductivo'
<1> SUFFICES ASSUME DInductivo, DetectorPost PROVE DInductivo'
  OBVIOUS
<1> USE DEF DInductivo
<1>1. PICK h : h = detector.conexion
  OBVIOUS
<1>2. PICK s \in Semaforos : s = Head(detector.debe)
  <2>1. Head(detector.debe) \in Semaforos \cup {Nadie}
    BY SMTT(30) DEF DetectorPost, TipoDetector
  <2> QED BY <2>1 DEF DetectorPost
<1> DEFINE en_espera == semaforo[s].en_espera
           despacha == en_espera # << >> /\ semaforo[s].valor + 1 >= 0
           v == semaforo[s].valor + 1
           q == IF despacha THEN Tail(en_espera) ELSE en_espera
           inicio == [pc |-> "despierta", recurso |-> s, objetivo |-> Head(en_espera)]
<1>3. /\ detector.debe # << >> /\ hilo[h].pc = "libre"
      /\ semaforo' = [semaforo EXCEPT ![s].valor = v, ![s].en_espera = q]
      /\ \/ /\ despacha
            /\ hilo' = [hilo EXCEPT ![h] = inicio]
            /\ retencion' = [retencion EXCEPT ![Head(en_espera)] = Desbloqueado(@)]
         \/ UNCHANGED <<hilo, retencion>>
      /\ detector' = [detector EXCEPT !.debe = Tail(@)]
      /\ UNCHANGED <<cola, sem, carpincho, cpus, planificadores, dispositivo_sem, cliente,
                     kernel_vivo>>
  BY <1>1, <1>2 DEF DetectorPost
<1>4. h \in HilosDetector /\ detector # Duerme
  BY <1>1, <1>3 DEF DetectorSolo, Duerme
<1>5. /\ semaforo \in [Semaforos -> [existe : BOOLEAN, valor : Int, en_espera : Seq(Carpinchos)]]
      /\ en_espera \in Seq(Carpinchos) /\ semaforo[s].valor \in Int
      /\ v \in Int /\ q \in Seq(Carpinchos) /\ Len(en_espera) \in Nat
      /\ despacha => Head(en_espera) \in Carpinchos /\ Len(q) = Len(en_espera) - 1
      /\ semaforo[s].valor + Len(en_espera) >= 0
  <2>1. semaforo \in [Semaforos -> [existe : BOOLEAN, valor : Int, en_espera : Seq(Carpinchos)]]
    BY DEF IInv, TypeOK, TipoRecursos
  <2>2. en_espera \in Seq(Carpinchos) /\ semaforo[s].valor \in Int /\ Len(en_espera) \in Nat
    BY <2>1
  <2>3. semaforo[s].valor + Len(en_espera) >= 0
    BY DEF PermisosNoNegativos
  <2> HIDE DEF en_espera
  <2>4. en_espera # << >> => /\ Head(en_espera) \in Carpinchos
                             /\ Tail(en_espera) \in Seq(Carpinchos)
                             /\ Len(Tail(en_espera)) = Len(en_espera) - 1
    BY <2>2
  <2> QED BY <2>1, <2>2, <2>3, <2>4 DEF en_espera
<1> HIDE DEF en_espera, q, v
<1>6. /\ semaforo'[s].valor = v /\ semaforo'[s].en_espera = q
      /\ \A r \in Semaforos \ {s} : semaforo'[r] = semaforo[r]
      /\ TipoRecursos'
  <2>1. semaforo' \in [Semaforos -> [existe : BOOLEAN, valor : Int, en_espera : Seq(Carpinchos)]]
    <3> DEFINE nuevo == [semaforo[s] EXCEPT !.valor = v, !.en_espera = q]
    <3>1. nuevo \in [existe : BOOLEAN, valor : Int, en_espera : Seq(Carpinchos)]
      BY <1>5
    <3>2. semaforo' = [semaforo EXCEPT ![s] = nuevo]
      BY <1>3
    <3> HIDE DEF nuevo
    <3> QED BY <1>5, <3>1, <3>2
  <2> QED BY <1>3, <1>5, <2>1 DEF TipoRecursos, IInv, TypeOK
<1>7. IInv'
  <2>1. CASE despacha
    <3>1. InicioValido(inicio) /\ inicio.pc \notin Publicando
      BY <1>5, <2>1 DEF InicioValido, PasosHilo, Publicando
    <3>2. PICK j : j = inicio
      OBVIOUS
    <3>3. hilo' = [hilo EXCEPT ![h] = j] \/ UNCHANGED hilo
      BY <1>3, <3>2
    <3> QED BY <1>3, <1>4, <1>6, <3>1, <3>2, <3>3, DetectorEstable
  <2>2. CASE ~despacha
    <3>1. InicioValido(HiloLibre) /\ HiloLibre.pc \notin Publicando
      BY ConstantesValidas DEF InicioValido, HiloLibre, PasosHilo, Publicando, ConstantesValidas
    <3> QED BY <1>3, <1>4, <1>6, <2>2, <3>1, DetectorEstable
  <2> QED BY <2>1, <2>2
<1>8. PermisosNoNegativos'
  <2>1. semaforo'[s].valor + Len(semaforo'[s].en_espera) >= 0
    <3>1. CASE despacha
      BY <1>5, <1>6, <3>1 DEF v
    <3>2. CASE ~despacha
      BY <1>5, <1>6, <3>2 DEF v, q
    <3> QED BY <3>1, <3>2
  <2> QED BY <1>6, <2>1 DEF PermisosNoNegativos
<1>9. FdConocido'
  BY <1>3 DEF FdConocido
<1>10. detector'.conexion = h /\ TipoDetector'
  <2>1. Tail(detector.debe) \in Seq(Semaforos \cup {Nadie})
    BY <1>3 DEF TipoDetector
  <2> QED BY <1>1, <1>3, <2>1 DEF TipoDetector
<1>11. detector' # Duerme
  <2>1. h # Nadie
    BY <1>4, ConstantesDetector DEF ConstantesDetector, Hilos
  <2> QED BY <1>10, <2>1 DEF Duerme
<1>12. DetectorSolo'
  <2>1. \A k \in HilosDetector \ {h} : hilo'[k] = hilo[k]
    BY <1>3 DEF IInv, TypeOK, TipoHilo, Hilos
  <2> QED BY <1>1, <1>4, <1>10, <1>11, <2>1 DEF DetectorSolo
<1>13. TipoRetencion'
  <2>1. CASE UNCHANGED retencion
    BY <2>1 DEF TipoRetencion
  <2>2. CASE despacha /\ retencion' = [retencion EXCEPT ![Head(en_espera)] = Desbloqueado(@)]
    <3>1. PICK d \in Carpinchos : d = Head(en_espera)
      BY <1>5, <2>2
    <3>2. Nadie \in IdSemaforo
      BY DEF IdSemaforo
    <3>3. retencion' = [retencion EXCEPT ![d] = Desbloqueado(retencion[d])]
      BY <2>2, <3>1
    <3> HIDE DEF despacha
    <3> QED BY <3>2, <3>3 DEF TipoRetencion, Desbloqueado
  <2> QED BY <1>3, <2>1, <2>2
<1> QED BY <1>7, <1>8, <1>9, <1>10, <1>12, <1>13

\* Sleeping again, searching in vain and following a null pointer disturb nothing.
LEMMA DetectorQuietoInductivo ==
    DInductivo /\ (BuscaSinExito \/ DetectorPostNulo \/ Descansa) => DInductivo'
<1> SUFFICES ASSUME DInductivo, BuscaSinExito \/ DetectorPostNulo \/ Descansa PROVE DInductivo'
  OBVIOUS
<1> USE DEF DInductivo
<1>1. CASE BuscaSinExito \/ Descansa
  <2>1. UNCHANGED vars
    BY <1>1 DEF BuscaSinExito, Descansa
  <2>2. IInv' /\ PermisosNoNegativos'
    BY <2>1, PasoIInv, SiguenLosPermisos DEF IInv
  <2>3. FdConocido'
    BY <2>1 DEF vars, FdConocido
  <2>4. CASE BuscaSinExito
    <3>1. PICK l \in Lecturas : \E t \in Esperas(l) : Anota(t)
      BY <2>4 DEF BuscaSinExito
    <3>2. PICK t \in Esperas(l) : Anota(t)
      BY <3>1
    <3>3. TipoRetencion'
      BY <3>2 DEF Anota, TipoRetencion, Esperas
    <3>4. UNCHANGED detector /\ TipoRetencion'
      BY <2>4, <3>3 DEF BuscaSinExito
    <3> QED BY <2>1, <2>2, <2>3, <3>4 DEF DetectorSolo, TipoDetector, vars, llamadas
  <2>5. CASE Descansa
    <3>1. /\ UNCHANGED <<hilo, retencion>> /\ detector' = Duerme
          /\ hilo[detector.conexion].pc = "libre"
      BY <2>1, <2>5 DEF Descansa, vars, llamadas
    <3>2. \A h \in HilosDetector : hilo'[h].pc = "libre"
      BY <3>1 DEF DetectorSolo
    <3> QED BY <2>2, <2>3, <3>1, <3>2 DEF DetectorSolo, TipoDetector, TipoRetencion, Duerme
  <2> QED BY <1>1, <2>4, <2>5
<1>2. CASE DetectorPostNulo
  <2> USE <1>2 DEF DetectorPostNulo, recursos, llamadas, cpus, planificadores
  <2>1. TypeOK'
    BY DEF IInv, TypeOK, TipoCola, TipoSem, TipoCarpincho, TipoCPU, TipoPlanificadores,
           TipoRecursos, TipoHilo, TipoCliente
  <2>2. Auxiliar'
    BY DEF IInv, Auxiliar, SuspensorTieneIndice, HilosConObjetivo, HilosFuturosLibres
  <2>3. CuentaEntrantes' /\ LargoPlazoEncuentra'
    BY EntrantesEstables, PorPublicarIgual DEF IInv
  <2>4. CuentaReady' /\ CortoPlazoEncuentra'
    BY ReadyEstable, PorPublicarIgual DEF IInv
  <2>5. CuentaCPUs' /\ CPUExclusiva'
    BY CPUsEstables DEF IInv
  <2>6. PermisosNoNegativos' /\ FdConocido' /\ DetectorSolo' /\ TipoRetencion' /\ TipoDetector'
    BY DEF PermisosNoNegativos, FdConocido, DetectorSolo, TipoRetencion, TipoDetector
  <2> QED BY <2>1, <2>2, <2>3, <2>4, <2>5, <2>6 DEF IInv
<1> QED BY <1>1, <1>2

-----------------------------------------------------------------------------
(* The invariant and what follows from it.                                 *)

LEMMA DPasoInductivo == DInductivo /\ [DNext]_dvars => DInductivo'
<1> SUFFICES ASSUME DInductivo, [DNext]_dvars PROVE DInductivo'
  OBVIOUS
<1> USE ConstantesValidas DEF DInductivo
<1>1. ASSUME Next,
             \/ entrantes_a_ready \/ ready_a_exec \/ suspender
             \/ \E i \in CPUs : ejecuta(i)
             \/ \E h \in Hilos : Atiende(h)
             \/ \E c \in Carpinchos : handler(c),
             UNCHANGED detector, TipoRetencion'
      PROVE  DInductivo'
  <2>1. IInv'
    BY <1>1, PasoIInv
  <2>2. PermisosNoNegativos'
    BY <1>1, SiguenLosPermisos DEF IInv
  <2>3. FdConocido'
    BY <1>1, FdSeGuarda DEF IInv
  <2>4. DetectorSolo'
    BY <1>1, DetectorSigueSolo DEF IInv
  <2>5. TipoDetector'
    BY <1>1 DEF TipoDetector
  <2> QED BY <1>1, <2>1, <2>2, <2>3, <2>4, <2>5
<1>2. ASSUME kernel_vivo, UNCHANGED <<retencion, detector>>,
             \/ entrantes_a_ready \/ ready_a_exec \/ suspender
             \/ \E i \in CPUs : ejecuta(i)
             \/ \E h \in Hilos : Atiende(h)
      PROVE  DInductivo'
  BY <1>1, <1>2 DEF Next, TipoRetencion
<1>3. ASSUME kernel_vivo, NEW c \in Carpinchos, llamada(c), UNCHANGED detector
      PROVE  DInductivo'
  <2>1. handler(c)
    BY <1>3 DEF llamada, handler
  <2>2. TipoRetencion'
    BY <1>3, AnotaBien
  <2> QED BY <1>1, <1>3, <2>1, <2>2 DEF Next
<1>4. ASSUME detectate_deadlock PROVE DInductivo'
  BY <1>4, SolucionaInductivo, DetectorPostInductivo, DetectorQuietoInductivo DEF detectate_deadlock
<1>5. CASE UNCHANGED dvars
  <2>1. UNCHANGED vars /\ UNCHANGED <<retencion, detector>>
    BY <1>5 DEF dvars
  <2>2. IInv' /\ PermisosNoNegativos'
    BY <2>1, PasoIInv, SiguenLosPermisos DEF IInv
  <2> QED BY <2>1, <2>2
          DEF vars, llamadas, FdConocido, DetectorSolo, TipoRetencion, TipoDetector
<1> QED BY <1>2, <1>3, <1>4, <1>5 DEF DNext

\* The inductive invariant holds in every state that the kernel reaches with its detector.
THEOREM DInvariante == DSpec => []DInductivo
BY DAlEmpezar, DPasoInductivo, PTL DEF DSpec

\* With the detector every variable keeps its type: it closes a victim on a connection
\* of the victim, notes ids and carpinchos only, and posts semaphores only.
THEOREM DTipoCorrecto == DSpec => []DTypeOK
<1>1. DInductivo => DTypeOK
  BY DEF DInductivo, DTypeOK, IInv, TipoRetencion, TipoDetector
<1> QED BY <1>1, DInvariante, PTL

\* Closing a victim while its own threads run, and waking whom it made wait, keeps the
\* account of cola_ready_con_elementos exact.
THEOREM DReadyContados == DSpec => []CuentaReady
<1>1. DInductivo => CuentaReady
  BY DEF DInductivo, IInv
<1> QED BY <1>1, DInvariante, PTL

\* The posts of the detector, which drop a dead waiter without waking another, let no
\* more carpinchos through a semaphore than its permits.
THEOREM DPermisosContados == DSpec => []PermisosNoNegativos
<1>1. DInductivo => PermisosNoNegativos
  BY DEF DInductivo
<1> QED BY <1>1, DInvariante, PTL

\* The planners still find the carpincho and the CPU they look for, and no CPU is handed
\* out twice, although the detector posts liberar_CPU for carpinchos that it closes.
THEOREM DPlanificadoresEncuentran ==
    DSpec => [](LargoPlazoEncuentra /\ CortoPlazoEncuentra /\ CPUExclusiva)
<1>1. DInductivo => LargoPlazoEncuentra /\ CortoPlazoEncuentra /\ CPUExclusiva
  BY DEF DInductivo, IInv
<1> QED BY <1>1, DInvariante, PTL
=============================================================================
