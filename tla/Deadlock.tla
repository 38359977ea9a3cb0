------------------------------ MODULE Deadlock ------------------------------
(***************************************************************************)
(* The deadlock detector of the kernel (detectate_deadlock) on top of the  *)
(* scheduler: every so often it looks, in what mate_sem_wait and           *)
(* mate_sem_post noted in each carpincho, for a cycle of carpinchos that   *)
(* wait for one another; it closes one of them and posts two semaphores.   *)
(*                                                                         *)
(* A search is one step.  Ids and the order of lista_carpinchos are not    *)
(* modelled: of several holders of a semaphore any one may be the last of  *)
(* the list, and any member of a cycle may have the greatest id.           *)
(***************************************************************************)
EXTENDS Planificador

CONSTANTS
    OtroId,   \* the id of no semaphore, such as that of a destroyed one
    Basura    \* what malloc left in a field

VARIABLES
    retencion,    \* the fields of data_carpincho "para deadlock"
    detector      \* the detector thread: the connection it acts on, posts it owes

dvars == <<vars, retencion, detector>>

IdSemaforo == Semaforos \cup {Nadie, OtroId}   \* Nadie is 0

\* What mate_init leaves: nombre_semaforo_por_el_que_se_bloqueo is an empty string,
\* not NULL, and sem_por_el_que_se_bloqueo is not written.
RetencionInicial == [sem_retenido |-> Nadie, nombre_no_nulo |-> TRUE,
                     sem_por_el_que_se_bloqueo |-> Basura, tiene_su_espera |-> Nadie]
Duerme == [conexion |-> Nadie, debe |-> << >>]

\* A null pointer is no connection, and garbage is not an id.
ASSUME ConstantesDetector ==
    /\ Nadie \notin Hilos
    /\ OtroId \notin Semaforos \cup {Nadie} /\ Basura \notin IdSemaforo

DInit ==
    /\ Init
    /\ retencion = [c \in Carpinchos |-> RetencionInicial]
    /\ detector = Duerme

-----------------------------------------------------------------------------
(* What the calls note.                                                    *)

\* Only a wait that does not block notes what the carpincho holds.
AnotaWait(c, s) ==
    retencion' = IF Bloquea(s)
                 THEN [retencion EXCEPT ![c].nombre_no_nulo = TRUE,
                                        ![c].sem_por_el_que_se_bloqueo = s]
                 ELSE [retencion EXCEPT ![c].sem_retenido = s]

Desbloqueado(r) ==
    [r EXCEPT !.nombre_no_nulo = FALSE, !.sem_por_el_que_se_bloqueo = Nadie]

\* Only a post that wakes somebody (its thread goes on to wake it) notes that the
\* carpincho holds nothing any more, whatever it was holding.
AnotaPost(c) ==
    LET h == <<c, cliente[c].llamada + 1>>
    IN  retencion' = IF hilo' = hilo THEN retencion
                     ELSE [retencion EXCEPT
                             ![hilo'[h].objetivo] = Desbloqueado(@),
                             ![c].sem_retenido = Nadie]

AnotaDestroy(s) ==
    LET SinEl(id) == IF id = s THEN OtroId ELSE id
    IN  retencion' = [c \in Carpinchos |->
            [retencion[c] EXCEPT !.sem_retenido = SinEl(@),
                                 !.sem_por_el_que_se_bloqueo = SinEl(@)]]

llamada(c) ==
    \/ \E s \in Semaforos : \/ MateSemWait(c, s) /\ AnotaWait(c, s)
                            \/ MateSemPost(c, s) /\ AnotaPost(c)
                            \/ MateSemDestroy(c, s) /\ AnotaDestroy(s)
    \/ /\ \/ MateInit(c) \/ MateInitSinMemoria(c) \/ ReenviaAMemoria(c) \/ MateClose(c)
          \/ \E s \in Semaforos : MateSemInit(c, s)
          \/ \E d \in Dispositivos : MateCallIo(c, d)
       /\ UNCHANGED retencion

-----------------------------------------------------------------------------
(* The search.                                                             *)

Vivos == {c \in Carpinchos : carpincho[c].existe}

\* agregando_a_lista_posible_deadlock
lista_posibles ==
    {c \in Vivos : /\ Cardinality(Vivos) >= 2
                   /\ carpincho[c].estado \in {"BLOCKED", "SUSPENDED_BLOCKED"}
                   /\ retencion[c].sem_retenido # Nadie
                   /\ retencion[c].nombre_no_nulo}

\* The semaphore id that a search may read in a carpincho.
IdsLeidos(c) ==
    IF retencion[c].sem_por_el_que_se_bloqueo = Basura THEN IdSemaforo
    ELSE {retencion[c].sem_por_el_que_se_bloqueo}
Lecturas == {l \in [lista_posibles -> IdSemaforo] : \A c \in lista_posibles : l[c] \in IdsLeidos(c)}

\* buscar_quien_tiene_su_espera: those that retain a semaphore c waits for.
Retienen(c, id) == {x \in Vivos \ {c} : retencion[x].sem_retenido = id}
lista_conectados(l) == {c \in lista_posibles : Retienen(c, l[c]) # {}}

\* The outcomes of the search: a carpincho that is not looked up, or for which no
\* holder is found, keeps the holder an earlier search found.
Esperas(l) ==
    {t \in [Carpinchos -> Carpinchos \cup {Nadie}] :
        \A c \in Carpinchos : IF c \in lista_conectados(l) THEN t[c] \in Retienen(c, l[c])
                              ELSE t[c] = retencion[c].tiene_su_espera}

\* From a carpincho to the one it is noted to wait for, five times.
CaminoDesde(t, c) ==
    LET camino[n \in 0 .. 5] ==
            IF n = 0 THEN c
            ELSE IF camino[n - 1] = Nadie THEN Nadie ELSE t[camino[n - 1]]
    IN  camino

\* The way from c is back at c after n steps through carpinchos that still exist.
VuelveEn(t, c, n) ==
    LET camino == CaminoDesde(t, c)
    IN  camino[n] = c /\ \A i \in 1 .. n - 1 : camino[i] \in Vivos

chequear_ciclo(t, c) == \E n \in 2 .. 5 : VuelveEn(t, c, n)

el_ciclo(t, c) == IF chequear_ciclo(t, c) THEN Range(CaminoDesde(t, c)) ELSE {}

\* Faulty variant of Victimas: two carpinchos are not enough.
VictimasDeTres(l, t) ==
    IF Cardinality(lista_posibles) < 3 THEN {}
    ELSE UNION {el_ciclo(t, c) : c \in lista_conectados(l)}

\* hay_ciclo: whom solucionatelo may close.
Victimas(l, t) ==
    IF Cardinality(lista_posibles) < 2 THEN {}
    ELSE UNION {el_ciclo(t, c) : c \in lista_conectados(l)}

Anota(t) ==
    retencion' = [c \in Carpinchos |-> [retencion[c] EXCEPT !.tiene_su_espera = t[c]]]

BuscaSinExito ==
    /\ detector = Duerme
    /\ \E l \in Lecturas : \E t \in Esperas(l) : Victimas(l, t) = {} /\ Anota(t)
    /\ UNCHANGED <<vars, detector>>

-----------------------------------------------------------------------------
(* solucionatelo.                                                          *)

\* encontrar_estructura_semaforo
Encontrado(id) == IF id \in Semaforos THEN id ELSE Nadie

\* mate_close of the victim, answering on the connection of its last call; both
\* semaphores were looked up before.
Soluciona ==
    /\ detector = Duerme
    /\ \E l \in Lecturas : \E t \in Esperas(l) :
         /\ Anota(t)
         /\ \E c \in Victimas(l, t) :
            \E culpable \in IF c \in lista_posibles THEN {l[c]} ELSE IdsLeidos(c) :
              LET conexion == <<c, -carpincho[c].fd>>
              IN  /\ hilo' = [hilo EXCEPT ![conexion] = InicioCierre(c)]
                  /\ detector' = [conexion |-> conexion,
                                  debe |-> <<Encontrado(culpable),
                                             Encontrado(retencion[c].sem_retenido)>>]
    /\ UNCHANGED <<cola, sem, carpincho, cpus, planificadores, recursos, cliente,
                   kernel_vivo>>

\* mate_sem_post with fd -1, once mate_close or the post before is done: a dead head
\* is dropped, and nobody is woken in its place.  A null pointer is followed when
\* the semaphore was not found or is no longer there.
DetectorPostNulo ==
    LET s == Head(detector.debe)
    IN  /\ detector.debe # << >> /\ hilo[detector.conexion].pc = "libre"
        /\ s # Nadie => ~semaforo[s].existe
        /\ kernel_vivo' = FALSE
        /\ UNCHANGED <<cola, sem, carpincho, cpus, planificadores, recursos, llamadas,
                       retencion, detector>>

DetectorPost ==
    LET s == Head(detector.debe)
        en_espera == semaforo[s].en_espera
        despacha == en_espera # << >> /\ semaforo[s].valor + 1 >= 0
    IN  /\ detector.debe # << >> /\ hilo[detector.conexion].pc = "libre"
        /\ s # Nadie /\ semaforo[s].existe
        /\ semaforo' = [semaforo EXCEPT
                           ![s].valor = @ + 1,
                           ![s].en_espera = IF despacha THEN Tail(@) ELSE @]
        /\ IF despacha /\ carpincho[Head(en_espera)].existe
           THEN /\ hilo' = [hilo EXCEPT ![detector.conexion] =
                      [pc |-> "despierta", recurso |-> s, objetivo |-> Head(en_espera)]]
                /\ retencion' = [retencion EXCEPT ![Head(en_espera)] = Desbloqueado(@)]
           ELSE UNCHANGED <<hilo, retencion>>
        /\ detector' = [detector EXCEPT !.debe = Tail(@)]
        /\ UNCHANGED <<cola, sem, carpincho, cpus, planificadores, dispositivo_sem, cliente,
                       kernel_vivo>>

\* The lists are cleaned and the detector sleeps again.
Descansa ==
    /\ detector # Duerme /\ detector.debe = << >> /\ hilo[detector.conexion].pc = "libre"
    /\ detector' = Duerme
    /\ UNCHANGED <<vars, retencion>>

detectate_deadlock ==
    BuscaSinExito \/ Soluciona \/ DetectorPost \/ DetectorPostNulo \/ Descansa

-----------------------------------------------------------------------------
DNext ==
    /\ kernel_vivo
    /\ \/ /\ \/ entrantes_a_ready \/ ready_a_exec \/ suspender
             \/ \E i \in CPUs : ejecuta(i)
             \/ \E h \in Hilos : Atiende(h)
          /\ UNCHANGED <<retencion, detector>>
       \/ \E c \in Carpinchos : llamada(c) /\ UNCHANGED detector
       \/ detectate_deadlock

DSpec == DInit /\ [][DNext]_dvars

\* The detector thread is one more thread of the kernel.
DSpecJusta ==
    /\ DSpec /\ Equidad
    /\ WF_dvars(kernel_vivo /\ detectate_deadlock)
    /\ WF_vars(kernel_vivo /\ \E h \in HilosDetector : Atiende(h))

-----------------------------------------------------------------------------
(* Properties.                                                             *)

\* The bookkeeping of the detector has its type.
DTypeOK ==
    /\ TypeOK
    /\ retencion \in [Carpinchos -> [sem_retenido : IdSemaforo, nombre_no_nulo : BOOLEAN,
                                     sem_por_el_que_se_bloqueo : IdSemaforo \cup {Basura},
                                     tiene_su_espera : Carpinchos \cup {Nadie}]]
    /\ detector \in [conexion : Hilos \cup {Nadie}, debe : Seq(Semaforos \cup {Nadie})]

\* c waits for x and for nobody else, as far as the detector can see.
Espera(c, x) == \A id \in IdsLeidos(c) : Retienen(c, id) = {x}

\* Two carpinchos that the detector can see waiting for each other, and for nobody
\* else, do not stay so for ever: one is closed and the posts release the other.
DeadlockSeResuelve ==
    \A c1, c2 \in Carpinchos :
        []<>(kernel_vivo => ~(/\ {c1, c2} \subseteq lista_posibles
                              /\ Espera(c1, c2) /\ Espera(c2, c1)))
=============================================================================
