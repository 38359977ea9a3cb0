---------------------------- MODULE Planificador ----------------------------
(***************************************************************************)
(* The scheduler of the kernel (kernel/src/main.c): the six state queues,  *)
(* the counting semaphores that drive the planner threads, the long-term   *)
(* planner (entrantes_a_ready), the short-term planner (ready_a_exec), the *)
(* medium-term planner (suspender), one thread per CPU (ejecuta) and one   *)
(* server thread per call of a carpincho (mate_init, mate_sem_*,           *)
(* mate_call_io, mate_close).                                              *)
(*                                                                         *)
(* Grain of atomicity.  Planners and handlers are cut at every sem_wait,   *)
(* at every queue move (a critical section of the code), at every write of *)
(* carpincho->estado and at every read that is used later; a sem_post is   *)
(* joined to the step before it unless somebody can observe it with        *)
(* sem_getvalue.  The table of semaphores is read and written in one step  *)
(* per call; which carpincho of ready is dispatched (SJF or HRRN) is a     *)
(* free choice.                                                            *)
(***************************************************************************)
EXTENDS Integers, FiniteSets, SequencesExt

CONSTANTS
    Carpinchos,              \* the client processes
    GradoMultiprocesamiento, \* GRADO_MULTIPROCESAMIENTO: how many CPU threads
    GradoMultiprogramacion,  \* GRADO_MULTIPROGRAMACION
    Semaforos,               \* names the carpinchos give to semaphores
    SemaforosCreados,        \* those a carpincho that has already ended created
    ValorInicial,            \* the value mate_sem_init is called with
    Dispositivos,            \* DISPOSITIVOS_IO
    MaxLlamadas,             \* bound: calls a carpincho makes, mate_init included
    Operaciones,             \* the calls the programs of this instance make
    MemoriaPuedeFallar,      \* whether memoria may refuse a carpincho
    Nadie                    \* a null pointer

ASSUME ConstantesValidas ==
    /\ IsFiniteSet(Carpinchos)
    /\ GradoMultiprocesamiento \in Nat /\ GradoMultiprogramacion \in Nat
    /\ ValorInicial \in Nat /\ MaxLlamadas \in Nat
    /\ Semaforos \cap Dispositivos = {} /\ SemaforosCreados \subseteq Semaforos
    /\ Operaciones \subseteq {"sem_init", "sem_wait", "sem_post", "sem_destroy",
                              "call_io", "memoria", "close"}
    /\ MemoriaPuedeFallar \in BOOLEAN
    /\ Nadie \notin Carpinchos \cup Semaforos \cup Dispositivos

CPUs == 0 .. (GradoMultiprocesamiento - 1)
SinCPU == 9999                          \* CPU_en_uso before the first dispatch
\* Server threads: <<c, k>> serves the k-th call of c; <<c, -k>> is the deadlock
\* detector while it closes c, whose last call was the k-th.
HilosServidor == Carpinchos \X (1 .. MaxLlamadas)
HilosDetector == Carpinchos \X (-MaxLlamadas .. -1)
Hilos == HilosServidor \cup HilosDetector

Colas == {"new", "ready", "exec", "blocked", "suspended_blocked", "suspended_ready"}
Contadores == {"hay_estructura_creada", "cola_ready_con_elementos",
               "grado_multiprogramacion_libre", "grado_multiprocesamiento_libre",
               "procesamiento_lleno"}

VARIABLES
    cola,            \* the state queues
    sem,             \* the counting semaphores of the planners
    carpincho,       \* data_carpincho; existe: in lista_carpinchos
    CPU_libres,      \* queue of free CPU ids
    mutex_para_CPU,  \* held or not
    hilo_CPU,        \* each CPU thread and its three semaphores
    largo, corto, suspensor,   \* where each planner is, and its local variables
    semaforo,        \* semaforos_carpinchos
    dispositivo_sem, \* one per device
    hilo,            \* the server threads
    cliente,         \* the carpinchos, as clients blocked on an answer or not
    kernel_vivo      \* FALSE once a null pointer was followed

planificadores == <<largo, corto, suspensor>>
cpus == <<CPU_libres, mutex_para_CPU, hilo_CPU>>
recursos == <<semaforo, dispositivo_sem>>
llamadas == <<hilo, cliente>>
vars == <<cola, sem, carpincho, cpus, planificadores, recursos, llamadas, kernel_vivo>>

\* Program counters.
PasosLargo == {"espera_estructura", "espera_grado", "mira", "de_suspended_ready",
               "de_new", "publica"}
PasosCorto == {"espera_ready", "espera_cpu", "elige", "mueve", "estado", "responde"}
PasosSuspensor == {"espera", "lee_entrantes", "lee_ready", "lee_blocked", "mueve",
                   "estado", "libera", "devuelve"}
PasosCPU == {"espera_usar", "espera_libre", "espera_liberar", "espera_mutex"}
PasosCierre == {"cierra_exec", "cierra_blocked", "cierra_suspended", "cierra_grado"}
PasosHilo == {"libre", "init_publica", "bloquea_mueve", "bloquea_estado",
              "bloquea_libera", "io_pide", "io_usa", "memoria", "despierta", "ready_mueve",
              "ready_publica", "suspended_mueve", "suspended_publica"} \cup PasosCierre

\* No semaphore of that name: mate_sem_init has not created it.
Inexistente == [existe |-> FALSE, valor |-> 0, en_espera |-> << >>]
Creado == [existe |-> TRUE, valor |-> ValorInicial, en_espera |-> << >>]
HiloLibre == [pc |-> "libre", recurso |-> Nadie, objetivo |-> Nadie]

Init ==
    /\ cola = [q \in Colas |-> << >>]
    /\ sem = [s \in Contadores |->
                CASE s = "grado_multiprogramacion_libre"  -> GradoMultiprogramacion
                  [] s = "grado_multiprocesamiento_libre" -> GradoMultiprocesamiento
                  [] OTHER                                -> 0]
    /\ carpincho = [c \in Carpinchos |->
                      [estado |-> "NEW", CPU_en_uso |-> SinCPU, fd |-> 0, existe |-> FALSE]]
    /\ CPU_libres = [i \in 1 .. GradoMultiprocesamiento |-> i - 1]
    /\ mutex_para_CPU = FALSE
    /\ hilo_CPU = [i \in CPUs |-> [pc |-> "espera_usar", usar |-> 0, libre |-> 1, liberar |-> 0]]
    /\ largo = [pc |-> "espera_estructura", carpincho |-> Nadie]
    /\ corto = [pc |-> "espera_ready", carpincho |-> Nadie]
    /\ suspensor = [pc |-> "espera", carpincho |-> Nadie, long_blocked |-> 0]
    /\ semaforo = [s \in Semaforos |-> IF s \in SemaforosCreados THEN Creado ELSE Inexistente]
    /\ dispositivo_sem = [d \in Dispositivos |-> 1]
    /\ hilo = [h \in Hilos |-> HiloLibre]
    /\ cliente = [c \in Carpinchos |-> [pc |-> "fuera", llamada |-> 0]]
    /\ kernel_vivo = TRUE

-----------------------------------------------------------------------------
(* Helpers.                                                                *)

\* Faulty variant of SemWait: sem_trywait with its result ignored.
SemWaitSinBloquear(s) == sem' = [sem EXCEPT ![s] = @ - 1]
SemWait(s) == sem[s] > 0 /\ sem' = [sem EXCEPT ![s] = @ - 1]
SemPost(s) == sem' = [sem EXCEPT ![s] = @ + 1]

\* Faulty variant of Mueve: the carpincho stays in the queue it leaves.
MueveSinSacar(c, desde, hacia) == cola' = [cola EXCEPT ![hacia] = Append(@, c)]

\* A critical section that moves c between two queues: list_add on one, the
\* first entry of c (if there is one) removed from the other.
Mueve(c, desde, hacia) ==
    cola' = [cola EXCEPT ![hacia] = Append(@, c), ![desde] = RemoveFirst(@, c)]

\* The planner takes the head of a queue to ready.
AdmiteDe(q) ==
    cola' = [cola EXCEPT !["ready"] = Append(@, Head(cola[q])), ![q] = Tail(@)]

PonEstado(c, e) == carpincho' = [carpincho EXCEPT ![c].estado = e]

\* sem_post(&liberar_CPU[i])
PostLiberar(i) == hilo_CPU' = [hilo_CPU EXCEPT ![i].liberar = @ + 1]

Sigue(h, paso) == hilo' = [hilo EXCEPT ![h].pc = paso]
Termina(h) == hilo' = [hilo EXCEPT ![h] = HiloLibre]

\* _send_message to connection k of carpincho c: the client goes on when that
\* is the connection it is blocked on.
Contesta(c, k) ==
    cliente' = [cliente EXCEPT ![c].pc = IF @ = "espera" /\ k = cliente[c].llamada
                                         THEN "corre" ELSE @]

\* A call of a carpincho without a structure is only answered -6.
PuedeLlamar(c, operacion) ==
    /\ operacion \in Operaciones
    /\ carpincho[c].existe
    /\ cliente[c].pc = "corre"
    /\ cliente[c].llamada < MaxLlamadas

\* A call answered within the step that makes it.
LlamaYSigue(c) ==
    /\ cliente' = [cliente EXCEPT ![c].llamada = @ + 1]
    /\ UNCHANGED hilo

\* Faulty variant of LlamaYEspera: the client does not block on the answer.
LlamaSinEsperar(c, espera, inicio) ==
    /\ cliente' = [cliente EXCEPT ![c] = [pc |-> "corre", llamada |-> @.llamada + 1]]
    /\ hilo' = [hilo EXCEPT ![<<c, cliente[c].llamada + 1>>] = inicio]

\* A call whose server thread starts at a step; the client blocks ("espera"),
\* for good when what it called is mate_close ("cierra").
LlamaYEspera(c, espera, inicio) ==
    /\ cliente' = [cliente EXCEPT ![c] = [pc |-> espera, llamada |-> @.llamada + 1]]
    /\ hilo' = [hilo EXCEPT ![<<c, cliente[c].llamada + 1>>] = inicio]

GuardaFd(c) == carpincho' = [carpincho EXCEPT ![c].fd = cliente[c].llamada + 1]

-----------------------------------------------------------------------------
(* Long-term planner.                                                      *)

LargoEsperaEstructura ==
    /\ largo.pc = "espera_estructura"
    /\ SemWait("hay_estructura_creada")
    /\ largo' = [largo EXCEPT !.pc = "espera_grado"]
    /\ UNCHANGED <<cola, carpincho, cpus, corto, suspensor, recursos, llamadas, kernel_vivo>>

LargoEsperaGrado ==
    /\ largo.pc = "espera_grado"
    /\ SemWait("grado_multiprogramacion_libre")
    /\ largo' = [largo EXCEPT !.pc = "mira"]
    /\ UNCHANGED <<cola, carpincho, cpus, corto, suspensor, recursos, llamadas, kernel_vivo>>

\* queue_is_empty(suspended_ready), read without its mutex.
LargoMira ==
    /\ largo.pc = "mira"
    /\ largo' = [largo EXCEPT !.pc = IF cola["suspended_ready"] # << >>
                                     THEN "de_suspended_ready" ELSE "de_new"]
    /\ UNCHANGED <<cola, sem, carpincho, cpus, corto, suspensor, recursos, llamadas,
                   kernel_vivo>>

LargoAdmite(paso, q) ==
    /\ largo.pc = paso
    /\ AdmiteDe(q)
    /\ largo' = [pc |-> "publica", carpincho |-> Head(cola[q])]
    /\ UNCHANGED <<sem, carpincho, cpus, corto, suspensor, recursos, llamadas, kernel_vivo>>

LargoDeSuspendedReady == LargoAdmite("de_suspended_ready", "suspended_ready")
LargoDeNew == LargoAdmite("de_new", "new")

\* estado is written after the mutexes are released.
LargoPublica ==
    /\ largo.pc = "publica"
    /\ PonEstado(largo.carpincho, "READY")
    /\ SemPost("cola_ready_con_elementos")
    /\ largo' = [pc |-> "espera_estructura", carpincho |-> Nadie]
    /\ UNCHANGED <<cola, cpus, corto, suspensor, recursos, llamadas, kernel_vivo>>

entrantes_a_ready ==
    \/ LargoEsperaEstructura \/ LargoEsperaGrado \/ LargoMira
    \/ LargoDeSuspendedReady \/ LargoDeNew \/ LargoPublica

-----------------------------------------------------------------------------
(* Short-term planner.                                                     *)

CortoEsperaReady ==
    /\ corto.pc = "espera_ready"
    /\ SemWait("cola_ready_con_elementos")
    /\ corto' = [corto EXCEPT !.pc = "espera_cpu"]
    /\ UNCHANGED <<cola, carpincho, cpus, largo, suspensor, recursos, llamadas, kernel_vivo>>

CortoEsperaCPU ==
    /\ corto.pc = "espera_cpu"
    /\ SemWait("grado_multiprocesamiento_libre")
    /\ corto' = [corto EXCEPT !.pc = "elige"]
    /\ UNCHANGED <<cola, carpincho, cpus, largo, suspensor, recursos, llamadas, kernel_vivo>>

\* Faulty variant of AsignarHiloCPU: queue_peek without queue_pop.
AsignarSinSacar(c) ==
    /\ carpincho' = [carpincho EXCEPT ![c].CPU_en_uso = Head(CPU_libres)]
    /\ hilo_CPU' = [hilo_CPU EXCEPT ![Head(CPU_libres)].usar = @ + 1]
    /\ UNCHANGED CPU_libres

\* asignar_hilo_CPU: c gets the CPU at the head of CPU_libres.
AsignarHiloCPU(c) ==
    LET i == Head(CPU_libres)
    IN  /\ CPU_libres' = Tail(CPU_libres)
        /\ carpincho' = [carpincho EXCEPT ![c].CPU_en_uso = i]
        /\ hilo_CPU' = [hilo_CPU EXCEPT ![i].usar = @ + 1]

\* ready_a_exec_SJF or ready_a_exec_HRRN picks a member of ready, read without
\* its mutex and not removed yet.
CortoElige(c) ==
    /\ corto.pc = "elige"
    /\ c \in Range(cola["ready"])
    /\ AsignarHiloCPU(c)
    /\ corto' = [pc |-> "mueve", carpincho |-> c]
    /\ UNCHANGED <<cola, sem, mutex_para_CPU, largo, suspensor, recursos, llamadas,
                   kernel_vivo>>

CortoMueve ==
    /\ corto.pc = "mueve"
    /\ Mueve(corto.carpincho, "ready", "exec")
    /\ corto' = [corto EXCEPT !.pc = "estado"]
    /\ UNCHANGED <<sem, carpincho, cpus, largo, suspensor, recursos, llamadas, kernel_vivo>>

CortoEstado ==
    /\ corto.pc = "estado"
    /\ PonEstado(corto.carpincho, "EXEC")
    /\ corto' = [corto EXCEPT !.pc = "responde"]
    /\ UNCHANGED <<cola, sem, cpus, largo, suspensor, recursos, llamadas, kernel_vivo>>

\* sem_getvalue on the free degree wakes the suspender; the answer goes to the
\* connection of the last call that stored its fd.
CortoResponde ==
    /\ corto.pc = "responde"
    /\ IF sem["grado_multiprogramacion_libre"] = 0
       THEN SemPost("procesamiento_lleno") ELSE UNCHANGED sem
    /\ Contesta(corto.carpincho, carpincho[corto.carpincho].fd)
    /\ corto' = [pc |-> "espera_ready", carpincho |-> Nadie]
    /\ UNCHANGED <<cola, carpincho, cpus, largo, suspensor, recursos, hilo, kernel_vivo>>

ready_a_exec ==
    \/ CortoEsperaReady \/ CortoEsperaCPU \/ CortoMueve \/ CortoEstado \/ CortoResponde
    \/ \E c \in Carpinchos : CortoElige(c)

-----------------------------------------------------------------------------
(* Medium-term planner.  The three lengths are read one after the other and *)
(* without mutexes; the last one is used after the mutexes are taken.       *)

SuspensorEspera ==
    /\ suspensor.pc = "espera"
    /\ SemWait("procesamiento_lleno")
    /\ suspensor' = [suspensor EXCEPT !.pc = "lee_entrantes"]
    /\ UNCHANGED <<cola, carpincho, cpus, largo, corto, recursos, llamadas, kernel_vivo>>

\* One of the readings: its part of the condition fails or the next one is read.
SuspensorLee(paso, seCumple, siguiente, long_blocked) ==
    /\ suspensor.pc = paso
    /\ suspensor' = [suspensor EXCEPT !.pc = IF seCumple THEN siguiente ELSE "espera",
                                      !.long_blocked = long_blocked]
    /\ UNCHANGED <<cola, sem, carpincho, cpus, largo, corto, recursos, llamadas,
                   kernel_vivo>>

SuspensorLeeEntrantes ==
    SuspensorLee("lee_entrantes",
                 Len(cola["new"]) + Len(cola["suspended_ready"]) > 0, "lee_ready", 0)
SuspensorLeeReady ==
    SuspensorLee("lee_ready", Len(cola["ready"]) = 0, "lee_blocked", 0)
SuspensorLeeBlocked ==
    SuspensorLee("lee_blocked", Len(cola["blocked"]) > 0, "mueve", Len(cola["blocked"]))

\* list_remove(blocked, long_blocked - 1): an index that is out of range by now
\* yields a null pointer, which the next line follows.
SuspensorMueve ==
    LET n == suspensor.long_blocked
    IN  /\ suspensor.pc = "mueve"
        /\ \/ /\ n <= Len(cola["blocked"])
              /\ cola' = [cola EXCEPT
                             !["suspended_blocked"] = Append(@, cola["blocked"][n]),
                             !["blocked"] = RemoveAt(@, n)]
              /\ suspensor' = [suspensor EXCEPT !.pc = "estado",
                                                !.carpincho = cola["blocked"][n]]
              /\ UNCHANGED kernel_vivo
           \/ /\ n > Len(cola["blocked"])
              /\ kernel_vivo' = FALSE
              /\ UNCHANGED <<cola, suspensor>>
        /\ UNCHANGED <<sem, carpincho, cpus, largo, corto, recursos, llamadas>>

SuspensorEstado ==
    /\ suspensor.pc = "estado"
    /\ PonEstado(suspensor.carpincho, "SUSPENDED_BLOCKED")
    /\ suspensor' = [suspensor EXCEPT !.pc = "libera"]
    /\ UNCHANGED <<cola, sem, cpus, largo, corto, recursos, llamadas, kernel_vivo>>

\* The CPU the carpincho had is told to free itself once more; then memoria is
\* asked to suspend the process.
SuspensorLibera ==
    /\ suspensor.pc = "libera"
    /\ PostLiberar(carpincho[suspensor.carpincho].CPU_en_uso)
    /\ suspensor' = [suspensor EXCEPT !.pc = "devuelve"]
    /\ UNCHANGED <<cola, sem, carpincho, CPU_libres, mutex_para_CPU, largo, corto,
                   recursos, llamadas, kernel_vivo>>

SuspensorDevuelve ==
    /\ suspensor.pc = "devuelve"
    /\ SemPost("grado_multiprogramacion_libre")
    /\ suspensor' = [pc |-> "espera", carpincho |-> Nadie, long_blocked |-> 0]
    /\ UNCHANGED <<cola, carpincho, cpus, largo, corto, recursos, llamadas, kernel_vivo>>

suspender ==
    \/ SuspensorEspera \/ SuspensorLeeEntrantes \/ SuspensorLeeReady
    \/ SuspensorLeeBlocked \/ SuspensorMueve \/ SuspensorEstado
    \/ SuspensorLibera \/ SuspensorDevuelve

-----------------------------------------------------------------------------
(* A CPU thread.                                                           *)

CPUToma(i) ==
    /\ hilo_CPU[i].pc = "espera_usar" /\ hilo_CPU[i].usar > 0
    /\ hilo_CPU' = [hilo_CPU EXCEPT ![i].pc = "espera_libre", ![i].usar = @ - 1]
    /\ UNCHANGED <<cola, sem, carpincho, CPU_libres, mutex_para_CPU, planificadores,
                   recursos, llamadas, kernel_vivo>>

CPUOcupa(i) ==
    /\ hilo_CPU[i].pc = "espera_libre" /\ hilo_CPU[i].libre > 0
    /\ hilo_CPU' = [hilo_CPU EXCEPT ![i].pc = "espera_liberar", ![i].libre = @ - 1]
    /\ UNCHANGED <<cola, sem, carpincho, CPU_libres, mutex_para_CPU, planificadores,
                   recursos, llamadas, kernel_vivo>>

\* Faulty variant of DesbloqueaMutex: the unlock is missing.
NoDesbloquea == UNCHANGED mutex_para_CPU
DesbloqueaMutex == mutex_para_CPU' = FALSE

\* The mutex is unlocked before the push and locked after it.
CPULibera(i) ==
    /\ hilo_CPU[i].pc = "espera_liberar" /\ hilo_CPU[i].liberar > 0
    /\ hilo_CPU' = [hilo_CPU EXCEPT ![i].pc = "espera_mutex", ![i].liberar = @ - 1]
    /\ DesbloqueaMutex
    /\ CPU_libres' = Append(CPU_libres, i)
    /\ UNCHANGED <<cola, sem, carpincho, planificadores, recursos, llamadas, kernel_vivo>>

CPUAnuncia(i) ==
    /\ hilo_CPU[i].pc = "espera_mutex" /\ ~mutex_para_CPU
    /\ mutex_para_CPU' = TRUE
    /\ hilo_CPU' = [hilo_CPU EXCEPT ![i].pc = "espera_usar", ![i].libre = @ + 1]
    /\ SemPost("grado_multiprocesamiento_libre")
    /\ UNCHANGED <<cola, carpincho, CPU_libres, planificadores, recursos, llamadas,
                   kernel_vivo>>

ejecuta(i) == CPUToma(i) \/ CPUOcupa(i) \/ CPULibera(i) \/ CPUAnuncia(i)

-----------------------------------------------------------------------------
(* mate_init.                                                              *)

\* memoria answered: the structure enters new; the carpincho waits for EXEC.
MateInit(c) ==
    /\ cliente[c].pc = "fuera" /\ MaxLlamadas > 0
    /\ carpincho' = [carpincho EXCEPT ![c].existe = TRUE, ![c].fd = 1]
    /\ cola' = [cola EXCEPT !["new"] = Append(@, c)]
    /\ LlamaYEspera(c, "espera", [pc |-> "init_publica", recurso |-> Nadie, objetivo |-> Nadie])
    /\ UNCHANGED <<sem, cpus, planificadores, recursos, kernel_vivo>>

\* memoria refused, or could not be reached and the uninitialised answer is
\* negative: the structure is freed and the carpincho is never answered.
MateInitSinMemoria(c) ==
    /\ MemoriaPuedeFallar
    /\ cliente[c].pc = "fuera" /\ MaxLlamadas > 0
    /\ LlamaYEspera(c, "espera", HiloLibre)
    /\ UNCHANGED <<cola, sem, carpincho, cpus, planificadores, recursos, kernel_vivo>>

MateInitPublica(h) ==
    /\ hilo[h].pc = "init_publica"
    /\ SemPost("hay_estructura_creada")
    /\ Termina(h)
    /\ UNCHANGED <<cola, carpincho, cpus, planificadores, recursos, cliente, kernel_vivo>>

-----------------------------------------------------------------------------
(* exec_a_block, run by the server thread h of carpincho h[1].             *)

BloqueaMueve(h) ==
    /\ hilo[h].pc = "bloquea_mueve"
    /\ Mueve(h[1], "exec", "blocked")
    /\ Sigue(h, "bloquea_estado")
    /\ UNCHANGED <<sem, carpincho, cpus, planificadores, recursos, cliente, kernel_vivo>>

BloqueaEstado(h) ==
    /\ hilo[h].pc = "bloquea_estado"
    /\ PonEstado(h[1], "BLOCKED")
    /\ Sigue(h, "bloquea_libera")
    /\ UNCHANGED <<cola, sem, cpus, planificadores, recursos, cliente, kernel_vivo>>

\* CPU_en_uso is read here, after the carpincho was published as BLOCKED.  A
\* thread of mate_call_io goes on to the device, one of mate_sem_wait ends.
BloqueaLibera(h) ==
    /\ hilo[h].pc = "bloquea_libera"
    /\ PostLiberar(carpincho[h[1]].CPU_en_uso)
    /\ IF hilo[h].recurso \in Dispositivos THEN Sigue(h, "io_pide") ELSE Termina(h)
    /\ UNCHANGED <<cola, sem, carpincho, CPU_libres, mutex_para_CPU, planificadores,
                   recursos, cliente, kernel_vivo>>

exec_a_block(h) == BloqueaMueve(h) \/ BloqueaEstado(h) \/ BloqueaLibera(h)

-----------------------------------------------------------------------------
(* Waking hilo[h].objetivo: block_a_ready or                               *)
(* suspended_blocked_a_suspended_ready, by the estado read first.          *)

\* mate_sem_post writes estado on the suspended path, mate_call_io does not.
Despierta(h) ==
    LET c == hilo[h].objetivo
        bloqueado == carpincho[c].estado = "BLOCKED"
    IN  /\ hilo[h].pc = "despierta"
        /\ Sigue(h, IF bloqueado THEN "ready_mueve" ELSE "suspended_mueve")
        /\ IF ~bloqueado /\ hilo[h].recurso \in Semaforos
           THEN PonEstado(c, "SUSPENDED_READY") ELSE UNCHANGED carpincho
        /\ UNCHANGED <<cola, sem, cpus, planificadores, recursos, cliente, kernel_vivo>>

\* The carpincho joins the new queue even when it is no longer in the old one.
ReadyMueve(h) ==
    /\ hilo[h].pc = "ready_mueve"
    /\ Mueve(hilo[h].objetivo, "blocked", "ready")
    /\ Sigue(h, "ready_publica")
    /\ UNCHANGED <<sem, carpincho, cpus, planificadores, recursos, cliente, kernel_vivo>>

SuspendedMueve(h) ==
    /\ hilo[h].pc = "suspended_mueve"
    /\ Mueve(hilo[h].objetivo, "suspended_blocked", "suspended_ready")
    /\ Sigue(h, "suspended_publica")
    /\ UNCHANGED <<sem, carpincho, cpus, planificadores, recursos, cliente, kernel_vivo>>

\* The last step of both: estado, the token, and mate_sem_post answers its caller.
Publica(h, paso, e, s) ==
    /\ hilo[h].pc = paso
    /\ PonEstado(hilo[h].objetivo, e)
    /\ SemPost(s)
    /\ Termina(h)
    /\ IF hilo[h].recurso \in Semaforos THEN Contesta(h[1], h[2]) ELSE UNCHANGED cliente
    /\ UNCHANGED <<cola, cpus, planificadores, recursos, kernel_vivo>>

\* Faulty variants: each posts the token of the other queue.
ReadyPublicaCruzado(h) == Publica(h, "ready_publica", "READY", "hay_estructura_creada")
SuspendedPublicaCruzado(h) ==
    Publica(h, "suspended_publica", "SUSPENDED_READY", "cola_ready_con_elementos")

ReadyPublica(h) == Publica(h, "ready_publica", "READY", "cola_ready_con_elementos")
SuspendedPublica(h) ==
    Publica(h, "suspended_publica", "SUSPENDED_READY", "hay_estructura_creada")

despertar(h) ==
    \/ Despierta(h) \/ ReadyMueve(h) \/ ReadyPublica(h)
    \/ SuspendedMueve(h) \/ SuspendedPublica(h)

-----------------------------------------------------------------------------
(* mate_sem_init, mate_sem_wait, mate_sem_post, mate_sem_destroy.  On a     *)
(* name that does not exist (or, for mate_sem_init, that exists) the call   *)
(* only answers -1 and changes nothing.                                     *)

MateSemInit(c, s) ==
    /\ PuedeLlamar(c, "sem_init") /\ ~semaforo[s].existe
    /\ semaforo' = [semaforo EXCEPT ![s] = Creado]
    /\ LlamaYSigue(c)
    /\ UNCHANGED <<cola, sem, carpincho, cpus, planificadores, dispositivo_sem, kernel_vivo>>

\* Faulty variant of Bloquea: the value is tested before it is decremented.
BloqueaTarde(s) == semaforo[s].valor < 0
Bloquea(s) == semaforo[s].valor - 1 < 0

MateSemWait(c, s) ==
    /\ PuedeLlamar(c, "sem_wait") /\ semaforo[s].existe
    /\ GuardaFd(c)
    /\ semaforo' = [semaforo EXCEPT
                       ![s].valor = @ - 1,
                       ![s].en_espera = IF Bloquea(s) THEN Append(@, c) ELSE @]
    /\ IF Bloquea(s)
       THEN LlamaYEspera(c, "espera",
                         [pc |-> "bloquea_mueve", recurso |-> s, objetivo |-> Nadie])
       ELSE LlamaYSigue(c)
    /\ UNCHANGED <<cola, sem, cpus, planificadores, dispositivo_sem, kernel_vivo>>

\* Whom mate_sem_post looks at: the head of the queue or, when that carpincho no
\* longer exists, the one behind it.
SinElMuerto(q) == IF carpincho[Head(q)].existe THEN q ELSE Tail(q)

\* Nobody is woken unless the new value is above -1.  When nobody is behind a dead
\* head, the null head of the empty queue is followed.
MateSemPost(c, s) ==
    LET en_espera == semaforo[s].en_espera
        despacha == en_espera # << >> /\ semaforo[s].valor + 1 > -1
        quedan == IF despacha THEN SinElMuerto(en_espera) ELSE en_espera
        despierta == despacha /\ quedan # << >> /\ carpincho[Head(quedan)].existe
    IN  /\ PuedeLlamar(c, "sem_post") /\ semaforo[s].existe
        /\ semaforo' = [semaforo EXCEPT
                           ![s].valor = @ + 1,
                           ![s].en_espera = IF despierta THEN Tail(quedan) ELSE quedan]
        /\ kernel_vivo' = (despacha => quedan # << >>)
        /\ IF despierta
           THEN LlamaYEspera(c, "espera", [pc |-> "despierta", recurso |-> s,
                                           objetivo |-> Head(quedan)])
           ELSE LlamaYSigue(c)
        /\ UNCHANGED <<cola, sem, carpincho, cpus, planificadores, dispositivo_sem>>

\* queue_clean: the waiters are forgotten, not woken.
MateSemDestroy(c, s) ==
    /\ PuedeLlamar(c, "sem_destroy") /\ semaforo[s].existe
    /\ semaforo' = [semaforo EXCEPT ![s] = Inexistente]
    /\ LlamaYSigue(c)
    /\ UNCHANGED <<cola, sem, carpincho, cpus, planificadores, dispositivo_sem, kernel_vivo>>

-----------------------------------------------------------------------------
(* mate_call_io: exec_a_block, the device, and the carpincho wakes itself. *)

MateCallIo(c, d) ==
    /\ PuedeLlamar(c, "call_io")
    /\ GuardaFd(c)
    /\ LlamaYEspera(c, "espera", [pc |-> "bloquea_mueve", recurso |-> d, objetivo |-> c])
    /\ UNCHANGED <<cola, sem, cpus, planificadores, recursos, kernel_vivo>>

\* Faulty variant of DevuelveDispositivo: the device is not returned.
NoDevuelve(d) == UNCHANGED dispositivo_sem

TomaDispositivo(d) ==
    dispositivo_sem[d] > 0 /\ dispositivo_sem' = [dispositivo_sem EXCEPT ![d] = @ - 1]
DevuelveDispositivo(d) == dispositivo_sem' = [dispositivo_sem EXCEPT ![d] = @ + 1]

IoToma(h) ==
    /\ hilo[h].pc = "io_pide"
    /\ TomaDispositivo(hilo[h].recurso)
    /\ Sigue(h, "io_usa")
    /\ UNCHANGED <<cola, sem, carpincho, cpus, planificadores, semaforo, cliente, kernel_vivo>>

IoDevuelve(h) ==
    /\ hilo[h].pc = "io_usa"
    /\ DevuelveDispositivo(hilo[h].recurso)
    /\ Sigue(h, "despierta")
    /\ UNCHANGED <<cola, sem, carpincho, cpus, planificadores, semaforo, cliente, kernel_vivo>>

mate_call_io(h) == IoToma(h) \/ IoDevuelve(h)

-----------------------------------------------------------------------------
(* mate_memalloc, mate_memfree, mate_memread and mate_memwrite: the message *)
(* goes on to memoria, and its answer, or that it cannot be reached, to the *)
(* client, which stays in exec.                                             *)

ReenviaAMemoria(c) ==
    /\ PuedeLlamar(c, "memoria")
    /\ GuardaFd(c)
    /\ LlamaYEspera(c, "espera", [pc |-> "memoria", recurso |-> Nadie, objetivo |-> Nadie])
    /\ UNCHANGED <<cola, sem, cpus, planificadores, recursos, kernel_vivo>>

\* The answer goes to the connection of the call, not to the fd of the carpincho.
MemoriaContesta(h) ==
    /\ hilo[h].pc = "memoria"
    /\ Contesta(h[1], h[2])
    /\ Termina(h)
    /\ UNCHANGED <<cola, sem, carpincho, cpus, planificadores, recursos, kernel_vivo>>

-----------------------------------------------------------------------------
(* mate_close and exec_a_exit.  The branch is chosen by estado; memoria is  *)
(* asked to forget the process before anything else is touched.             *)

InicioCierre(c) ==
    [pc |-> CASE carpincho[c].estado = "EXEC"    -> "cierra_exec"
              [] carpincho[c].estado = "BLOCKED" -> "cierra_blocked"
              [] OTHER                           -> "cierra_suspended",
     recurso |-> Nadie, objetivo |-> Nadie]

MateClose(c) ==
    /\ PuedeLlamar(c, "close")
    /\ GuardaFd(c)
    /\ LlamaYEspera(c, "cierra", InicioCierre(c))
    /\ UNCHANGED <<cola, sem, cpus, planificadores, recursos, kernel_vivo>>

\* The carpincho leaves the queue of its branch and its structure is destroyed.
Cierra(h, paso, q) ==
    /\ hilo[h].pc = paso
    /\ cola' = [cola EXCEPT ![q] = RemoveFirst(@, h[1])]
    /\ carpincho' = [carpincho EXCEPT ![h[1]].existe = FALSE]
    /\ Sigue(h, "cierra_grado")
    /\ UNCHANGED <<sem, CPU_libres, mutex_para_CPU, planificadores, recursos, cliente,
                   kernel_vivo>>

CierraExec(h) ==
    Cierra(h, "cierra_exec", "exec") /\ PostLiberar(carpincho[h[1]].CPU_en_uso)
CierraBlocked(h) == Cierra(h, "cierra_blocked", "blocked") /\ UNCHANGED hilo_CPU
CierraSuspended(h) ==
    Cierra(h, "cierra_suspended", "suspended_blocked") /\ UNCHANGED hilo_CPU

\* The slot is returned on every branch; the answer ends the carpincho that is
\* blocked on that connection.
CierraGrado(h) ==
    /\ hilo[h].pc = "cierra_grado"
    /\ SemPost("grado_multiprogramacion_libre")
    /\ Termina(h)
    /\ cliente' = [cliente EXCEPT ![h[1]].pc =
                      IF @ \in {"espera", "cierra"} /\ cliente[h[1]].llamada \in {h[2], -h[2]}
                      THEN "fin" ELSE @]
    /\ UNCHANGED <<cola, carpincho, cpus, planificadores, recursos, kernel_vivo>>

mate_close(h) ==
    CierraExec(h) \/ CierraBlocked(h) \/ CierraSuspended(h) \/ CierraGrado(h)

-----------------------------------------------------------------------------
\* What the server thread h does next.
Atiende(h) ==
    MateInitPublica(h) \/ exec_a_block(h) \/ despertar(h) \/ mate_call_io(h)
        \/ MemoriaContesta(h) \/ mate_close(h)

\* A call made by carpincho c: _thread_function hands it to handler.
handler(c) ==
    \/ MateInit(c) \/ MateInitSinMemoria(c) \/ ReenviaAMemoria(c) \/ MateClose(c)
    \/ \E s \in Semaforos : MateSemInit(c, s) \/ MateSemWait(c, s) \/ MateSemPost(c, s)
                            \/ MateSemDestroy(c, s)
    \/ \E d \in Dispositivos : MateCallIo(c, d)

Next ==
    /\ kernel_vivo
    /\ \/ entrantes_a_ready \/ ready_a_exec \/ suspender
       \/ \E i \in CPUs : ejecuta(i)
       \/ \E h \in Hilos : Atiende(h)
       \/ \E c \in Carpinchos : handler(c)

Spec == Init /\ [][Next]_vars

\* The threads of the kernel are scheduled by the operating system: a step of
\* theirs that can be taken is eventually taken.  A carpincho may stop calling
\* at any time, so its calls are under no fairness.
Equidad ==
    /\ WF_vars(kernel_vivo /\ entrantes_a_ready)
    /\ WF_vars(kernel_vivo /\ ready_a_exec)
    /\ WF_vars(kernel_vivo /\ suspender)
    /\ \A i \in CPUs : WF_vars(kernel_vivo /\ ejecuta(i))
    /\ \A h \in HilosServidor : WF_vars(kernel_vivo /\ Atiende(h))

SpecJusta == Spec /\ Equidad

-----------------------------------------------------------------------------
(* Properties.                                                             *)

Uno(condicion) == IF condicion THEN 1 ELSE 0
HilosEn(pasos) == {h \in Hilos : hilo[h].pc \in pasos}
Cuantos(q) == Len(cola[q])
CuantasCPUs == Len(CPU_libres)
CPUsEn(pasos) == {i \in CPUs : hilo_CPU[i].pc \in pasos}

\* Threads that moved a carpincho to new or suspended_ready, or to ready, or that
\* pushed their CPU id, and have not posted the token yet.
EntrantesPorPublicar == Cardinality(HilosEn({"init_publica", "suspended_publica"}))
ReadyPorPublicar == Cardinality(HilosEn({"ready_publica"}))
CPUsPorAnunciar == Cardinality(CPUsEn({"espera_mutex"}))

\* Tokens that a planner took and has not turned into a queue move yet.
EntranteDeLargo == Uno(largo.pc \in {"espera_grado", "mira", "de_suspended_ready", "de_new"})
ReadyDeLargo == Uno(largo.pc = "publica")
ReadyDeCorto == Uno(corto.pc \in {"espera_cpu", "elige", "mueve"})
CPUDeCorto == Uno(corto.pc = "elige")

Estados == {"NEW", "READY", "EXEC", "BLOCKED", "SUSPENDED_BLOCKED", "SUSPENDED_READY"}

TipoCola == cola \in [Colas -> Seq(Carpinchos)]
TipoSem == sem \in [Contadores -> Nat]
TipoCarpincho ==
    carpincho \in [Carpinchos -> [estado : Estados, CPU_en_uso : CPUs \cup {SinCPU},
                                  fd : Nat, existe : BOOLEAN]]
TipoCPU ==
    /\ CPU_libres \in Seq(CPUs)
    /\ mutex_para_CPU \in BOOLEAN
    /\ hilo_CPU \in [CPUs -> [pc : PasosCPU, usar : Nat, libre : Nat, liberar : Nat]]
TipoPlanificadores ==
    /\ largo \in [pc : PasosLargo, carpincho : Carpinchos \cup {Nadie}]
    /\ corto \in [pc : PasosCorto, carpincho : Carpinchos \cup {Nadie}]
    /\ suspensor \in [pc : PasosSuspensor, carpincho : Carpinchos \cup {Nadie},
                      long_blocked : Nat]
TipoRecursos ==
    /\ semaforo \in [Semaforos -> [existe : BOOLEAN, valor : Int,
                                   en_espera : Seq(Carpinchos)]]
    /\ dispositivo_sem \in [Dispositivos -> Nat]
TipoHilo ==
    hilo \in [Hilos -> [pc : PasosHilo,
                        recurso : Semaforos \cup Dispositivos \cup {Nadie},
                        objetivo : Carpinchos \cup {Nadie}]]
TipoCliente ==
    cliente \in [Carpinchos -> [pc : {"fuera", "corre", "espera", "cierra", "fin"},
                                llamada : 0 .. MaxLlamadas]]

\* Every variable has its type: the queues hold carpinchos and CPU ids, no
\* counting semaphore is below zero, every thread is at a known step.
TypeOK ==
    /\ TipoCola /\ TipoSem /\ TipoCarpincho /\ TipoCPU /\ TipoPlanificadores
    /\ TipoRecursos /\ TipoHilo /\ TipoCliente
    /\ kernel_vivo \in BOOLEAN

\* The tokens of hay_estructura_creada, the one the long-term planner holds and
\* those still to be posted are as many as the carpinchos waiting for admission.
CuentaEntrantes ==
    Cuantos("new") + Cuantos("suspended_ready") =
        sem["hay_estructura_creada"] + EntranteDeLargo + EntrantesPorPublicar

\* The long-term planner never takes the head of an empty queue, although it
\* chooses the queue without holding its mutex.
LargoPlazoEncuentra ==
    /\ largo.pc = "de_suspended_ready" => cola["suspended_ready"] # << >>
    /\ largo.pc = "de_new" => cola["new"] # << >>

\* The same account for ready and cola_ready_con_elementos.
CuentaReady ==
    Cuantos("ready") =
        sem["cola_ready_con_elementos"] + ReadyDeLargo + ReadyDeCorto + ReadyPorPublicar

\* SJF and HRRN are never run on an empty ready list (they would return an
\* uninitialised pointer), asignar_hilo_CPU always finds a free CPU, and the
\* carpincho chosen is still in ready when it is moved to exec.
CortoPlazoEncuentra ==
    /\ corto.pc = "elige" => cola["ready"] # << >> /\ CPU_libres # << >>
    /\ corto.pc = "mueve" => corto.carpincho \in Range(cola["ready"])

\* The same account for CPU_libres and sem_grado_multiprocesamiento_libre.
CuentaCPUs ==
    CuantasCPUs =
        sem["grado_multiprocesamiento_libre"] + CPUDeCorto + CPUsPorAnunciar

\* A CPU id is never handed out twice: it is once in CPU_libres, or its thread
\* was told to use it, or its thread is using it, whatever is posted to
\* liberar_CPU.
CPUExclusiva ==
    /\ IsInjective(CPU_libres)
    /\ \A i \in CPUs :
          Uno(i \in Range(CPU_libres)) + hilo_CPU[i].usar
              + Uno(hilo_CPU[i].pc \in {"espera_libre", "espera_liberar"}) = 1

\* A semaphore never lets more carpinchos through than its permits: the permits
\* owed are at most the carpinchos queued on it, although wakeups may be lost.
PermisosNoNegativos ==
    \A s \in Semaforos : semaforo[s].valor + Len(semaforo[s].en_espera) >= 0

\* A CPU in CPU_libres has no carpincho executing on it.
CPULibreSinOcupante ==
    \A c \in Range(cola["exec"]) : carpincho[c].CPU_en_uso \notin Range(CPU_libres)

\* exec never holds more carpinchos than there are CPUs.
GradoMultiprocesamientoRespetado == Len(cola["exec"]) <= GradoMultiprocesamiento

\* A carpincho that runs is in exec: no answer lets it go on before ready_a_exec
\* gave it a CPU, nor after exec_a_block took it away.
SoloCorreEnExec ==
    \A c \in Carpinchos : cliente[c].pc = "corre" => c \in Range(cola["exec"])

\* The long-term planner does not leave a carpincho waiting for ever beside a
\* free slot of the multiprogramming degree, while the kernel lives.
GradoLibreSeUsa ==
    []<>(kernel_vivo => \/ sem["grado_multiprogramacion_libre"] = 0
                        \/ cola["new"] = << >> /\ cola["suspended_ready"] = << >>)

\* The short-term planner does not leave a carpincho in ready for ever beside a
\* CPU of CPU_libres, while the kernel lives.
CPULibreSeUsa == []<>(kernel_vivo => cola["ready"] = << >> \/ CPU_libres = << >>)

\* An I/O call returns its carpincho to ready or to suspended_ready, with the
\* token of that queue posted, unless the kernel dies.
IoVuelve ==
    \A h \in Hilos : hilo[h].pc = "io_pide" ~> (hilo[h].pc = "libre" \/ ~kernel_vivo)
=============================================================================
