------------------------------- MODULE Reservas -------------------------------
(***************************************************************************)
(* What a carpincho expects of its heap: memalloc gives it an address whose*)
(* block nobody else has, memfree gives back that block and no other, and  *)
(* the blocks it holds can be read and written.                            *)
(***************************************************************************)
EXTENDS Integers

CONSTANTS
    HEAP_METADATA_SIZE,
    Nada, OK                \* no answer yet; an access was made

VARIABLES
    reservas,   \* the space asked for each block held, by its address
    respuesta,  \* an address, OK, Nada or a failure
    fiable      \* nothing out of these promises has happened

\* The block at d with n bytes of data takes its header too.
Separados(d, n, e, m) ==
    d + HEAP_METADATA_SIZE + n <= e \/ e + HEAP_METADATA_SIZE + m <= d

Con(f, d, x) == [e \in DOMAIN f \cup {d} |-> IF e = d THEN x ELSE f[e]]

Init == reservas = << >> /\ respuesta = Nada /\ fiable = TRUE

Atiende == respuesta' = Nada /\ UNCHANGED reservas

Reserva(d, n) ==
    /\ \A e \in DOMAIN reservas : Separados(d, n, e, reservas[e])
    /\ reservas' = Con(reservas, d, n)
    /\ respuesta' = d

Libera(d) ==
    /\ reservas' = [e \in DOMAIN reservas \ {d} |-> reservas[e]]
    /\ respuesta' = OK

Accede == respuesta' = OK /\ UNCHANGED reservas

Next ==
    \/ /\ fiable /\ fiable'
       /\ \/ Atiende \/ Accede
          \/ \E d \in DOMAIN reservas' : Reserva(d, reservas'[d])
          \/ \E d \in DOMAIN reservas : Libera(d)
    \/ ~fiable'

Spec == Init /\ [][Next]_<<reservas, respuesta, fiable>>
=============================================================================
