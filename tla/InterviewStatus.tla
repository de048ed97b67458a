--------------------------- MODULE InterviewStatus ---------------------------
(***************************************************************************)
(* The states of an interview and the transitions app/models.py allows.    *)
(* "absent" is a row that was never inserted and "purged" one that the     *)
(* retention routine deleted: neither is a member of the enum.             *)
(***************************************************************************)

RECEBIDA      == "recebida"
TRANSCREVENDO == "transcrevendo"
DIARIZANDO    == "diarizando"
PONTUANDO     == "pontuando"
AGUARDANDO    == "aguardando_aprovacao"
APROVADA      == "aprovada"
REJEITADA     == "rejeitada"
FALHOU        == "falhou"

InterviewStatuses == {RECEBIDA, TRANSCREVENDO, DIARIZANDO, PONTUANDO,
                      AGUARDANDO, APROVADA, REJEITADA, FALHOU}

ABSENT == "absent"
PURGED == "purged"

TERMINAL_STATUSES == {APROVADA, REJEITADA}

\* Statuses process_interview refuses to work on.
Settled(s) == s \in TERMINAL_STATUSES \cup {AGUARDANDO}

\* The row exists in the database.
Live(s) == s \in InterviewStatuses

VALID_TRANSITIONS ==
    [s \in InterviewStatuses |->
        CASE s = RECEBIDA      -> {TRANSCREVENDO, FALHOU}
          [] s = TRANSCREVENDO -> {DIARIZANDO, FALHOU}
          [] s = DIARIZANDO    -> {PONTUANDO, FALHOU}
          [] s = PONTUANDO     -> {AGUARDANDO, FALHOU}
          [] s = AGUARDANDO    -> {APROVADA, REJEITADA}
          [] s = FALHOU        -> {TRANSCREVENDO, DIARIZANDO, PONTUANDO}
          [] OTHER             -> {}]

\* Interview.transition_to raises unless this holds (the same status is a no-op).
MayTransition(from, to) == from = to \/ to \in VALID_TRANSITIONS[from]
==============================================================================
