------------------------- MODULE FaltasConfiguracao -------------------------
(***************************************************************************)
(* The limit of absences of an academy (domain/aggregates/                 *)
(* configuracao_faltas.go), its handler (handlers/                         *)
(* faltas_configuracao_handlers.go) and its row (projections/              *)
(* faltas_configuracao_projection.go), in the form of module Turma.  The   *)
(* id is derived from the academy's code, so there is one stream and each  *)
(* definition replaces the one before.                                     *)
(***************************************************************************)
LOCAL INSTANCE Sequences
LOCAL INSTANCE Integers

SemLimite == {}    \* nil; {n}: a limit of n
MaxLimiteFaltasPorPeriodo == 500

\* the academy that never defined one reads this
NewConfiguracaoFaltas == [limite |-> SemLimite, reprovacao |-> FALSE]

(* Failing for absences needs a limit.                                      *)
Definir ==
    {ev \in [tipo : {"ConfiguracaoFaltasDefinida"},
             limite : {SemLimite} \cup {{n} : n \in {0, 1, MaxLimiteFaltasPorPeriodo,
                                                    MaxLimiteFaltasPorPeriodo + 1}},
             reprovacao : BOOLEAN] :
        /\ ev.limite \subseteq 1 .. MaxLimiteFaltasPorPeriodo
        /\ ev.reprovacao => ev.limite # SemLimite}

Apply(c, ev) == [c EXCEPT !.limite = ev.limite, !.reprovacao = ev.reprovacao]

DefinirConfiguracaoFaltas == {<<ev>> : ev \in Definir}

\* INSERT .. ON CONFLICT DO UPDATE
definida(l, ev) == [limite |-> ev.limite, reprovacao |-> ev.reprovacao]
=============================================================================
