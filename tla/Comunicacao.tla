---------------------------- MODULE Comunicacao ----------------------------
(***************************************************************************)
(* Text messages (handlers/comunicacao_handlers.go): the sender of a       *)
(* provider, kept on a stream with an id of the provider's own (domain/    *)
(* aggregates/remetente_comunicacao.go), and the record of a message sent  *)
(* (mensagem_comunicacao.go), with their rows (projections/                *)
(* remetente_comunicacao_projection.go, mensagem_comunicacao_projection.go)*)
(* in the form of module Turma.                                            *)
(***************************************************************************)
LOCAL INSTANCE Sequences

Provedores == {"GOSMS", "ZIETT"}
Nenhum == ""

-----------------------------------------------------------------------------
(* The sender.  "desde" is the moment of the first configuration.           *)

NewRemetenteComunicacao == [identificador |-> Nenhum, token |-> Nenhum, desde |-> Nenhum]

Configurar ==
    [tipo : {"RemetenteComunicacaoConfigurado"}, identificador : {"r1", "r2"},
     token : {"t1", "t2"}, em : {"antes", "depois"}]

applyConfigurado(r, ev) ==
    [identificador |-> ev.identificador, token |-> ev.token,
     desde |-> IF r.desde = Nenhum THEN ev.em ELSE r.desde]

CriarRemetenteComunicacao == {<<ev>> : ev \in Configurar}

configurado(l, ev) ==
    IF l = NewRemetenteComunicacao
    THEN [identificador |-> ev.identificador, token |-> ev.token, desde |-> ev.em]
    ELSE [l EXCEPT !.identificador = ev.identificador, !.token = ev.token]

-----------------------------------------------------------------------------
(* A message.  The provider by default is tried, and then the other one.    *)

NewMensagemComunicacao == [tentado1 |-> Nenhum, tentado2 |-> Nenhum, utilizado |-> Nenhum,
                           status |-> Nenhum]

outroProvedorComunicacao(p) == CHOOSE o \in Provedores : o # p

(* "entrega" are the providers that have a sender and take the message.  A  *)
(* message that was sent and whose record is not saved leaves no trace.     *)
Registrar(padrao, entrega) ==
    LET outro == outroProvedorComunicacao(padrao)
        utilizado == IF padrao \in entrega THEN padrao
                     ELSE IF outro \in entrega THEN outro ELSE Nenhum
    IN [tipo |-> "MensagemComunicacaoRegistrada", tentado1 |-> padrao,
        tentado2 |-> IF utilizado = padrao THEN Nenhum ELSE outro, utilizado |-> utilizado,
        status |-> IF utilizado = Nenhum THEN "falhou" ELSE "enviada"]

applyRegistrada(m, ev) == [c \in DOMAIN m |-> ev[c]]

EnviarMensagemComunicacao(m) ==
    {<<Registrar(padrao, entrega)>> :
        padrao \in {p \in Provedores : m = NewMensagemComunicacao},
        entrega \in SUBSET Provedores}

registrada(l, ev) ==
    IF l # NewMensagemComunicacao THEN l
    ELSE [tentado1 |-> ev.tentado1, tentado2 |-> ev.tentado2, utilizado |-> ev.utilizado,
          status |-> ev.status]
=============================================================================
