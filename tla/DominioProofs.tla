--------------------------- MODULE DominioProofs ---------------------------
(***************************************************************************)
(* What the proofs about the parts of Dominio show of every behaviour: the *)
(* invariant of a part holds in the behaviours that are its own, and says  *)
(* nothing of the others.                                                  *)
(***************************************************************************)
EXTENDS Dominio

-----------------------------------------------------------------------------

(* Enrolment, in the behaviours that are its own.                           *)
MatriculaInv == part = "matricula" => IMatricula

(* It holds in every state.                                                 *)
LEMMA MatriculaAlways == Spec => []MatriculaInv
<1>1. Init => MatriculaInv
  <2> SUFFICES ASSUME M!Init PROVE IMatricula
    BY DEF Init, MatriculaInv
  <2> QED
    BY MatriculaInit, DominioAssumption
<1>2. MatriculaInv /\ [Next]_vars => MatriculaInv'
  <2> SUFFICES ASSUME MatriculaInv, [Next]_vars, part' = "matricula" PROVE IMatricula'
    BY DEF MatriculaInv
  <2>1. part = "matricula" /\ [M!Next]_M!vars
    BY DEF Next, vars, matriculaVars, M!vars
  <2>2. IMatricula
    BY <2>1 DEF MatriculaInv
  <2> QED
    BY <2>1, <2>2, MatriculaNext, DominioAssumption
<1> QED
  BY <1>1, <1>2, PTL DEF Spec

(* A card has a second student only where the guard was given back over a   *)
(* student that the read model did not show, by a handler whose save or     *)
(* Consume failed after the student was recorded: once for each such time,  *)
(* whatever requests with its number do at a time.                          *)
THEOREM OneStudentPerBITheorem == Spec => []OneStudentPerBI
<1>1. MatriculaInv => OneStudentPerBI
  BY MatriculaOneStudent DEF MatriculaInv, OneStudentPerBI
<1> QED
  BY <1>1, MatriculaAlways, PTL

(* Extra services, in theirs.                                               *)
ServicoInv == part = "servico" => IServico

(* It holds in every state.                                                 *)
LEMMA ServicoAlways == Spec => []ServicoInv
<1>1. Init => ServicoInv
  <2> SUFFICES ASSUME S!Init PROVE IServico
    BY DEF Init, ServicoInv
  <2> QED
    BY ServicoInit, DominioAssumption
<1>2. ServicoInv /\ [Next]_vars => ServicoInv'
  <2> SUFFICES ASSUME ServicoInv, [Next]_vars, part' = "servico" PROVE IServico'
    BY DEF ServicoInv
  <2>1. part = "servico" /\ [S!Next]_S!vars
    BY DEF Next, vars, servicoVars, S!vars
  <2>2. IServico
    BY <2>1 DEF ServicoInv
  <2> QED
    BY <2>1, <2>2, ServicoNext, DominioAssumption
<1> QED
  BY <1>1, <1>2, PTL DEF Spec

(* A student has a second request that waits only where the guard was given *)
(* back over one that was recorded and not in sight: once for each such     *)
(* time, whatever the handlers do.                                          *)
THEOREM OnePendingInscriptionTheorem == Spec => []OnePendingInscription
<1>1. ServicoInv => OnePendingInscription
  BY ServicoOne DEF ServicoInv, OnePendingInscription
<1> QED
  BY <1>1, ServicoAlways, PTL

(* Final assessment, in its own.                                            *)
AvaliacaoInv == part = "avaliacao" => IAvaliacao

(* It holds in every state.                                                 *)
LEMMA AvaliacaoAlways == Spec => []AvaliacaoInv
<1>1. Init => AvaliacaoInv
  <2> SUFFICES ASSUME V!Init PROVE IAvaliacao
    BY DEF Init, AvaliacaoInv
  <2> QED
    BY AvaliacaoInit, DominioAssumption
<1>2. AvaliacaoInv /\ [Next]_vars => AvaliacaoInv'
  <2> SUFFICES ASSUME AvaliacaoInv, [Next]_vars, part' = "avaliacao" PROVE IAvaliacao'
    BY DEF AvaliacaoInv
  <2>1. part = "avaliacao" /\ [V!Next]_V!vars
    BY DEF Next, vars, avaliacaoVars, V!vars
  <2>2. IAvaliacao
    BY <2>1 DEF AvaliacaoInv
  <2> QED
    BY <2>1, <2>2, AvaliacaoNext, DominioAssumption
<1> QED
  BY <1>1, <1>2, PTL DEF Spec

(* A student moves a level up once in a school year, or else because of a    *)
(* mark of an earlier year that was corrected in it.                        *)
THEOREM OneLevelPerYearTheorem == Spec => []OneLevelPerYear
<1>1. AvaliacaoInv => OneLevelPerYear
  BY AvaliacaoOneLevel DEF AvaliacaoInv, OneLevelPerYear
<1> QED
  BY <1>1, AvaliacaoAlways, PTL

(* The job engine, in its own.                                              *)
FilaInv == part = "pool" => J!IInv /\ J!Reruns

(* It holds in every state.                                                 *)
LEMMA FilaAlways == Spec => []FilaInv
<1>1. Init => FilaInv
  <2> SUFFICES ASSUME J!Init PROVE J!IInv /\ J!Reruns
    BY DEF Init, FilaInv
  <2> QED
    BY J!InvInit, J!RerunsInit, DominioAssumption
<1>2. FilaInv /\ [Next]_vars => FilaInv'
  <2> SUFFICES ASSUME FilaInv, [Next]_vars, part' = "pool" PROVE (J!IInv /\ J!Reruns)'
    BY DEF FilaInv
  <2>1. part = "pool" /\ [J!Next]_J!vars
    BY DEF Next, vars, poolVars, J!vars, J!created, J!pool
  <2>2. J!IInv /\ J!Reruns
    BY <2>1 DEF FilaInv
  <2>3. J!IInv'
    BY <2>1, <2>2, J!InvNext, DominioAssumption
  <2>4. J!Reruns'
    BY <2>1, <2>2, J!RerunsNext, DominioAssumption
  <2> QED
    BY <2>3, <2>4
<1> QED
  BY <1>1, <1>2, PTL DEF Spec

(* A job is queued once or with one worker, whatever finds it unfinished.    *)
THEOREM OneWorkerPerJobTheorem == Spec => []OneWorkerPerJob
<1>1. FilaInv => OneWorkerPerJob
  BY J!InvSafe, DominioAssumption DEF FilaInv, OneWorkerPerJob
<1> QED
  BY <1>1, FilaAlways, PTL

(* A job that is reported as ended has run every one of its items, although *)
(* it was paused, restarted or queued again on the way.                     *)
THEOREM FinishedJobsHaveRunTheorem == Spec => []FinishedJobsHaveRun
<1>1. FilaInv => FinishedJobsHaveRun
  BY J!InvSafe, DominioAssumption DEF FilaInv, FinishedJobsHaveRun
<1> QED
  BY <1>1, FilaAlways, PTL

(* Each restart and each lost write makes one batch of items run again at   *)
(* most.                                                                    *)
THEOREM RerunWindowTheorem == Spec => []RerunWindow
<1>1. FilaInv => RerunWindow
  BY J!RerunsSafe, DominioAssumption DEF FilaInv, RerunWindow
<1> QED
  BY <1>1, FilaAlways, PTL

-----------------------------------------------------------------------------
(* Requests to change a datum.                                              *)
PedidosInv == part = "solicitacoes" => IPedidos

(* The requests keep the invariant IPedidos.                                *)
LEMMA PedidosAlways == Spec => []PedidosInv
<1>1. Init => PedidosInv
  <2> SUFFICES ASSUME Q!MCInit PROVE IPedidos
    BY DEF Init, PedidosInv
  <2> QED
    BY PedidosInit DEF Q!MCInit
<1>2. PedidosInv /\ [Next]_vars => PedidosInv'
  <2> SUFFICES ASSUME PedidosInv, [Next]_vars, part' = "solicitacoes" PROVE IPedidos'
    BY DEF PedidosInv
  <2>1. part = "solicitacoes" /\ [Q!Next]_Q!vars
    BY DEF Next, vars, solicitacoesVars, Q!vars, Q!requests, Q!MCNext
  <2>2. IPedidos
    BY <2>1 DEF PedidosInv
  <2> QED
    BY <2>1, <2>2, PedidosNext
<1> QED
  BY <1>1, <1>2, PTL DEF Spec

(* A datum has one pending request, unless a restart or a lost answer freed *)
(* a guard it had, or a request was decided twice.                          *)
THEOREM AtMostOnePendingTheorem == Spec => []AtMostOnePending
<1>1. PedidosInv => AtMostOnePending
  BY PedidosImplies DEF PedidosInv, AtMostOnePending
<1> QED
  BY <1>1, PedidosAlways, PTL

(* Who decides has the document, unless an answer to a save was lost.       *)
THEOREM PendingHasDocumentTheorem == Spec => []PendingHasDocument
<1>1. PedidosInv => PendingHasDocument
  BY PedidosImplies DEF PedidosInv, PendingHasDocument
<1> QED
  BY <1>1, PedidosAlways, PTL

(* A decided request blocks no other, unless the server stopped or the      *)
(* release failed.                                                          *)
THEOREM DecidedFreesTheKeyTheorem == Spec => []DecidedFreesTheKey
<1>1. PedidosInv => DecidedFreesTheKey
  BY PedidosImplies DEF PedidosInv, DecidedFreesTheKey
<1> QED
  BY <1>1, PedidosAlways, PTL

(* A second decision had read the request before the first was saved.       *)
THEOREM DecidedOnceTheorem == Spec => []DecidedOnce
<1>1. PedidosInv => DecidedOnce
  BY PedidosImplies DEF PedidosInv, DecidedOnce
<1> QED
  BY <1>1, PedidosAlways, PTL

(* An approval in the ledger was applied, whatever failed and wherever it   *)
(* stopped.                                                                 *)
THEOREM ApprovedIsAppliedTheorem == Spec => []ApprovedIsApplied
<1>1. PedidosInv => ApprovedIsApplied
  BY PedidosImplies DEF PedidosInv, ApprovedIsApplied
<1> QED
  BY <1>1, PedidosAlways, PTL

-----------------------------------------------------------------------------
(* Monthly fees.                                                            *)

(* Monthly fees, in the behaviours that are theirs.                         *)
MensalidadeInv == part = "mensalidade" => IMensalidade /\ IConta

(* It holds in every state.                                                 *)
LEMMA MensalidadeAlways == Spec => []MensalidadeInv
<1>1. Init => MensalidadeInv
  <2> SUFFICES ASSUME P!Init PROVE IMensalidade /\ IConta
    BY DEF Init, MensalidadeInv
  <2>1. IMensalidade
    BY DEF P!Init, IMensalidade
  <2> QED
    BY <2>1, ContaInit
<1>2. MensalidadeInv /\ [Next]_vars => MensalidadeInv'
  <2> SUFFICES ASSUME MensalidadeInv, [Next]_vars, part' = "mensalidade"
               PROVE  IMensalidade' /\ IConta'
    BY DEF MensalidadeInv
  <2>1. part = "mensalidade" /\ [P!Next]_P!vars
    BY DEF Next, vars, mensalidadeVars, P!vars
  <2>2. IMensalidade /\ IConta /\ hoje \in Nat /\ Instantes \subseteq Nat
    BY <2>1, DominioAssumption DEF MensalidadeInv, IMensalidade, MensalidadeHipoteses
  <2>3. IMensalidade'
    BY <2>1, <2>2, MensalidadeNext
  <2> QED
    BY <2>1, <2>2, <2>3, ContaNext
<1> QED
  BY <1>1, <1>2, PTL DEF Spec

(* Each month a student can pay is on the list of payments, as due or in a  *)
(* charge that waits for it, and never as both; two charges wait for it only *)
(* where payments overlapped or one was opened again; and the pages of the  *)
(* list, of any prices and charges, leave nothing out and repeat nothing.   *)
THEOREM NothingDueIsHiddenTheorem == Spec => []NothingDueIsHidden
<1>1. MensalidadeInv => NothingDueIsHidden
  BY NadaEscondido DEF MensalidadeInv, NothingDueIsHidden
<1> QED
  BY <1>1, MensalidadeAlways, PTL

(* The price of a month that has begun and is settled is never changed by a *)
(* later price, removal or day.                                             *)
THEOREM PastPricesStandTheorem == Spec => PastPricesStand
<1> DEFINE Inv == part = "mensalidade" => IMensalidade
<1>1. Init => Inv
  <2> SUFFICES ASSUME P!Init PROVE IMensalidade
    BY DEF Init
  <2> QED
    BY DEF P!Init, IMensalidade
<1>2. Inv /\ [Next]_vars => Inv' /\ [part = "mensalidade" => P!PastPriceKept]_mensalidadeVars
  <2> SUFFICES ASSUME Inv, [Next]_vars
               PROVE  Inv' /\ [part = "mensalidade" => P!PastPriceKept]_mensalidadeVars
    OBVIOUS
  <2>1. CASE part = "mensalidade"
    <3>1. part' = part /\ IMensalidade /\ [P!Next]_P!vars
      BY <2>1 DEF Next, vars, mensalidadeVars, P!vars
    <3>2. IMensalidade' /\ P!PastPriceKept
      BY <3>1, MensalidadeNext, MensalidadePreco, DominioAssumption DEF MensalidadeHipoteses
    <3> QED
      BY <3>2
  <2>2. CASE part # "mensalidade"
    BY <2>2 DEF Next, vars
  <2> QED
    BY <2>1, <2>2
<1> QED
  BY <1>1, <1>2, PTL DEF Spec, PastPricesStand
-----------------------------------------------------------------------------
(* Rules of assessment.                                                     *)

(* Rules, in their own.                                                     *)
RegrasInv == part = "regras" => IRegras

(* It holds in every state.                                                 *)
LEMMA RegrasAlways == Spec => []RegrasInv
<1>1. Init => RegrasInv
  <2> SUFFICES ASSUME R!Init PROVE IRegras
    BY DEF Init, RegrasInv
  <2> QED
    BY RegrasInit, DominioAssumption
<1>2. RegrasInv /\ [Next]_vars => RegrasInv'
  <2> SUFFICES ASSUME RegrasInv, [Next]_vars, part' = "regras" PROVE IRegras'
    BY DEF RegrasInv
  <2>1. part = "regras" /\ [R!Next]_R!regrasVars
    BY DEF Next, vars, regrasVars, R!regrasVars
  <2>2. IRegras
    BY <2>1 DEF RegrasInv
  <2> QED
    BY <2>1, <2>2, RegrasNext, DominioAssumption
<1> QED
  BY <1>1, <1>2, PTL DEF Spec

(* The rules an academy has lead to a root, whoever creates others          *)
(* meanwhile, and are of use to an assessment when nothing overlapped.      *)
THEOREM RulesReachARootTheorem == Spec => []RulesReachARoot
<1>1. RegrasInv => RulesReachARoot
  BY RegrasImplies, DominioAssumption DEF RegrasInv, RulesReachARoot
<1> QED
  BY <1>1, RegrasAlways, PTL

-----------------------------------------------------------------------------
(* Credentials.                                                             *)
CredenciaisInv == part = "credenciais" => K!IInv /\ K!ITipos

(* The invariant holds in every state.                                      *)
LEMMA CredenciaisAlways == Spec => []CredenciaisInv
<1>1. Init => CredenciaisInv
  <2> SUFFICES ASSUME K!Init PROVE K!IInv /\ K!ITipos
    BY DEF Init, CredenciaisInv
  <2> QED
    BY K!InitInv, K!TiposInit, DominioAssumption
<1>2. CredenciaisInv /\ [Next]_vars => CredenciaisInv'
  <2> SUFFICES ASSUME CredenciaisInv, [Next]_vars PROVE CredenciaisInv'
    OBVIOUS
  <2>1. CASE part = "credenciais"
    <3>1. part' = part /\ K!IInv /\ K!ITipos /\ [K!Next]_K!vars
      BY <2>1 DEF Next, vars, credenciaisVars, K!vars, K!rowVars, CredenciaisInv
    <3> QED
      BY <3>1, K!NextInv, K!TiposNext, DominioAssumption DEF CredenciaisInv
  <2>2. CASE part # "credenciais"
    BY <2>2 DEF Next, vars, CredenciaisInv
  <2> QED
    BY <2>1, <2>2
<1> QED
  BY <1>1, <1>2, PTL DEF Spec

(* Whatever is configured, removed and purged meanwhile, a pending charge   *)
(* keeps the credentials it was made with, complete.                        *)
THEOREM PendingChargeIsReachableTheorem == Spec => []PendingChargeIsReachable
<1>1. CredenciaisInv => PendingChargeIsReachable
  BY K!IInvImplies DEF CredenciaisInv, PendingChargeIsReachable
<1> QED
  BY <1>1, CredenciaisAlways, PTL

(* Once all is quiet and no removal was overtaken, a snapshot that is left  *)
(* has a charge that needs it.                                              *)
THEOREM SnapshotIsNeededTheorem == Spec => []SnapshotIsNeeded
<1>1. CredenciaisInv => SnapshotIsNeeded
  BY K!IInvImplies DEF CredenciaisInv, SnapshotIsNeeded
<1> QED
  BY <1>1, CredenciaisAlways, PTL

-----------------------------------------------------------------------------
(* Registers.  The invariant of CadastrosProofs, of the behaviours of its   *)
(* own.                                                                     *)
CadastroInv == part = "cadastro" => C!IInv

(* It holds in every state.                                                 *)
LEMMA CadastroAlways == Spec => []CadastroInv
<1>1. Init => CadastroInv
  <2> SUFFICES ASSUME C!Init PROVE C!IInv
    BY DEF Init, CadastroInv
  <2> QED
    BY C!InvInit, DominioAssumption
<1>2. CadastroInv /\ [Next]_vars => CadastroInv'
  <2> SUFFICES ASSUME CadastroInv, [Next]_vars, part' = "cadastro" PROVE C!IInv'
    BY DEF CadastroInv
  <2>1. part = "cadastro" /\ [C!Next]_C!cadastroVars
    BY DEF Next, vars, cadastroVars, C!cadastroVars
  <2>2. C!IInv
    BY <2>1 DEF CadastroInv
  <2> QED
    BY <2>1, <2>2, C!InvNext, DominioAssumption
<1> QED
  BY <1>1, <1>2, PTL DEF Spec

(* Whatever the handlers of every register append, in whatever state, and   *)
(* however often an event is handled, a row that has had every event is     *)
(* what the aggregate makes of its stream; the row of a class, but for the  *)
(* students an assessment moved from it or to it.                           *)
THEOREM RowsAgreeTheorem == Spec => []RowsAgree
<1>1. CadastroInv => RowsAgree
  BY C!IInvImplies, DominioAssumption DEF CadastroInv, RowsAgree
<1> QED
  BY <1>1, CadastroAlways, PTL

-----------------------------------------------------------------------------
(* Types.                                                                   *)

(* Every part, of any size, keeps its variables in their types.             *)
THEOREM TypeOKTheorem == Spec => []TypeOK
<1>1. /\ MatriculaInv /\ ServicoInv /\ AvaliacaoInv /\ FilaInv /\ RegrasInv
      /\ PedidosInv /\ MensalidadeInv /\ CredenciaisInv /\ CadastroInv
      => TypeOK
  <2> SUFFICES ASSUME MatriculaInv, ServicoInv, AvaliacaoInv, FilaInv, RegrasInv,
                      PedidosInv, MensalidadeInv, CredenciaisInv, CadastroInv
               PROVE  TypeOK
    OBVIOUS
  <2>1. part = "credenciais" => K!TypeOK
    BY K!TiposImplies, DominioAssumption DEF CredenciaisInv
  <2>2. part = "mensalidade" => P!TypeOK
    BY MensalidadeTypeOK DEF MensalidadeInv
  <2>3. part = "matricula" => M!TypeOK
    BY MatriculaOneStudent DEF MatriculaInv
  <2>4. part = "servico" => S!TypeOK
    BY ServicoTypeOK DEF ServicoInv
  <2>5. part = "avaliacao" => V!TypeOK
    BY AvaliacaoTypeOK DEF AvaliacaoInv
  <2>6. part = "cadastro" => C!TypeOK
    BY C!IInvImplies, DominioAssumption DEF CadastroInv
  <2>7. part = "pool" => J!TypeOK
    BY J!InvSafe, DominioAssumption DEF FilaInv
  <2>8. part = "regras" => R!TypeOK
    BY RegrasTypeOK DEF RegrasInv
  <2>9. part = "solicitacoes" => Q!TypeOK
    BY PedidosImplies DEF PedidosInv
  <2> QED
    BY <2>1, <2>2, <2>3, <2>4, <2>5, <2>6, <2>7, <2>8, <2>9 DEF TypeOK
<1> QED
  BY <1>1, MatriculaAlways, ServicoAlways, AvaliacaoAlways, FilaAlways, RegrasAlways,
     PedidosAlways, MensalidadeAlways, CredenciaisAlways, CadastroAlways, PTL
=============================================================================
