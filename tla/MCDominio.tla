----------------------------- MODULE MCDominio -----------------------------
(***************************************************************************)
(* Small instances of the modules of Dominio for TLC, and beside them the  *)
(* formulas of marks, which are recursive.                                 *)
(***************************************************************************)
EXTENDS Dominio, TLC

CONSTANTS
    Constantes, MaxTexto, MaxFormula

VARIABLES
    texto, formula

F == INSTANCE FormulaAvaliacao WITH Notas <- <<12, 7>>

formulaVars == <<texto, formula>>
formulaOff == texto = {} /\ formula = {}

MCInit ==
    \/ Init /\ formulaOff
    \/ /\ part = "formula" /\ F!Init
       /\ credenciaisOff /\ mensalidadeOff /\ matriculaOff /\ servicoOff
       /\ avaliacaoOff /\ cadastroOff /\ poolOff /\ regrasOff /\ solicitacoesOff

MCNext ==
    \/ Next /\ UNCHANGED formulaVars
    \/ part = "formula" /\ F!Next /\ UNCHANGED vars

MCSpec == MCInit /\ [][MCNext]_<<vars, formulaVars>>

\* Requests, handlers and workers are the same two values in every part, and interchangeable.
Symmetry == Permutations(Callers)

(* The mark of a student is what the text of the formula means.             *)
MarksFollowTheText == part = "formula" => F!MarksFollowTheText
=============================================================================
