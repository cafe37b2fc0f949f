\* A service, updated while the read model is behind.
SPECIFICATION Spec
CONSTANTS
    Inscricoes = {i1}
    Operadores = {o1}
    MaxOperacoes = 1
    MaxAlteracoes = 2
INVARIANT UpdatesFitTheTable
CHECK_DEADLOCK FALSE
