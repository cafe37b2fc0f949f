\* Two roots of different types, created at once.
SPECIFICATION Spec
CONSTANTS
    TiposRegra = {"normal", "recurso"}
    Gestores = {g1, g2}
    MaxRegras = 2
    MaxGestoes = 2
INVARIANT OneActiveRoot
CHECK_DEADLOCK FALSE
