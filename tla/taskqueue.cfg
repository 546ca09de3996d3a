SPECIFICATION Spec
CONSTANTS
    Task = {t1, t2, t3, t4}
    List = {rtaskq, wtaskq}
    None = None
SYMMETRY Symmetric
INVARIANT Represents
