SPECIFICATION SpecTorn
INVARIANT LoadRejectsTornFile
CONSTANT NIL = NIL
