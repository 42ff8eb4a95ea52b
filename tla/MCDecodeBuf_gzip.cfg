SPECIFICATION SpecRaw
INVARIANT DecodeErrorsReported
CONSTANT NIL = NIL
