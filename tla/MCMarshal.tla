----------------------------- MODULE MCMarshal -----------------------------
EXTENDS Marshal

\* One type of each kind of argument that the code treats alike.
Supported == {"VOID", "CHAR", "INT", "FLOAT", "DOUBLE", "LONG_DOUBLE"}
WithLongLong == {"INT", "LONG_LONG_INT"}
=============================================================================
