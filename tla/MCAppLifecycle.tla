--------------------------- MODULE MCAppLifecycle ---------------------------
(* Two apps: a stack, and either another stack or a single container.      *)
EXTENDS AppLifecycle
CONSTANTS a1, a2
MCPreferred == [a \in {a1, a2} |-> 8]
==============================================================================
