------------------------------ MODULE MCRepl ------------------------------
EXTENDS Repl
==========================================================================
