------------------------------ MODULE MCServes ------------------------------
\* Every serve asks for the same port.
EXTENDS Serves
CONSTANT p1

MCPort == [i \in Ids |-> p1]
===============================================================================
