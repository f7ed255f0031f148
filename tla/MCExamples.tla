------------------------------ MODULE MCExamples ------------------------------
EXTENDS Examples

CONSTANTS p1, p2, bus

MCExecutors == {p1, p2, bus}
====
