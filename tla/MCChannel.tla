----------------------------- MODULE MCChannel -----------------------------
EXTENDS ChannelProperties

\* One side sends messages of one record and of two full ones, the other only
\* receives them.
OneWay == [e \in End |-> IF e = "a" THEN {8, 32} ELSE {}]
=============================================================================
