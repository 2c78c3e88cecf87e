------------------------------ MODULE MCScreen ------------------------------
EXTENDS Screen
MCSizes == {<<2, 3>>, <<3, 2>>}
=============================================================================
