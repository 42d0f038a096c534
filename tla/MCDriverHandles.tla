--------------------------- MODULE MCDriverHandles ---------------------------
(* DriverHandles with three threads and four objects for two slots.        *)
EXTENDS DriverHandles
CONSTANTS t1, t2, t3, o1, o2, o3, o4

ThreeThreads == {t1, t2, t3}
FourObjects  == {o1, o2, o3, o4}
=============================================================================
