------------------------------ MODULE MCMeshMem -------------------------------
EXTENDS MeshMem
===============================================================================
