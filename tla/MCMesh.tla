---------------------------- MODULE MCMesh ----------------------------
(* Mesh for TLC: mesh_members.cfg names the machines and connections.      *)
EXTENDS Mesh
=============================================================================
