------------------------------ MODULE MCTerrain ------------------------------
(* Terrain with three CPUs, two frames' worth of heap and two jobs.          *)
EXTENDS Terrain

CONSTANTS b1, b2, j1, j2

MCBuffers == {b1, b2}
MCJobs == {j1, j2}

=============================================================================
