------------------------------ MODULE StreamChunk ------------------------------
(***************************************************************************)
(* The piece a connection takes of a body at a time (src/proto/response.rs,*)
(* STREAM_CHUNK): poll coalesces queued pieces up to it, a file is read in *)
(* pieces of it.                                                           *)
(***************************************************************************)
EXTENDS Naturals

CONSTANT STREAM_CHUNK

ASSUME ChunkAssumption == STREAM_CHUNK \in Nat \ {0}
================================================================================
