-------------------------- MODULE MCBufferedSocket --------------------------
(* Bounds for BufferedSocket: a worker's three forwards and two get_task,  *)
(* or a reader's two messages and three acks, of different lengths, with a *)
(* prefix of two bytes and a kernel pipe shorter than a frame.             *)
EXTENDS BufferedSocket

MCSize  == <<1, 2, 1, 3, 2>>
MCRoles == { [sends |-> 5, getTask |-> {3, 5}], [sends |-> 2, getTask |-> {}] }
=============================================================================
