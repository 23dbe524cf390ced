-------------------------- MODULE MCHttpConnection --------------------------
(* Small instances of HttpConnection. *)
EXTENDS HttpConnection
=============================================================================
