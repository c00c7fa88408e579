------------------------- MODULE MCEventLoopThread -------------------------
(* EventLoopThread on a small instance.                                    *)
EXTENDS EventLoopThread
=============================================================================
